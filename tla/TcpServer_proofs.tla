-------------------------- MODULE TcpServer_proofs --------------------------
(***************************************************************************)
(* For any number of connections, any nesting of hooks and anything the    *)
(* subclass does in UserOnTcpConnectionClosed: nothing is deleted or       *)
(* reported twice, the set of connections is exact and nothing outlives    *)
(* the server.  The hypothesis is that UserOnNewTcpConnection does no more *)
(* to the new connection and to the server than close a connection.        *)
(***************************************************************************)
EXTENDS TcpServer, SequenceTheorems, TLAPS

CloseOnly == InNew \subseteq {"close connection"}

-----------------------------------------------------------------------------
\* The inductive invariant, beside TypeOK.

\* Once there is a server, the way back from the listening handle is there exactly
\* while it is open.
Server ==
  /\ ~fault
  /\ server = "none" => /\ ~closed /\ connections = {} /\ frames = <<>>
                        /\ handle # "listening" /\ \A c \in Conns : conn[c] = "none"
  /\ server = "deleted" => closed
  /\ server # "none" => (data <=> server = "live" /\ ~closed)
  /\ server = "live" /\ ~closed => handle = "listening"

\* How a connection, the set and the count of its ends go together.
Connections ==
  \A c \in Conns :
    /\ c \in connections =>
         told[c] = 0 /\ IF closed THEN conn[c] = "deleted" ELSE Live(c)
    /\ conn[c] \in {"none", "open"} => told[c] = 0
    /\ conn[c] = "open" => server = "live" /\ ~closed
    /\ Live(c) => c \in connections \cup Handling
    /\ closed /\ Live(c) => c \in Handling
    /\ told[c] = 1 /\ c \notin Handling => conn[c] = "deleted"

\* A connection being handled is in no set and waits for one hook only; the hook for
\* new connections is alone on the stack, and its server is open.
Frames ==
  /\ \A i \in DOMAIN frames :
       /\ frames[i].c \notin connections
       /\ IF frames[i].hook = "new"
          THEN /\ Len(frames) = 1 /\ server = "live" /\ ~closed
               /\ Live(frames[i].c) /\ told[frames[i].c] = 0
          ELSE conn[frames[i].c] = "closed" /\ told[frames[i].c] = 1
  /\ \A i, j \in DOMAIN frames : frames[i].c = frames[j].c => i = j

IInv == TypeOK /\ Server /\ Connections /\ Frames

-----------------------------------------------------------------------------
\* The stack of hooks.

Frame == [hook : {"new", "closed"}, c : Conns]

\* Indices and members of the stack.
LEMMA Stack ==
  ASSUME frames \in Seq(Frame)
  PROVE  /\ Len(frames) \in Nat /\ DOMAIN frames = 1..Len(frames)
         /\ \A i \in DOMAIN frames : frames[i] \in Frame
         /\ frames # <<>> => Len(frames) \in DOMAIN frames
         /\ Handling \subseteq Conns
  <1>1. Len(frames) \in Nat /\ DOMAIN frames = 1..Len(frames)
    BY LenProperties
  <1>2. \A i \in DOMAIN frames : frames[i] \in Frame
    BY <1>1
  <1>3. frames # <<>> => Len(frames) \in DOMAIN frames
    BY <1>1, EmptySeq
  <1>4. \A i \in DOMAIN frames : frames[i].c \in Conns
    BY <1>2 DEF Frame
  <1> QED BY <1>1, <1>2, <1>3, <1>4 DEF Handling

\* A call that goes on the stack.
LEMMA Push ==
  ASSUME frames \in Seq(Frame), NEW f \in Frame, frames' = Append(frames, f)
  PROVE  /\ frames' \in Seq(Frame) /\ Len(frames') = Len(frames) + 1
         /\ DOMAIN frames' = DOMAIN frames \cup {Len(frames) + 1}
         /\ Len(frames) + 1 \notin DOMAIN frames
         /\ \A i \in DOMAIN frames : frames'[i] = frames[i]
         /\ frames'[Len(frames) + 1] = f
         /\ Handling' = Handling \cup {f.c}
  <1>1. /\ Len(frames) \in Nat /\ DOMAIN frames = 1..Len(frames)
    BY Stack
  <1>2. /\ frames' \in Seq(Frame) /\ Len(frames') = Len(frames) + 1
        /\ \A i \in 1..Len(frames) : frames'[i] = frames[i]
        /\ frames'[Len(frames) + 1] = f
    BY AppendProperties
  <1>3. DOMAIN frames' = 1..Len(frames) + 1
    BY <1>2, LenProperties
  <1>4. DOMAIN frames' = DOMAIN frames \cup {Len(frames) + 1}
    BY <1>1, <1>3
  <1>5. Handling' = Handling \cup {f.c}
    BY <1>1, <1>2, <1>4 DEF Handling
  <1> QED BY <1>1, <1>2, <1>4, <1>5

\* The innermost call returns.
LEMMA Pop ==
  ASSUME frames \in Seq(Frame), frames # <<>>,
         \A i, j \in DOMAIN frames : frames[i].c = frames[j].c => i = j,
         frames' = SubSeq(frames, 1, Len(frames) - 1)
  PROVE  /\ frames' \in Seq(Frame) /\ Len(frames') = Len(frames) - 1
         /\ DOMAIN frames' = DOMAIN frames \ {Len(frames)}
         /\ \A i \in DOMAIN frames' : frames'[i] = frames[i]
         /\ Len(frames) \in DOMAIN frames /\ Innermost \in Frame
         /\ Handling' = Handling \ {Innermost.c}
  <1> DEFINE n == Len(frames) - 1
  <1>1. /\ Len(frames) \in Nat /\ DOMAIN frames = 1..Len(frames)
        /\ Len(frames) \in DOMAIN frames /\ \A i \in DOMAIN frames : frames[i] \in Frame
    BY Stack
  <1>2. n \in Nat /\ \A i \in 1..n : frames[i] \in Frame
    BY <1>1
  <1>3. /\ frames' \in Seq(Frame) /\ Len(frames') = n
        /\ \A i \in 1..n : frames'[i] = frames[i]
    <2>1. /\ frames' \in Seq(Frame)
          /\ Len(frames') = IF 1 <= n THEN n - 1 + 1 ELSE 0
          /\ \A i \in 1..n - 1 + 1 : frames'[i] = frames[1 + i - 1]
      BY <1>2, SubSeqProperties
    <2>2. \A i \in 1..n : i \in 1..n - 1 + 1 /\ 1 + i - 1 = i
      BY <1>2
    <2>3. Len(frames') = n
      <3>1. n \in Nat /\ Len(frames') = IF 1 <= n THEN n - 1 + 1 ELSE 0
        BY <1>2, <2>1
      <3> HIDE DEF n
      <3> QED BY <3>1
    <2> QED BY <2>1, <2>2, <2>3
  <1>4. DOMAIN frames' = 1..n
    BY <1>3, LenProperties
  <1>5. DOMAIN frames' = DOMAIN frames \ {Len(frames)}
    BY <1>1, <1>2, <1>4
  <1>6. Handling' = Handling \ {Innermost.c}
    BY <1>1, <1>3, <1>4, <1>5, SMTT(20) DEF Handling, Innermost
  <1> QED BY <1>1, <1>3, <1>4, <1>5, <1>6 DEF Innermost

-----------------------------------------------------------------------------
\* Without a hook for new connections on the stack, or inside it, the subclass may
\* do to the server and with the end of connections only what is safe.
LEMMA MayDoWhen ==
  ASSUME CloseOnly, frames \in Seq(Frame), NEW deed \in Deeds \ {"close connection"},
         MayDo(deed)
  PROVE  frames # <<>> => Innermost.hook = "closed"
  BY DEF CloseOnly, MayDo, Idle

\* Then all calls on the stack wait for the hook for closed connections.
LEMMA AllClosed ==
  ASSUME frames \in Seq(Frame), Frames, frames # <<>> => Innermost.hook = "closed"
  PROVE  \A i \in DOMAIN frames :
           frames[i].hook # "new" /\ conn[frames[i].c] = "closed" /\ told[frames[i].c] = 1
  <1>1. /\ Len(frames) \in Nat /\ DOMAIN frames = 1..Len(frames)
        /\ frames # <<>> => Len(frames) \in DOMAIN frames
    BY Stack
  <1>2. SUFFICES ASSUME NEW i \in DOMAIN frames PROVE frames[i].hook # "new"
    BY DEF Frames
  <1>3. ASSUME frames[i].hook = "new" PROVE FALSE
    <2>1. Len(frames) = 1 /\ i = 1
      BY <1>1, <1>2, <1>3 DEF Frames
    <2>2. frames # <<>>
      BY <2>1, EmptySeq
    <2> QED BY <1>3, <2>1, <2>2 DEF Innermost
  <1> QED BY <1>3

\* The invariant holds at the start.
LEMMA InitInv == Init => IInv
  <1> SUFFICES ASSUME Init PROVE IInv
    OBVIOUS
  <1>1. frames = <<>> /\ frames \in Seq(Frame) /\ DOMAIN frames = {}
    BY DEF Init
  <1>2. TypeOK
    <2>1. told \in [Conns -> 0..1]
      BY DEF Init
    <2> QED BY <1>1, <2>1 DEF Init, TypeOK, Frame
  <1>3. Server /\ Connections /\ Frames
    BY <1>1 DEF Init, Server, Connections, Frames, Live
  <1> QED BY <1>2, <1>3 DEF IInv

\* Closing an open server: TcpServer::Close itself.
LEMMA CloseInv ==
  ASSUME IInv, server = "live", server' \in {"live", "deleted"},
         server' = "deleted" => closed',
         Close, UNCHANGED <<connections, frames, told>>,
         frames # <<>> => Innermost.hook = "closed"
  PROVE  IInv'
  <1> USE DEF IInv
  <1>0. frames \in Seq(Frame)
    BY DEF TypeOK, Frame
  <1>1. Handling' = Handling
    BY DEF Handling
  <1>2. CASE closed
    <2>1. UNCHANGED <<closed, data, conn, handle, fault>>
      BY <1>2 DEF Close
    <2>2. TypeOK' /\ Server'
      BY <1>2, <2>1 DEF TypeOK, Server
    <2>3. Connections' /\ Frames'
      BY <1>1, <2>1 DEF Connections, Frames, Live
    <2> QED BY <2>2, <2>3
  <1>3. CASE ~closed
    <2>1. /\ closed' = TRUE /\ data' = FALSE /\ handle' = "closing" /\ data
          /\ conn' = [c \in Conns |-> IF c \in connections THEN "deleted" ELSE conn[c]]
          /\ fault' = (fault \/ handle # "listening"
                             \/ \E c \in connections : conn[c] = "deleted")
      BY <1>3 DEF Close, Delete, Server
    <2>2. fault' = FALSE
      <3>1. handle = "listening" /\ fault = FALSE
        BY <2>1 DEF Server, TypeOK
      <3>2. \A c \in connections : conn[c] # "deleted"
        BY <1>3 DEF TypeOK, Connections, Live
      <3> QED BY <2>1, <3>1, <3>2
    <2>3. TypeOK'
      BY <2>1, <2>2 DEF TypeOK
    <2>4. Server'
      BY <2>1, <2>2 DEF Server
    <2>5. \A i \in DOMAIN frames : /\ frames[i].c \in Conns \ connections
                                   /\ frames[i].hook # "new"
                                   /\ conn[frames[i].c] = "closed" /\ told[frames[i].c] = 1
      <3>1. \A i \in DOMAIN frames : frames[i].c \in Conns
        BY <1>0, Stack DEF Frame
      <3> QED BY <1>0, <3>1, AllClosed DEF Frames
    <2>6. Frames'
      BY <2>1, <2>5 DEF Frames
    <2>7. \A c \in Handling : conn[c] = "closed"
      BY <2>5 DEF Handling
    <2>8. Connections'
      BY <1>1, <2>1, <2>7 DEF TypeOK, Connections, Live
    <2> QED BY <2>3, <2>4, <2>6, <2>8
  <1> QED BY <1>2, <1>3

\* Every step keeps the invariant.
LEMMA NextInv == CloseOnly /\ IInv /\ [Next]_vars => IInv'
  <1> SUFFICES ASSUME CloseOnly, IInv, [Next]_vars PROVE IInv'
    OBVIOUS
  <1>0. frames \in Seq(Frame)
    BY DEF IInv, TypeOK, Frame
  <1>1. CASE UNCHANGED vars
    <2>1. Handling' = Handling
      BY <1>1 DEF vars, Handling
    <2> QED BY <1>1, <2>1
        DEF vars, serverVars, IInv, TypeOK, Server, Connections, Frames, Live
  <1>2. CASE Construct
    <2>1. Handling' = Handling
      BY <1>2 DEF Construct, Handling
    <2> QED BY <1>2, <2>1
        DEF Construct, IInv, TypeOK, Server, Connections, Frames, Live
  <1>3. CASE ConstructThrows
    <2>1. Handling' = Handling
      BY <1>3 DEF ConstructThrows, Handling
    <2> QED BY <1>3, <2>1
        DEF ConstructThrows, UvClose, IInv, TypeOK, Server, Connections, Frames, Live
  <1>4. ASSUME NEW c \in Conns, OnUvConnection(c)
        PROVE  IInv'
    <2> DEFINE f == [hook |-> "new", c |-> c]
    <2>1. /\ frames = <<>> /\ conn[c] = "none" /\ frames' = Append(frames, f)
          /\ handle = "listening" /\ data
          /\ conn' = [conn EXCEPT ![c] = "open"]
          /\ fault' = (fault \/ server # "live")
          /\ UNCHANGED <<server, closed, handle, data, connections, told>>
      BY <1>4 DEF OnUvConnection, Idle, serverVars
    <2>8. server = "live" /\ ~closed
      BY <2>1 DEF IInv, Server
    <2>2. f \in Frame /\ f.c = c /\ f.hook = "new"
      BY DEF Frame
    <2>3. /\ frames' \in Seq(Frame) /\ DOMAIN frames' = {1} /\ Len(frames') = 1
          /\ frames'[1] = f /\ Handling = {} /\ Handling' = {c}
      <3>1. Len(frames) = 0 /\ DOMAIN frames = {}
        BY <2>1
      <3>2. Handling = {}
        BY <3>1 DEF Handling
      <3> HIDE DEF f
      <3> QED BY <1>0, <2>1, <2>2, <3>1, <3>2, Push
    <2>4. TypeOK' /\ Server'
      BY <2>1, <2>3, <2>8 DEF IInv, TypeOK, Server, Frame
    <2>5. Connections'
      BY <2>1, <2>3, <2>8 DEF IInv, TypeOK, Server, Connections, Live
    <2>6. c \notin connections /\ told[c] = 0
      BY <2>1 DEF IInv, Server, Connections, Live
    <2>7. Frames'
      BY <2>1, <2>2, <2>3, <2>6, <2>8 DEF IInv, TypeOK, Frames, Live
    <2> QED BY <2>4, <2>5, <2>7 DEF IInv
  <1>5. ASSUME NEW c \in Conns, OnUvConnectionFails(c)
        PROVE  IInv'
    <2>1. /\ frames = <<>> /\ handle = "listening" /\ data /\ conn[c] = "none"
          /\ conn' = [conn EXCEPT ![c] = "deleted"]
          /\ fault' = (fault \/ server # "live")
          /\ UNCHANGED <<server, closed, handle, data, connections, told, frames>>
      BY <1>5 DEF OnUvConnectionFails, Idle, serverVars
    <2>2. Handling' = Handling /\ DOMAIN frames = {}
      BY <2>1 DEF Handling
    <2>3. TypeOK' /\ Server'
      BY <2>1 DEF IInv, TypeOK, Server
    <2>4. Connections' /\ Frames'
      BY <2>1, <2>2 DEF IInv, TypeOK, Server, Connections, Frames, Live
    <2> QED BY <2>3, <2>4 DEF IInv
  <1>6. ASSUME NEW accept \in BOOLEAN, NewReturns(accept)
        PROVE  IInv'
    <2> DEFINE c == Innermost.c
    <2>1. /\ frames # <<>> /\ Innermost.hook = "new"
          /\ frames' = SubSeq(frames, 1, Len(frames) - 1)
          /\ UNCHANGED <<server, closed, handle, data, told>>
      BY <1>6 DEF NewReturns, Idle, serverVars
    <2>2. /\ Len(frames) \in DOMAIN frames /\ Innermost \in Frame /\ c \in Conns
          /\ frames' \in Seq(Frame) /\ Handling' = Handling \ {c}
          /\ DOMAIN frames' = DOMAIN frames \ {Len(frames)}
      BY <1>0, <2>1, Pop DEF IInv, Frames, Frame
    <2>3. /\ Len(frames) = 1 /\ server = "live" /\ ~closed
          /\ Live(c) /\ told[c] = 0 /\ c \notin connections
      BY <2>1, <2>2 DEF IInv, Frames, Innermost
    <2>4. DOMAIN frames' = {} /\ DOMAIN frames = {1} /\ Handling' = {}
      <3>1. DOMAIN frames = {1}
        BY <1>0, <2>3, Stack
      <3> QED BY <2>2, <2>3, <3>1 DEF Handling
    <2>5. Handling = {c}
      BY <2>3, <2>4 DEF Handling, Innermost
    <2>6. server = "live" /\ ~closed /\ fault = FALSE
      BY <2>3 DEF IInv, Server, TypeOK
    <2>7. Frames'
      BY <2>4 DEF Frames
    <2> HIDE DEF c
    <2>8. CASE accept
      <3>1. connections' = connections \cup {c} /\ fault' = FALSE /\ conn' = conn
        BY <1>6, <2>6, <2>8 DEF NewReturns, c
      <3>2. TypeOK' /\ Server'
        BY <2>1, <2>2, <2>3, <2>6, <3>1 DEF IInv, TypeOK, Server, Frame
      <3>3. Connections'
        BY <2>1, <2>2, <2>3, <2>4, <2>5, <2>6, <3>1 DEF IInv, Connections, Live
      <3> QED BY <2>7, <3>2, <3>3 DEF IInv
    <2>9. CASE ~accept
      <3>1. /\ connections' = connections /\ fault' = FALSE
            /\ conn' = [d \in Conns |-> IF d = c THEN "deleted" ELSE conn[d]]
        BY <1>6, <2>3, <2>6, <2>9 DEF NewReturns, c, Delete, Live
      <3>2. TypeOK' /\ Server'
        BY <2>1, <2>2, <2>3, <2>6, <3>1 DEF IInv, TypeOK, Server, Frame
      <3>3. Connections'
        BY <2>1, <2>2, <2>3, <2>4, <2>5, <2>6, <3>1 DEF IInv, Connections, Live
      <3> QED BY <2>7, <3>2, <3>3 DEF IInv
    <2> QED BY <2>8, <2>9
  <1>7. ASSUME NEW c \in Conns, ConnectionEnds(c)
        PROVE  IInv'
    <2> DEFINE f == [hook |-> "closed", c |-> c]
    <2>1. /\ conn[c] = "open" /\ conn' = [conn EXCEPT ![c] = "closed"]
          /\ connections' = connections \ {c} /\ told' = [told EXCEPT ![c] = @ + 1]
          /\ frames' = Append(frames, f) /\ fault' = (fault \/ server # "live")
          /\ UNCHANGED <<server, closed, handle, data>>
      BY <1>7 DEF ConnectionEnds, serverVars
    <2>2. f \in Frame /\ f.c = c /\ f.hook = "closed"
      BY DEF Frame
    <2>3. \A i \in DOMAIN frames :
            frames[i].hook # "new" /\ conn[frames[i].c] = "closed" /\ told[frames[i].c] = 1
      <3>1. frames # <<>> => Innermost.hook = "closed"
        BY <1>0, <1>7, MayDoWhen DEF ConnectionEnds, Deeds
      <3> QED BY <1>0, <3>1, AllClosed DEF IInv
    <2>4. told[c] = 0 /\ ~closed /\ server = "live" /\ fault = FALSE
      BY <2>1 DEF IInv, Connections, Server, TypeOK
    <2> HIDE DEF f
    <2>5. /\ frames' \in Seq(Frame)
          /\ DOMAIN frames' = DOMAIN frames \cup {Len(frames) + 1}
          /\ Len(frames) + 1 \notin DOMAIN frames
          /\ \A i \in DOMAIN frames : frames'[i] = frames[i]
          /\ frames'[Len(frames) + 1] = f
          /\ Handling' = Handling \cup {c}
      BY <1>0, <2>1, <2>2, Push
    <2>6. told' \in [Conns -> 0..1] /\ told'[c] = 1 /\ \A d \in Conns \ {c} : told'[d] = told[d]
      BY <2>1, <2>4 DEF IInv, TypeOK
    <2>7. TypeOK'
      BY <2>1, <2>4, <2>5, <2>6 DEF IInv, TypeOK, Frame
    <2>8. Server'
      BY <2>1, <2>4, <2>5 DEF IInv, Server
    <2>9. Connections'
      BY <2>1, <2>4, <2>5, <2>6 DEF IInv, TypeOK, Connections, Live
    <2>10. \A i \in DOMAIN frames : frames[i].c \in Conns /\ frames[i].c # c
      BY <1>0, <2>1, <2>3, Stack DEF Frame
    <2>11. Frames'
      <3>1. \A i \in DOMAIN frames' :
              /\ frames'[i].c \notin connections' /\ frames'[i].hook # "new"
              /\ conn'[frames'[i].c] = "closed" /\ told'[frames'[i].c] = 1
        <4>1. ASSUME NEW i \in DOMAIN frames
              PROVE  /\ frames'[i].c \notin connections' /\ frames'[i].hook # "new"
                     /\ conn'[frames'[i].c] = "closed" /\ told'[frames'[i].c] = 1
          BY <2>1, <2>3, <2>5, <2>6, <2>10 DEF IInv, TypeOK, Frames
        <4>2. /\ f.c \notin connections' /\ f.hook # "new"
              /\ conn'[f.c] = "closed" /\ told'[f.c] = 1
          BY <2>1, <2>2, <2>6 DEF IInv, TypeOK
        <4> QED BY <2>5, <4>1, <4>2
      <3>2. \A i, j \in DOMAIN frames' : frames'[i].c = frames'[j].c => i = j
        BY <2>2, <2>5, <2>10 DEF IInv, Frames
      <3> QED BY <3>1, <3>2 DEF Frames
    <2> QED BY <2>7, <2>8, <2>9, <2>11 DEF IInv
  <1>8. ASSUME NEW c \in Conns, UserClosesConnection(c)
        PROVE  IInv'
    <2>1. /\ conn[c] = "open" /\ conn' = [conn EXCEPT ![c] = "closed"]
          /\ UNCHANGED <<server, closed, handle, data, connections, frames, told, fault>>
      BY <1>8 DEF UserClosesConnection, serverVars
    <2>2. Handling' = Handling
      BY <2>1 DEF Handling
    <2>3. TypeOK' /\ Server'
      BY <2>1 DEF IInv, TypeOK, Server, Connections
    <2>4. Connections'
      BY <2>1, <2>2 DEF IInv, TypeOK, Server, Connections, Live
    <2>5. Frames'
      <3>1. \A i \in DOMAIN frames : frames[i].c \in Conns
        BY <1>0, Stack DEF Frame
      <3> QED BY <2>1, <3>1 DEF IInv, TypeOK, Frames, Live
    <2> QED BY <2>3, <2>4, <2>5 DEF IInv
  <1>9. CASE ClosedReturns
    <2> DEFINE c == Innermost.c
    <2>1. /\ frames # <<>> /\ Innermost.hook = "closed"
          /\ frames' = SubSeq(frames, 1, Len(frames) - 1)
          /\ conn' = [d \in Conns |-> IF d = c THEN "deleted" ELSE conn[d]]
          /\ fault' = (fault \/ conn[c] = "deleted")
          /\ UNCHANGED <<server, closed, handle, data, connections, told>>
      BY <1>9 DEF ClosedReturns, Idle, serverVars, Delete
    <2>2. /\ Len(frames) \in DOMAIN frames /\ Innermost \in Frame /\ c \in Conns
          /\ frames' \in Seq(Frame) /\ Handling' = Handling \ {c}
          /\ DOMAIN frames' = DOMAIN frames \ {Len(frames)}
          /\ \A i \in DOMAIN frames' : frames'[i] = frames[i]
      BY <1>0, <2>1, Pop DEF IInv, Frames, Frame
    <2>3. conn[c] = "closed" /\ told[c] = 1 /\ c \notin connections
      BY <2>1, <2>2 DEF IInv, Frames, Innermost
    <2>4. \A i \in DOMAIN frames' : frames[i].c \in Conns /\ frames[i].c # c
      BY <1>0, <2>2, Stack DEF IInv, Frames, Frame, Innermost
    <2>5. \A i \in DOMAIN frames : frames[i].hook # "new"
      BY <1>0, <2>1, AllClosed DEF IInv
    <2> HIDE DEF c
    <2>6. fault' = FALSE
      BY <2>1, <2>3 DEF IInv, Server, TypeOK
    <2>7. TypeOK'
      BY <2>1, <2>2, <2>6 DEF IInv, TypeOK, Frame
    <2>8. Server'
      BY <2>1, <2>3, <2>2, <2>6 DEF IInv, Server
    <2>9. Connections'
      BY <2>1, <2>2, <2>3 DEF IInv, TypeOK, Connections, Live
    <2>10. Frames'
      BY <2>1, <2>2, <2>4, <2>5 DEF IInv, Frames
    <2> QED BY <2>7, <2>8, <2>9, <2>10 DEF IInv
  <1>10. CASE UserClosesServer
    <2>1. frames # <<>> => Innermost.hook = "closed"
      BY <1>0, <1>10, MayDoWhen DEF UserClosesServer, Deeds
    <2>2. /\ server = "live" /\ server' = "live" /\ Close
          /\ UNCHANGED <<connections, frames, told>>
      BY <1>10 DEF UserClosesServer
    <2> QED BY <2>1, <2>2, CloseInv
  <1>11. CASE DeleteServer
    <2>1. frames # <<>> => Innermost.hook = "closed"
      BY <1>0, <1>11, MayDoWhen DEF DeleteServer, Deeds
    <2>2. /\ server = "live" /\ server' = "deleted" /\ Close
          /\ UNCHANGED <<connections, frames, told>>
      BY <1>11 DEF DeleteServer
    <2>3. closed'
      BY <2>2 DEF Close
    <2> QED BY <2>1, <2>2, <2>3, CloseInv
  <1>12. CASE OnClose
    <2>1. /\ handle = "closing" /\ handle' = "freed"
          /\ UNCHANGED <<server, closed, data, connections, conn, frames, told, fault>>
      BY <1>12 DEF OnClose
    <2>2. Handling' = Handling
      BY <2>1 DEF Handling
    <2> QED BY <2>1, <2>2 DEF IInv, TypeOK, Server, Connections, Frames, Live
  <1> QED BY <1>1, <1>2, <1>3, <1>4, <1>5, <1>6, <1>7, <1>8, <1>9, <1>10, <1>11, <1>12
          DEF Next

\* The invariant of every behaviour in which UserOnNewTcpConnection does no more
\* than close a connection.
THEOREM Invariant == CloseOnly /\ Spec => []IInv
  <1>1. ASSUME CloseOnly PROVE IInv /\ [Next]_vars => IInv'
    BY <1>1, NextInv
  <1>2. SUFFICES ASSUME CloseOnly PROVE Spec => []IInv
    OBVIOUS
  <1> QED BY <1>1, <1>2, InitInv, PTL DEF Spec

\* Nothing is deleted, inserted or reported where it must not be.
THEOREM NoFaultEver == CloseOnly /\ Spec => []NoFault
  <1>1. IInv => NoFault
    BY DEF IInv, Server, NoFault
  <1> QED BY <1>1, Invariant, PTL

\* The types, and with them that no connection ends twice.
THEOREM TypeCorrect == CloseOnly /\ Spec => []TypeOK
  <1>1. IInv => TypeOK
    BY DEF IInv
  <1> QED BY <1>1, Invariant, PTL

\* The set of connections is exact.
THEOREM SetAlwaysExact == CloseOnly /\ Spec => []SetExact
  <1>1. IInv => SetExact
    BY DEF IInv, TypeOK, Connections, SetExact
  <1> QED BY <1>1, Invariant, PTL

\* No connection outlives the server, or the hook that was told of its end.
THEOREM NothingEverOutlives == CloseOnly /\ Spec => []NothingOutlives
  <1>1. ASSUME IInv PROVE NothingOutlives
    <2>1. \A c \in Conns : conn[c] = "open" => server = "live" /\ ~closed
      BY <1>1 DEF IInv, Connections, Server
    <2>2. closed /\ Idle => \A c \in Conns : ~Live(c)
      BY <1>1 DEF IInv, Connections, Idle, Handling
    <2>3. \A c \in Conns :
            told[c] = 1 /\ c \notin Handling => conn[c] = "deleted" /\ c \notin connections
      BY <1>1 DEF IInv, Connections
    <2> QED BY <2>1, <2>2, <2>3 DEF NothingOutlives
  <1> QED BY <1>1, Invariant, PTL
=============================================================================
