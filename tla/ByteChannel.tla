---------------------------- MODULE ByteChannel -----------------------------
(***************************************************************************)
(* What a TcpConnection and a UnixStreamSocket promise about the bytes     *)
(* given to Write: they leave in the order and without gaps they were      *)
(* accepted in, and closing gracefully ("Use uv_shutdown() so pending data *)
(* to be written will be sent to the peer before closing.",                *)
(* TcpConnection.cpp:94-95, UnixStreamSocket.cpp:135) ends the stream     *)
(* only after the last of them.  A stream may instead be lost, and then    *)
(* the peer has some prefix.                                               *)
(***************************************************************************)
EXTENDS Naturals, Sequences

CONSTANT Byte           \* the bytes that may be written

VARIABLES
  accepted,   \* every byte Write took
  delivered,  \* the bytes handed to the network so far
  status      \* "open", "closing", "sealed" (ended in order), "lost"

vars == <<accepted, delivered, status>>

Prefixes(s) == {SubSeq(s, 1, n) : n \in 0..Len(s)}

Extends(t, s) == s \in Prefixes(t)

Init == accepted = <<>> /\ delivered = <<>> /\ status = "open"

\* A Write: more bytes are accepted, and some may leave at once.
Accept ==
  /\ status = "open"
  /\ accepted' \in Seq(Byte) /\ Extends(accepted', accepted)
  /\ delivered' \in Prefixes(accepted') /\ Extends(delivered', delivered)
  /\ UNCHANGED status

\* Accepted bytes leave, in order.
Deliver ==
  /\ status \in {"open", "closing"}
  /\ delivered' \in Prefixes(accepted) /\ Extends(delivered', delivered)
  /\ UNCHANGED <<accepted, status>>

Close == status = "open" /\ status' = "closing" /\ UNCHANGED <<accepted, delivered>>

\* The stream ends in order: only once everything accepted has left.
Seal ==
  /\ status = "closing" /\ delivered = accepted
  /\ status' = "sealed" /\ UNCHANGED <<accepted, delivered>>

Lose ==
  /\ status \in {"open", "closing"}
  /\ status' = "lost" /\ UNCHANGED <<accepted, delivered>>

Next == Accept \/ Deliver \/ Close \/ Seal \/ Lose

Spec == Init /\ [][Next]_vars
=============================================================================
