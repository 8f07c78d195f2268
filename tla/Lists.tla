------------------------------- MODULE Lists -------------------------------
(***************************************************************************)
(* What lstLib promises to its users: a list is a sequence of nodes, a     *)
(* node is in at most one list, and each routine changes the sequences as  *)
(* the comment above it in lstLib.c says.  Where nodes are and how they    *)
(* are linked is not seen here.                                            *)
(***************************************************************************)
EXTENDS Naturals, Sequences, SequencesExt

CONSTANTS
  Node,     \* the nodes there are
  ListId    \* the list descriptors

VARIABLES
  contents,   \* per list: its nodes, first to last
  freed       \* the nodes whose memory lstFree gave back

vars == <<contents, freed>>

Linked == UNION {ToSet(contents[l]) : l \in ListId}

\* "This routine turns any list into an empty list." of lstInit's kind.
Init == contents = [l \in ListId |-> <<>>] /\ freed = {}

\* "The new node is placed following the list node <pPrev>": after the first i.
Insert(l, i, n) ==
  /\ contents' = [contents EXCEPT ![l] = InsertAt(@, i + 1, n)]
  /\ UNCHANGED freed

\* lstDelete and lstGet: the i-th node leaves its list.
Delete(l, i) ==
  /\ contents' = [contents EXCEPT ![l] = RemoveAt(@, i)]
  /\ UNCHANGED freed

\* "extracts the sublist that starts with <pStartNode> and ends with
\* <pEndNode> from a source list" into an empty one.
Extract(src, i, j, dst) ==
  /\ src # dst /\ contents[dst] = <<>>
  /\ contents' = [contents EXCEPT
       ![src] = SubSeq(@, 1, i - 1) \o SubSeq(@, j + 1, Len(@)),
       ![dst] = SubSeq(contents[src], i, j)]
  /\ UNCHANGED freed

\* "concatenates the second list to the end of the first list.  The second
\* list is left empty."
Concat(dst, add) ==
  /\ dst # add
  /\ contents' = [contents EXCEPT ![dst] = @ \o contents[add], ![add] = <<>>]
  /\ UNCHANGED freed

\* "turns any list into an empty list.  It also frees up memory used for nodes."
Free(l) ==
  /\ freed' = freed \cup ToSet(contents[l])
  /\ contents' = [contents EXCEPT ![l] = <<>>]

Next ==
  \/ \E n \in Node \ (Linked \cup freed), l \in ListId :
       \E i \in 0..Len(contents[l]) : Insert(l, i, n)
  \/ \E l \in ListId : \E i \in DOMAIN contents[l] : Delete(l, i)
  \/ \E src, dst \in ListId : \E i \in DOMAIN contents[src] :
       \E j \in i..Len(contents[src]) : Extract(src, i, j, dst)
  \/ \E dst, add \in ListId : Concat(dst, add)
  \/ \E l \in ListId : Free(l)

Spec == Init /\ [][Next]_vars
=============================================================================
