------------------------- MODULE MCSparseUnmarshal -------------------------
(***************************************************************************)
(* Small instances of SparseUnmarshal.                                     *)
(***************************************************************************)
EXTENDS SparseUnmarshal

\* A list node with a second pointer of another type, whose structs point back.
MCLayout == [node |-> <<"node", "leaf">>, leaf |-> <<"node", "text">>]
MCTypes == {"node", "leaf"}

\* Every pair of words, and an address that cannot be read.
AllContents == {<<x, y>> : x, y \in Addrs \cup {Null}} \cup {Unreadable}

\* Enough for cycles, sharing, structs of both types and failing reads while the
\* target writes.
SomeContents == {<<Null, Null>>, <<2, 2>>, <<2, 3>>, <<3, 1>>, Unreadable}
=============================================================================
