---------------------------- MODULE MCMemBuffer ----------------------------
(***************************************************************************)
(* Small instances of MemBuffer.  Addresses start above zero so that Reset *)
(* can go below the region's start.                                        *)
(***************************************************************************)
EXTENDS MemBuffer

MCTargets == {Start, Start - 1, End - 1, End, End + 1}
OnePageEdge == {Start + 3}
NoEdges == {}
AllLens == 0 .. Cap + 1
=============================================================================
