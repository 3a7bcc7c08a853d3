----------------------------- MODULE MCMemFind -----------------------------
(***************************************************************************)
(* Small instances of MemFind.  Patterns are shorter than a window by at    *)
(* least two, so that every window has an examined starting position and   *)
(* two that are not.                                                       *)
(***************************************************************************)
EXTENDS MemFind

Hex(s) == [text |-> "hex", prog |-> s]
NoProg(t) == [text |-> t, prog |-> << >>]

TwoBytes == {0, 1}
MCPatterns == {Hex(<<1>>), Hex(<<1, 1>>), Hex(<<Any, 1>>), Hex(<< >>),
               NoProg("empty"), NoProg("odd"), NoProg("invalid")}
OnePattern == {Hex(<<1, 1>>)}
NoEdges == {}
=============================================================================
