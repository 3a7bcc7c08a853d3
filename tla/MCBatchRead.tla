---------------------------- MODULE MCBatchRead ----------------------------
(***************************************************************************)
(* A small instance of BatchRead.                                          *)
(***************************************************************************)
EXTENDS BatchRead

\* An empty buffer, buffers that overlap, and one at the end of memory.
MCRequests == {[addr |-> 0, len |-> 0], [addr |-> 0, len |-> 2], [addr |-> 1, len |-> 1],
               [addr |-> 2, len |-> 2]}
=============================================================================
