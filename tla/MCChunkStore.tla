----------------------------- MODULE MCChunkStore -----------------------------
(***************************************************************************)
(* Values for TLC.  What two jobs find: one of them has nothing to store,  *)
(* and the batches of the other have the same chunks in opposite orders;   *)
(* or both find one chunk.                                                 *)
(***************************************************************************)
EXTENDS ChunkStore

CONSTANTS j1, j2, a, b

Pair(p, q) == [j \in {j1, j2} |-> IF j = j1 THEN p ELSE q]
SomeParses == {Pair(<<a, b, b, a>>, <<>>), Pair(<<a, b>>, <<b>>)}
=============================================================================
