--------------------------- MODULE MCBatchPipeline ---------------------------
(***************************************************************************)
(* Values for TLC.  A batching is a tuple of chunk sets; the second one of *)
(* MovingSplits is what a redelivery computes after the branch has moved.  *)
(***************************************************************************)
EXTENDS BatchInvariant

CONSTANTS c1, c2, w1, w2, d1, d2

OneBatch   == {<<{c1, c2}>>}
MovingSplits == {<<{c1}>>, <<{c1, c2}>>}
TwoBatches == {<<{c1}, {c2}>>}
=============================================================================
