--------------------------- MODULE MCBlobReader ----------------------------
(* TLC instances of BlobReader. *)
EXTENDS BlobReader, TLC

CONSTANTS p1, p2

P(c, e) == [chunk_len |-> c, entry_len |-> e]

SmallPlans == {P(1, 1)}
=============================================================================
