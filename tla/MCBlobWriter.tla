--------------------------- MODULE MCBlobWriter ----------------------------
(* TLC instances of BlobWriter. *)
EXTENDS BlobStats, TLC

CONSTANTS p1, p2

P(c, e) == [chunk_len |-> c, entry_len |-> e]

\* One frame with its entry, or an entry without a frame (a file_complete).
SmallPlans == {P(1, 1), P(0, 1)}

\* Frames that outgrow the leading gap, and entries that outgrow the other.
MixedPlans == {P(1, 1), P(2, 1), P(1, 2)}

ProcSymmetry == Permutations({p1, p2})
=============================================================================
