---------------------------- MODULE MCBlobCreate ----------------------------
(* TLC instances of BlobCreate. *)
EXTENDS BlobCreate, TLC

CONSTANTS c1, c2, o1

CreatorSymmetry == Permutations({c1, c2})
=============================================================================
