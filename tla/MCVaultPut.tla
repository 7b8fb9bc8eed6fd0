----------------------------- MODULE MCVaultPut -----------------------------
(* TLC instances of VaultPut. *)
EXTENDS VaultPut, TLC

CONSTANTS f1, f2, f3, f4

\* A file of two chunks, one whose last chunk is short, and an empty one.
ThreeSizes == f1 :> 6 @@ f2 :> 5 @@ f3 :> 0

\* One of a single chunk besides.
FourSizes == ThreeSizes @@ f4 :> 3
=============================================================================
