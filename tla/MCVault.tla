------------------------------ MODULE MCVault ------------------------------
(* TLC instances of Vault. *)
EXTENDS VaultRead, TLC
CONSTANTS v1, v2, f1
\* One vault cuts the file in two, the other does not.
TwoAndOne == v1 :> 2 @@ v2 :> 1
JustTwo   == v1 :> 2
\* A file of three bytes.
Cuts      == v1 :> <<2, 1>> @@ v2 :> <<3>>
OneCut    == v1 :> <<2, 1>>
=============================================================================
