--------------------------- MODULE MCFileIdentity ---------------------------
(* Finite instances of FileIdentity for TLC.                                *)
EXTENDS FileIdentity, TLC

(* Contents matter only by being the same or not.                           *)
AnyHash == Permutations(Hash)

=============================================================================
