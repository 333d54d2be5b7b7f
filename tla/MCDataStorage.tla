--------------------------- MODULE MCDataStorage ----------------------------
(* Small instance of DataStorage for TLC. *)
EXTENDS DataStorage, TLC
Symmetry == Permutations(Ids)
=============================================================================
