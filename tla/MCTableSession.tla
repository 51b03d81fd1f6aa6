--------------------------- MODULE MCTableSession ---------------------------
(***************************************************************************)
(* Instances of TableSession for TLC.                                      *)
(***************************************************************************)
EXTENDS TableSession, TLC

Symmetry == Permutations(Requests) \cup Permutations(Items)
              \cup Permutations(Sessions) \cup Permutations(Tables)
=============================================================================
