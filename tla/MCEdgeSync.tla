----------------------------- MODULE MCEdgeSync -----------------------------
(***************************************************************************)
(* Instances of EdgeSync for TLC.                                          *)
(***************************************************************************)
EXTENDS EdgeSync, TLC

\* A till's slot and a push's are as good as another
SlotSymmetry == Permutations(Tills) \cup Permutations(Pushes)
=============================================================================
