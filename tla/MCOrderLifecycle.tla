-------------------------- MODULE MCOrderLifecycle --------------------------
(***************************************************************************)
(* Instances of OrderLifecycle for TLC.                                    *)
(***************************************************************************)
EXTENDS OrderLifecycle, TLC

Symmetry == Permutations(Requests) \cup Permutations(Instances)
              \cup Permutations(Drivers)
=============================================================================
