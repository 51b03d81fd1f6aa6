---------------------------- MODULE MCCashRegister ----------------------------
(***************************************************************************)
(* Instances of CashRegister for TLC.                                      *)
(***************************************************************************)
EXTENDS CashRegister, TLC

OneFloat == {1}
OneCount == {2}
WorkerSymmetry == Permutations(Workers)
=============================================================================
