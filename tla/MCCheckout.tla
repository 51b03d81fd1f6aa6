----------------------------- MODULE MCCheckout -----------------------------
(***************************************************************************)
(* Instances of Checkout for TLC.  The carts of a run are c1, c2, ...; the *)
(* .cfg picks how each is paid with one of the functions below.            *)
(***************************************************************************)
EXTENDS Checkout, TLC

CONSTANTS c1, c2

OneMercadoPago == c1 :> "mercadopago"
OnlineAndCash == c1 :> "mercadopago" @@ c2 :> "cash"
PaywayAndCash == c1 :> "payway" @@ c2 :> "cash"
TwoMercadoPago == c1 :> "mercadopago" @@ c2 :> "mercadopago"

Symmetry == Permutations(Payments) \cup Permutations(Requests)
=============================================================================
