----------------------------- MODULE PaidOrder ------------------------------
(***************************************************************************)
(* What the checkout promises a customer who pays online and the           *)
(* restaurant that cooks: an order exists only for a payment the provider  *)
(* approved, it is created once, and nothing that follows from its         *)
(* creation (delivery row, coupon, notices) happens before it or twice.    *)
(***************************************************************************)
CONSTANTS Checkouts, Effects

VARIABLES approved, promoted, carried

Init ==
  /\ approved = {} /\ promoted = {}
  /\ carried = [c \in Checkouts |-> {}]

Approve(c) ==
  /\ approved' = approved \cup {c}
  /\ UNCHANGED <<promoted, carried>>

Promote(c) ==
  /\ c \in approved \ promoted
  /\ promoted' = promoted \cup {c}
  /\ UNCHANGED <<approved, carried>>

CarryOut(c, e) ==
  /\ c \in promoted /\ e \notin carried[c]
  /\ carried' = [carried EXCEPT ![c] = @ \cup {e}]
  /\ UNCHANGED <<approved, promoted>>

Next == \E c \in Checkouts :
  Approve(c) \/ Promote(c) \/ \E e \in Effects : CarryOut(c, e)

Spec == Init /\ [][Next]_<<approved, promoted, carried>>
=============================================================================
