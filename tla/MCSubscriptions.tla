--------------------------- MODULE MCSubscriptions ---------------------------
(***************************************************************************)
(* Instances of Subscriptions for TLC.                                     *)
(***************************************************************************)
EXTENDS Subscriptions

Retries == {1}

\* Every subscription is of one account
OneAccount == [s \in Subs |-> CHOOSE t \in Subs : TRUE]
=============================================================================
