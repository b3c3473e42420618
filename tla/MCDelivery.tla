----------------------------- MODULE MCDelivery -----------------------------
(***************************************************************************)
(* Delivery for TLC: what the config of the consumer can say of retries.   *)
(***************************************************************************)
EXTENDS Delivery

NoneOrOne == {-1, 1}
=============================================================================
