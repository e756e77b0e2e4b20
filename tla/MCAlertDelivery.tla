-------------------------- MODULE MCAlertDelivery --------------------------
(* Bounded instances of AlertDelivery for TLC. *)
EXTENDS AlertDelivery, TLC
=============================================================================
