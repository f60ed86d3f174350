----------------------------- MODULE MCDelivery -----------------------------
(* TLC instances of Delivery: one message, sent over a channel or directly *)
(* to a node, two ChatEntry objects for it, two generations of each.       *)
EXTENDS Delivery

CONSTANT m1

MCMessages == {m1}
MCNone == {}
=============================================================================
