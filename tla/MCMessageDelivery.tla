--------------------------- MODULE MCMessageDelivery ---------------------------
(* Instances of MessageDelivery for TLC; the .cfg files give the bounds.       *)
EXTENDS MessageDelivery
=============================================================================
