----------------------------- MODULE MCDelivery -----------------------------
(* One purchase, handlers that overlap.                                    *)
EXTENDS Delivery, TLC

=============================================================================
