--------------------------- MODULE MCCheckoutShop ---------------------------
(* A shop with a limited print, an unlimited frame for it and a membership *)
(* plan with one seat.                                                     *)
EXTENDS CheckoutShop, TLC

CONSTANTS print, frame, plan

MCSkus == {print, frame, plan}
MCAddons == {frame}
MCSubscriptions == {plan}
MCProductOf == [s \in MCSkus |-> IF s = plan THEN "membership" ELSE "shop"]
MCInitialInventory ==
  [s \in MCSkus |-> IF s = print THEN 2 ELSE IF s = frame THEN Unlimited ELSE 1]
MCRestocks == {1, Unlimited}

Symmetry == Permutations(Carts) \cup Permutations(Sessions)

=============================================================================
