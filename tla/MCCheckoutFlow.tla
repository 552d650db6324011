--------------------------- MODULE MCCheckoutFlow ---------------------------
(* One cart, a print with one copy left and a plan.  The plan is an         *)
(* unlimited subscription, or, where a run has no subscriptions, a second   *)
(* product: unlimited, or with one left as in MCOneEach.                    *)
EXTENDS CheckoutFlow, TLC

CONSTANTS print, plan

MCSkus == {print, plan}
MCProductOf == [s \in MCSkus |-> IF s = plan THEN "membership" ELSE "shop"]
MCInitialInventory == [s \in MCSkus |-> IF s = plan THEN Unlimited ELSE 1]
MCOneEach == [s \in MCSkus |-> 1]

\* For the liveness run, the print alone.
MCPrints == {print}
MCPrintsOf == [s \in MCPrints |-> "shop"]
MCOnePrint == [s \in MCPrints |-> 1]

Symmetry ==
  Permutations(Requests) \cup Permutations(Workers) \cup Permutations(Sessions)
  \cup Permutations(Terms)

=============================================================================
