-------------------------- MODULE MCAccountRemoval --------------------------
(* The owner of one cart, a print with one copy left and an unlimited plan. *)
EXTENDS AccountRemoval, TLC

CONSTANTS print, plan

MCSkus == {print, plan}
MCProductOf == [s \in MCSkus |-> IF s = plan THEN "membership" ELSE "shop"]
MCInitialInventory == [s \in MCSkus |-> IF s = plan THEN Unlimited ELSE 1]

Symmetry == Permutations(Sessions) \cup Permutations(Removers)

=============================================================================
