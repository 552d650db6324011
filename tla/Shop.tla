-------------------------------- MODULE Shop --------------------------------
(***************************************************************************)
(* What the checkouts of the store promise, without carts, sessions, rows  *)
(* and statuses: a deal takes its units off the shelf and is then either   *)
(* released, which puts exactly them back, or sold for ever as it was      *)
(* made.  A basket is in at most one deal.                                 *)
(***************************************************************************)
EXTENDS Naturals

CONSTANTS
  Goods, Baskets, Terms, Numbers,  \* Numbers: what deals are called
  NoBasket,                        \* a deal that was made without a basket
  Unlimited,                       \* the shelf of goods that never run out
  InitialShelf,
  Total(_)                         \* the sum of a column of numbers

VARIABLES
  shelf,   \* what is left of each of the goods
  held,    \* the open deals
  sold     \* the deals that were paid for

shopVars == <<shelf, held, sold>>

Deal ==
  [basket : Baskets \cup {NoBasket},
   terms  : Terms,
   lines  : [Goods -> Nat],
   units  : [Goods -> Nat]]

ShopInit ==
  /\ shelf = InitialShelf
  /\ held = [i \in {} |-> 0]
  /\ sold = [i \in {} |-> 0]

Taken ==
  {held[i].basket : i \in DOMAIN held} \cup {sold[i].basket : i \in DOMAIN sold}

\* What a deal takes off the shelf: nothing of what never runs out.
OffTheShelf(lines) == [s \in Goods |-> IF shelf[s] = Unlimited THEN 0 ELSE lines[s]]

Hold(i, deal) ==
  /\ i \notin DOMAIN held \cup DOMAIN sold
  /\ deal \in Deal
  /\ deal.basket = NoBasket \/ deal.basket \notin Taken
  /\ deal.units = OffTheShelf(deal.lines)
  /\ \A s \in Goods : shelf[s] # Unlimited => deal.lines[s] <= shelf[s]
  /\ held' = [j \in DOMAIN held \cup {i} |-> IF j = i THEN deal ELSE held[j]]
  /\ shelf' = [s \in Goods |-> IF shelf[s] = Unlimited THEN Unlimited ELSE shelf[s] - deal.units[s]]
  /\ UNCHANGED sold

Release(D) ==
  /\ D \subseteq DOMAIN held
  /\ held' = [j \in DOMAIN held \ D |-> held[j]]
  /\ shelf' = [s \in Goods |-> IF shelf[s] = Unlimited THEN Unlimited
                               ELSE shelf[s] + Total([i \in D |-> held[i].units[s]])]
  /\ UNCHANGED sold

Sell(i) ==
  /\ i \in DOMAIN held
  /\ sold' = [j \in DOMAIN sold \cup {i} |-> IF j = i THEN held[i] ELSE sold[j]]
  /\ held' = [j \in DOMAIN held \ {i} |-> held[j]]
  /\ UNCHANGED shelf

\* The goods are counted anew.
Count(s) ==
  /\ shelf'[s] \in Nat \cup {Unlimited}
  /\ shelf' = [shelf EXCEPT ![s] = shelf'[s]]
  /\ UNCHANGED <<held, sold>>

ShopNext ==
  \/ \E i \in Numbers : i \in DOMAIN held' /\ Hold(i, held'[i])
  \/ \E i \in Numbers : Sell(i)
  \/ \E D \in SUBSET Numbers : Release(D)
  \/ \E s \in Goods : Count(s)

ShopSpec == ShopInit /\ [][ShopNext]_shopVars
=============================================================================
