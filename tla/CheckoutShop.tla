---------------------------- MODULE CheckoutShop ----------------------------
(***************************************************************************)
(* CheckoutStore as a Shop: a pending checkout is a deal that is held, a   *)
(* sale with the checkout it records is a deal that is sold.  Editing      *)
(* carts, switching SKUs on and off and attaching sessions are no steps of *)
(* the shop.                                                               *)
(***************************************************************************)
EXTENDS CheckoutStore

DealOf(i, terms, lines) ==
  [basket |-> checkouts[i].cart, terms |-> terms, lines |-> lines, units |-> checkouts[i].reserved]

HeldDeals == [i \in Pending |-> DealOf(i, checkouts[i].terms, checkouts[i].lines)]

SoldDeals == [i \in DOMAIN sales |-> DealOf(i, sales[i].terms, sales[i].lines)]

AsShop == INSTANCE Shop WITH
  Goods <- Skus, Baskets <- Carts, Numbers <- CheckoutIds, NoBasket <- NoCart,
  InitialShelf <- InitialInventory, Total <- Total,
  shelf <- inventory, held <- HeldDeals, sold <- SoldDeals

\* Whatever the methods of the commerce store are called with, and in whatever
\* order, the checkouts and sales behave like the deals of a shop: no deal is
\* released twice, sold after its release or changed while it is held, and no
\* basket is in two of them (internal/commerce/checkout.go, fulfillment.go).
ImplementsShop == AsShop!ShopSpec
=============================================================================
