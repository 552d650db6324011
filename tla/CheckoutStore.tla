--------------------------- MODULE CheckoutStore ---------------------------
(***************************************************************************)
(* The part of the commerce store (internal/commerce) that decides what is *)
(* in stock, what a cart holds, which checkout holds a reservation and     *)
(* what has been sold.                                                     *)
(*                                                                         *)
(* SQLite is opened with a single connection (internal/auth/store.go), so  *)
(* every store method that is one statement or one transaction is one      *)
(* atomic step here.  A method that returns an error rolls back and leaves *)
(* every variable alone: it is the disabled action, not a step.            *)
(*                                                                         *)
(* The module is an open system: any method may be called at any time with *)
(* any argument.  What holds of it holds whatever the handlers, the sweep  *)
(* of stale checkouts, the webhook and the return page do, in any order.   *)
(*                                                                         *)
(* A table is a function from the row ids it holds to rows.  A checkout    *)
(* row is deleted when it is cancelled, and SQLite gives the next insert   *)
(* the largest id in the table plus one, so ids of deleted rows come back. *)
(***************************************************************************)
EXTENDS Totals

CONSTANTS
  Skus,              \* rows of commerce_skus
  Addons,            \* the SKUs of kind 'addon'
  Subscriptions,     \* the SKUs of subscription products
  ProductOf,         \* [Skus -> products]
  Carts,             \* rows of commerce_carts; a cart not created yet is an
                     \* open, empty cart nobody holds the cookie of
  Sessions,          \* Stripe Checkout session ids
  Terms,             \* what else a checkout snapshots: prices, buyer, shipping
  InitialInventory,  \* [Skus -> Nat \cup {Unlimited}]
  Unlimited,         \* inventory_count IS NULL
  NoCart,            \* cart_id IS NULL
  NoSession,         \* stripe_session_id IS NULL
  MaxCheckoutId,     \* bound: largest checkout row id of the model
  MaxQuantity,       \* bound: largest quantity of a cart line
  EditedSkus,        \* bound: the SKUs an administrator edits
  Restocks           \* bound: the inventory an administrator may type in

Quantities == 1..MaxQuantity
CheckoutIds == 1..MaxCheckoutId
Inventory == Nat \cup {Unlimited}

ASSUME CatalogAssumption ==
  /\ Addons \subseteq Skus
  /\ Subscriptions \subseteq Skus
  /\ Addons \cap Subscriptions = {}
  /\ DOMAIN ProductOf = Skus
  /\ InitialInventory \in [Skus -> Inventory]
  /\ EditedSkus \subseteq Skus
  /\ Restocks \subseteq Inventory

ASSUME NullAssumption ==
  /\ Unlimited \notin Nat
  /\ NoCart \notin Carts
  /\ NoSession \notin Sessions

ASSUME BoundAssumption ==
  /\ MaxCheckoutId \in Nat
  /\ MaxQuantity \in Nat

VARIABLES
  inventory,   \* commerce_skus.inventory_count
  forSale,     \* the SKUs that are active, of an active product
  cartStatus,  \* commerce_carts.status
  cartLines,   \* commerce_cart_items: quantity per SKU, 0 for no row
  checkouts,   \* commerce_checkouts with commerce_checkout_items
  sales        \* commerce_orders and commerce_subscriptions, keyed by their
               \* unique checkout_id, with the confirmation row

storeVars == <<inventory, forSale, cartStatus, cartLines, checkouts, sales>>

Lines == [Skus -> Nat]

Checkout ==
  [status   : {"pending", "fulfilled"},
   cart     : Carts \cup {NoCart},
   session  : Sessions \cup {NoSession},
   terms    : Terms,
   lines    : Lines,
   reserved : Lines]

Sale ==
  [kind    : {"order", "subscription"},
   session : Sessions,
   terms   : Terms,
   lines   : Lines]

TypeOK ==
  /\ inventory \in [Skus -> Inventory]
  /\ forSale \subseteq Skus
  /\ cartStatus \in [Carts -> {"open", "checked_out", "abandoned"}]
  /\ cartLines \in [Carts -> Lines]
  /\ DOMAIN checkouts \subseteq CheckoutIds
  /\ checkouts \in [DOMAIN checkouts -> Checkout]
  /\ DOMAIN sales \subseteq CheckoutIds
  /\ sales \in [DOMAIN sales -> Sale]

EmptyLines == [s \in Skus |-> 0]

Init ==
  /\ inventory = InitialInventory
  /\ forSale = Skus
  /\ cartStatus = [c \in Carts |-> "open"]
  /\ cartLines = [c \in Carts |-> EmptyLines]
  /\ checkouts = [i \in {} |-> 0]
  /\ sales = [i \in {} |-> 0]

-----------------------------------------------------------------------------
(* Reading the tables.                                                     *)

InCart(c) == {s \in Skus : cartLines[c][s] > 0}

\* Mutant of Covers: off by one.
CoversOneMore(s, q) == inventory[s] # Unlimited => q <= inventory[s] + 1

Covers(s, q) == inventory[s] # Unlimited => q <= inventory[s]

PrimaryOf(p, a) ==
  /\ p \notin Addons
  /\ ProductOf[p] = ProductOf[a]

Pending == {i \in DOMAIN checkouts : checkouts[i].status = "pending"}

Unattached == {i \in Pending : checkouts[i].session = NoSession}

CheckoutsOfCart(c) == {i \in DOMAIN checkouts : checkouts[i].cart = c}

CheckoutsOfSession(x) == {i \in DOMAIN checkouts : checkouts[i].session = x}

\* Mutant of CartMutable: ensureCartMutable is not called.
CartOpen(c) == cartStatus[c] = "open"

\* ensureCartMutable, with the status check every caller makes before it.
CartMutable(c) ==
  /\ cartStatus[c] = "open"
  /\ CheckoutsOfCart(c) \cap Pending = {}

\* The id SQLite gives the next row: one more than the largest in the table.
IsNextId(i) ==
  /\ i \in CheckoutIds
  /\ \A j \in DOMAIN checkouts : j < i
  /\ i = 1 \/ i - 1 \in DOMAIN checkouts

-----------------------------------------------------------------------------
(* Carts.                                                                  *)

AddCartItem(c, s, q) ==
  /\ CartMutable(c)
  /\ s \in forSale \ Subscriptions
  /\ cartLines[c][s] + q \in Quantities
  /\ Covers(s, cartLines[c][s] + q)
  /\ s \in Addons => \E p \in InCart(c) : PrimaryOf(p, s)
  /\ cartLines' = [cartLines EXCEPT ![c][s] = @ + q]
  /\ UNCHANGED <<inventory, forSale, cartStatus, checkouts, sales>>

\* A primary SKU and add-ons of its product, q of each, all or none.
AddCartSelection(c, p, addons, q) ==
  /\ CartMutable(c)
  /\ p \in forSale \ (Subscriptions \cup Addons)
  /\ addons \subseteq forSale
  /\ \A a \in addons : PrimaryOf(p, a)
  /\ \A s \in addons \cup {p} :
       /\ cartLines[c][s] + q \in Quantities
       /\ Covers(s, cartLines[c][s] + q)
  /\ cartLines' = [cartLines EXCEPT ![c] =
       [s \in Skus |-> IF s \in addons \cup {p} THEN cartLines[c][s] + q ELSE cartLines[c][s]]]
  /\ UNCHANGED <<inventory, forSale, cartStatus, checkouts, sales>>

UpdateCartItem(c, s, q) ==
  /\ CartMutable(c)
  /\ s \in (forSale \ Subscriptions) \cap InCart(c)
  /\ Covers(s, q)
  /\ cartLines' = [cartLines EXCEPT ![c][s] = q]
  /\ UNCHANGED <<inventory, forSale, cartStatus, checkouts, sales>>

\* Also UpdateCartItem with quantity zero.  Add-ons of a removed primary stay.
RemoveCartItem(c, s) ==
  /\ CartMutable(c)
  /\ s \in InCart(c)
  /\ cartLines' = [cartLines EXCEPT ![c][s] = 0]
  /\ UNCHANGED <<inventory, forSale, cartStatus, checkouts, sales>>

-----------------------------------------------------------------------------
(* Catalog administration, as far as a checkout reads it.                  *)

\* UpdateSKU overwrites the count with what the form carried.  A SKU of an
\* inactive product stays off sale whatever its own flag says: that is the
\* outcome of active = FALSE.
UpdateSKU(s, n, active) ==
  /\ inventory' = [inventory EXCEPT ![s] = n]
  /\ forSale' = IF active THEN forSale \cup {s} ELSE forSale \ {s}
  /\ UNCHANGED <<cartStatus, cartLines, checkouts, sales>>

SetSKUActive(s, active) ==
  /\ forSale' = IF active THEN forSale \cup {s} ELSE forSale \ {s}
  /\ UNCHANGED <<inventory, cartStatus, cartLines, checkouts, sales>>

\* S is what becomes of the SKUs of the product: none of them is for sale, or
\* those with their own flag set.
SetProductActive(product, S) ==
  LET mine == {s \in Skus : ProductOf[s] = product}
  IN  /\ S \subseteq mine
      /\ forSale' = (forSale \ mine) \cup S
      /\ UNCHANGED <<inventory, cartStatus, cartLines, checkouts, sales>>

-----------------------------------------------------------------------------
(* Checkouts.                                                              *)

Reserve(lines) ==
  [s \in Skus |-> IF inventory[s] = Unlimited THEN 0 ELSE lines[s]]

TakeStock(reserved) ==
  [s \in Skus |-> IF inventory[s] = Unlimited
                  THEN Unlimited ELSE inventory[s] - reserved[s]]

\* What the rows in D reserved of SKU s.
ReservedBy(D, s) == Total([i \in D |-> checkouts[i].reserved[s]])

\* Mutant of ReturnStock: returns what was ordered, not what was reserved.
ReturnOrdered(D) ==
  [s \in Skus |-> IF inventory[s] = Unlimited THEN Unlimited
                  ELSE inventory[s] + Total([i \in D |-> checkouts[i].lines[s]])]

ReturnStock(D) ==
  [s \in Skus |-> IF inventory[s] = Unlimited
                  THEN Unlimited ELSE inventory[s] + ReservedBy(D, s)]

\* The tail both kinds of CreateCheckout share: insert the row with its
\* snapshot and take what it reserves out of the inventory.
InsertCheckout(i, c, lines, t) ==
  /\ IsNextId(i)
  /\ \A s \in Skus : Covers(s, lines[s])
  /\ LET row == [status |-> "pending", cart |-> c, session |-> NoSession,
                 terms |-> t, lines |-> lines, reserved |-> Reserve(lines)]
     IN  /\ checkouts' = [j \in DOMAIN checkouts \cup {i} |->
                            IF j = i THEN row ELSE checkouts[j]]
         /\ inventory' = TakeStock(row.reserved)
  /\ UNCHANGED <<forSale, cartStatus, cartLines, sales>>

\* The conditions CreateCheckout checks of a cart before it inserts.
CartReady(c) ==
  /\ cartStatus[c] = "open"
  /\ CheckoutsOfCart(c) = {}
  /\ InCart(c) # {}
  /\ InCart(c) \subseteq forSale \ Subscriptions
  /\ \A a \in InCart(c) \cap Addons : \E p \in InCart(c) : PrimaryOf(p, a)

CreateCheckout(c, i, t) ==
  /\ CartReady(c)
  /\ InsertCheckout(i, c, cartLines[c], t)

CreateSubscriptionCheckout(s, i, t) ==
  /\ s \in (Subscriptions \ Addons) \cap forSale
  /\ InsertCheckout(i, NoCart, [EmptyLines EXCEPT ![s] = 1], t)

\* Mutant of CanAttach: another session may replace the one attached.
CanReattach(i, x) == i \in Pending /\ CheckoutsOfSession(x) \subseteq {i}

\* Sending the same session again is accepted, another session is not, and
\* a session another row carries violates the UNIQUE constraint.
CanAttach(i, x) ==
  /\ i \in Pending
  /\ checkouts[i].session \in {NoSession, x}
  /\ CheckoutsOfSession(x) \subseteq {i}

AttachStripeSession(i, x) ==
  /\ CanAttach(i, x)
  /\ checkouts' = [checkouts EXCEPT ![i].session = x]
  /\ UNCHANGED <<inventory, forSale, cartStatus, cartLines, sales>>

\* Give back what the rows in D reserved and delete them, in one transaction.
DeleteCheckouts(D) ==
  /\ inventory' = ReturnStock(D)
  /\ checkouts' = [j \in DOMAIN checkouts \ D |-> checkouts[j]]

\* Mutant of CanCancel: a late expiry event also hits a fulfilled checkout.
CanCancelSold(i, x) == i \in DOMAIN checkouts /\ checkouts[i].session \in {NoSession, x}

\* Mutant of CanCancel: the session is not looked at again.
CanCancelAttached(i, x) == i \in Pending

\* cancelCheckoutReservation: without a session only an unattached row is
\* cancelled, with one also the row attached to that session.
CanCancel(i, x) ==
  /\ i \in Pending
  /\ checkouts[i].session \in {NoSession, x}

CancelPendingCheckout(i) ==
  /\ CanCancel(i, NoSession)
  /\ DeleteCheckouts({i})
  /\ UNCHANGED <<forSale, cartStatus, cartLines, sales>>

CancelExpiredCheckout(i, x) ==
  /\ CanCancel(i, x)
  /\ DeleteCheckouts({i})
  /\ UNCHANGED <<forSale, cartStatus, cartLines, sales>>

-----------------------------------------------------------------------------
(* Fulfillment.                                                            *)

\* Fulfill creates a sale only of a pending checkout whose cart is still
\* open; when the sale exists it returns it and changes nothing.
CanFulfill(i) ==
  /\ i \in Pending
  /\ checkouts[i].cart # NoCart => cartStatus[checkouts[i].cart] = "open"

Fulfill(i, x) ==
  /\ i \in CheckoutsOfSession(x)
  /\ CanFulfill(i)
  /\ cartStatus' = [c \in Carts |->
       IF c = checkouts[i].cart THEN "checked_out" ELSE cartStatus[c]]
  /\ LET sale == [kind    |-> IF checkouts[i].cart = NoCart
                              THEN "subscription" ELSE "order",
                  session |-> x,
                  terms   |-> checkouts[i].terms,
                  lines   |-> checkouts[i].lines]
     IN  sales' = [j \in DOMAIN sales \cup {i} |->
                     IF j = i THEN sale ELSE sales[j]]
  /\ checkouts' = [checkouts EXCEPT ![i].status = "fulfilled"]
  /\ UNCHANGED <<inventory, forSale, cartLines>>

-----------------------------------------------------------------------------
(* Account removal, as far as it touches carts and checkouts.  Which carts *)
(* and checkouts belong to the account is left open: C and D are any.      *)

AbandonCarts(C) ==
  cartStatus' = [c \in Carts |-> IF c \in C THEN "abandoned" ELSE cartStatus[c]]

\* Mutant of OpenCarts: account removal abandons carts that were sold, too.
AllCarts == Carts

OpenCarts == {c \in Carts : cartStatus[c] = "open"}

AbandonOpenCartsForUser(C) ==
  /\ C \subseteq OpenCarts
  /\ AbandonCarts(C)
  /\ UNCHANGED <<inventory, forSale, cartLines, checkouts, sales>>

FinalizeUserDeletion(C, D) ==
  /\ C \subseteq OpenCarts
  /\ D \subseteq Unattached
  /\ AbandonCarts(C)
  /\ DeleteCheckouts(D)
  /\ UNCHANGED <<forSale, cartLines, sales>>

-----------------------------------------------------------------------------

CartStep ==
  \E c \in Carts, s \in Skus :
    \/ \E q \in Quantities : AddCartItem(c, s, q) \/ UpdateCartItem(c, s, q)
    \/ \E q \in Quantities, addons \in SUBSET Addons :
         AddCartSelection(c, s, addons, q)
    \/ RemoveCartItem(c, s)

CatalogStep ==
  \/ \E s \in EditedSkus, active \in BOOLEAN :
       \/ \E n \in Restocks : UpdateSKU(s, n, active)
       \/ SetSKUActive(s, active)
  \/ \E s \in EditedSkus, S \in SUBSET Skus : SetProductActive(ProductOf[s], S)

CheckoutStep ==
  \E i \in CheckoutIds :
    \/ \E c \in Carts, t \in Terms : CreateCheckout(c, i, t)
    \/ \E s \in Skus, t \in Terms : CreateSubscriptionCheckout(s, i, t)
    \/ CancelPendingCheckout(i)
    \/ \E x \in Sessions :
         \/ AttachStripeSession(i, x)
         \/ CancelExpiredCheckout(i, x)
         \/ Fulfill(i, x)

AccountStep ==
  \E C \in SUBSET Carts :
    \/ AbandonOpenCartsForUser(C)
    \/ \E D \in SUBSET CheckoutIds : FinalizeUserDeletion(C, D)

Next == CartStep \/ CatalogStep \/ CheckoutStep \/ AccountStep

Spec == Init /\ [][Next]_storeVars

-----------------------------------------------------------------------------
(* What the store promises.                                                *)

\* A checkout is fulfilled exactly when one sale records it, and the sale is
\* that checkout's: its session, its terms, its lines.  Fulfill, the one
\* writer of orders and subscriptions, and every canceller keep it so.
SoldIffFulfilled ==
  /\ DOMAIN sales = DOMAIN checkouts \ Pending
  /\ \A i \in DOMAIN sales :
       /\ sales[i].session = checkouts[i].session
       /\ sales[i].terms = checkouts[i].terms
       /\ sales[i].lines = checkouts[i].lines

\* A cart counts as checked out exactly when a sale came of it, and never do
\* two sales come of one cart.  Fulfill claims the cart in the transaction
\* that records the order.
CartSoldOnce ==
  \A c \in Carts :
    /\ cartStatus[c] = "checked_out" <=> CheckoutsOfCart(c) \ Pending # {}
    /\ \A i, j \in CheckoutsOfCart(c) \ Pending : i = j

\* From the moment a checkout takes its snapshot until it is cancelled, and
\* for ever once it is sold, the cart holds what the snapshot says: a
\* customer is not shown one cart and charged for another.  It rests on
\* ensureCartMutable in every cart method and on the status checks.
SnapshotMatchesCart ==
  \A i \in DOMAIN checkouts :
    checkouts[i].cart # NoCart => checkouts[i].lines = cartLines[checkouts[i].cart]

\* The unique indexes the store's methods must never run into by surprise:
\* one checkout per cart, one checkout per Stripe session.
OneCheckoutPerCart == \A c \in Carts : \A i, j \in CheckoutsOfCart(c) : i = j

OneCheckoutPerSession ==
  \A x \in Sessions : \A i, j \in CheckoutsOfSession(x) : i = j

StockOf(s) == inventory[s] + ReservedBy(DOMAIN checkouts, s)

\* Units are neither made nor lost: but for an administrator typing a new
\* count, what is on the shelf of a limited SKU plus what checkouts hold or
\* sold of it stays the same in every step, so nothing reserved is released
\* twice, forgotten, or sold a second time.
StockConserved ==
  [][\A s \in Skus :
       \/ Unlimited \in {inventory[s], inventory'[s]}
       \/ \E n \in Restocks, active \in BOOLEAN : UpdateSKU(s, n, active)
       \/ StockOf(s)' = StockOf(s)]_storeVars

\* A sale is final: no expiry, cancellation, late webhook or account removal
\* changes or deletes it or the checkout it is based on.
SaleIsFinal ==
  [][\A i \in DOMAIN sales :
       /\ i \in DOMAIN sales' /\ sales'[i] = sales[i]
       /\ i \in DOMAIN checkouts' /\ checkouts'[i] = checkouts[i]]_storeVars

\* While a session is attached to a checkout, the checkout keeps that session
\* and its snapshot: what the customer pays for cannot be swapped under them.
AttachedSnapshotFixed ==
  [][\A i \in DOMAIN checkouts \cap DOMAIN checkouts' :
       checkouts[i].session # NoSession =>
         [checkouts'[i] EXCEPT !.status = "pending"]
           = [checkouts[i] EXCEPT !.status = "pending"]]_storeVars

\* The inductive invariant behind them.
Inv ==
  /\ TypeOK
  /\ OneCheckoutPerCart
  /\ OneCheckoutPerSession
  /\ SoldIffFulfilled
  /\ CartSoldOnce
  /\ SnapshotMatchesCart

=============================================================================
