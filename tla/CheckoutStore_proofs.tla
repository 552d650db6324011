------------------------ MODULE CheckoutStore_proofs ------------------------
(***************************************************************************)
(* Proofs that Inv is an invariant of CheckoutStore, and so are its parts, *)
(* that a sale is final and stock conserved, and that the store implements *)
(* the shop.  One lemma per kind of step: what the methods of one group    *)
(* change is alike, so their common effect is what is shown to preserve    *)
(* Inv, and to be a step of the shop.                                      *)
(***************************************************************************)
EXTENDS CheckoutShop, FiniteSetTheorems, TLAPS

-----------------------------------------------------------------------------
(* Sums of columns.                                                        *)

\* Finitely many numbers have finitely many units, so they have a sum.
LEMMA TotalType ==
  ASSUME NEW D, IsFiniteSet(D), NEW n \in [D -> Nat]
  PROVE  IsFiniteSet(Units(n)) /\ Total(n) \in Nat
<1> DEFINE rows == [i \in D |-> {i} \X (1..n[i])]
           R == {{i} \X (1..n[i]) : i \in D}
<1>1. rows \in Surjection(D, R)
  BY DEF Surjection
<1>2. IsFiniteSet(R)
  BY <1>1, FS_Surjection
<1>3. ASSUME NEW i \in D PROVE IsFiniteSet({i} \X (1..n[i]))
  <2>1. IsFiniteSet({i}) /\ IsFiniteSet(1..n[i])
    <3>1. n[i] \in Int /\ 1 \in Int
      OBVIOUS
    <3> QED
      BY <3>1, FS_Singleton, FS_Interval
  <2> QED
    BY <2>1, FS_Product
<1>4. IsFiniteSet(UNION R)
  BY <1>2, <1>3, FS_UNION
<1>5. Units(n) = UNION R
  BY DEF Units
<1> QED
  BY <1>4, <1>5, FS_CardinalityType DEF Total

\* A sum is the sum over some rows and the sum over the others.
LEMMA TotalSplit ==
  ASSUME NEW D, IsFiniteSet(D), NEW n \in [D -> Nat], NEW E \in SUBSET D,
         NEW in, in = [i \in E |-> n[i]],
         NEW out, out = [i \in D \ E |-> n[i]]
  PROVE  Total(n) = Total(in) + Total(out)
<1>1. IsFiniteSet(E) /\ IsFiniteSet(D \ E)
  BY FS_Subset
<1>2. /\ IsFiniteSet(Units(in)) /\ Total(in) \in Nat
      /\ IsFiniteSet(Units(out)) /\ Total(out) \in Nat
  <2>1. in \in [E -> Nat] /\ out \in [D \ E -> Nat]
    OBVIOUS
  <2> QED
    BY <1>1, <2>1, TotalType
<1>3. Units(n) = Units(in) \cup Units(out)
  <2>1. /\ Units(n) = UNION {{i} \X (1..n[i]) : i \in D}
        /\ Units(in) = UNION {{i} \X (1..n[i]) : i \in E}
        /\ Units(out) = UNION {{i} \X (1..n[i]) : i \in D \ E}
    BY DEF Units
  <2> QED
    BY <2>1
<1>4. Units(in) \cap Units(out) = {}
  BY DEF Units
<1>5. Cardinality(Units(in) \cap Units(out)) = 0
  BY <1>4, FS_EmptySet
<1>6. Cardinality(Units(in) \cup Units(out)) =
        Total(in) + Total(out) - Cardinality(Units(in) \cap Units(out))
  BY <1>2, FS_Union DEF Total
<1>7. Total(n) = Cardinality(Units(in) \cup Units(out))
  BY <1>3 DEF Total
<1> QED
  BY <1>2, <1>5, <1>6, <1>7

\* The sum over one row is its number.
LEMMA TotalOne ==
  ASSUME NEW i, NEW k \in Nat, NEW n, n = [j \in {i} |-> k]
  PROVE  Total(n) = k
<1>1. Units(n) = {i} \X (1..k)
  BY DEF Units
<1>2. /\ IsFiniteSet({i}) /\ Cardinality({i}) = 1
      /\ IsFiniteSet(1..k) /\ Cardinality(1..k) = k
  <2>1. IsFiniteSet(1..k) /\ Cardinality(1..k) = IF 1 > k THEN 0 ELSE k - 1 + 1
    <3>1. 1 \in Int /\ k \in Int
      OBVIOUS
    <3> QED
      BY <3>1, FS_Interval
  <2>2. Cardinality(1..k) = k
    BY <2>1
  <2> QED
    BY <2>1, <2>2, FS_Singleton
<1>3. Cardinality({i} \X (1..k)) = Cardinality({i}) * Cardinality(1..k)
  BY <1>2, FS_Product
<1>4. Total(n) = 1 * k
  BY <1>1, <1>2, <1>3 DEF Total
<1> QED
  BY <1>4

-----------------------------------------------------------------------------
(* The invariant.                                                          *)


\* The empty tables and carts of a new database satisfy the invariant.
LEMMA InitInv == Init => Inv
<1> SUFFICES ASSUME Init PROVE Inv
  OBVIOUS
<1>1. TypeOK
  BY CatalogAssumption DEF Init, TypeOK, EmptyLines, Lines
<1>2. QED
  BY <1>1 DEF Inv, Init, OneCheckoutPerCart, OneCheckoutPerSession,
     SoldIffFulfilled, CartSoldOnce, SnapshotMatchesCart, CheckoutsOfCart,
     CheckoutsOfSession, Pending

\* No checkout is based on a cart that may be edited: a pending one forbids
\* the edit, and a fulfilled one has closed the cart.
LEMMA MutableCartIsFree ==
  ASSUME Inv, NEW c \in Carts, CartMutable(c)
  PROVE  CheckoutsOfCart(c) = {}
BY DEF Inv, CartMutable, CartSoldOnce, CheckoutsOfCart, Pending

\* Editing one mutable cart preserves the invariant.
LEMMA CartEditKeepsInv ==
  ASSUME Inv, NEW c \in Carts, CartMutable(c),
         cartLines' \in [Carts -> Lines],
         \A d \in Carts \ {c} : cartLines'[d] = cartLines[d],
         UNCHANGED <<inventory, forSale, cartStatus, checkouts, sales>>
  PROVE  Inv'
<1>1. TypeOK'
  BY DEF Inv, TypeOK
<1>2. SnapshotMatchesCart'
  <2> SUFFICES ASSUME NEW i \in DOMAIN checkouts, checkouts[i].cart # NoCart
               PROVE  checkouts[i].lines = cartLines'[checkouts[i].cart]
    BY DEF SnapshotMatchesCart
  <2>1. checkouts[i].cart \in Carts \ {c}
    BY MutableCartIsFree DEF Inv, TypeOK, Checkout, CheckoutsOfCart
  <2> QED
    BY <2>1 DEF Inv, SnapshotMatchesCart
<1>3. QED
  BY <1>1, <1>2 DEF Inv, OneCheckoutPerCart, OneCheckoutPerSession,
     SoldIffFulfilled, CartSoldOnce, CheckoutsOfCart, CheckoutsOfSession, Pending

\* Every cart method preserves the invariant.
LEMMA CartStepKeepsInv == ASSUME Inv, CartStep PROVE Inv'
<1> PICK c \in Carts, s \in Skus :
      \/ \E q \in Quantities : AddCartItem(c, s, q) \/ UpdateCartItem(c, s, q)
      \/ \E q \in Quantities, addons \in SUBSET Addons :
           AddCartSelection(c, s, addons, q)
      \/ RemoveCartItem(c, s)
  BY DEF CartStep
<1> cartLines \in [Carts -> Lines]
  BY DEF Inv, TypeOK
<1>1. ASSUME NEW q \in Quantities, AddCartItem(c, s, q) PROVE Inv'
  <2>1. cartLines' \in [Carts -> Lines]
    BY <1>1, BoundAssumption DEF AddCartItem, Lines, Quantities
  <2> QED
    BY <1>1, <2>1, CartEditKeepsInv DEF AddCartItem
<1>2. ASSUME NEW q \in Quantities, UpdateCartItem(c, s, q) PROVE Inv'
  <2>1. cartLines' \in [Carts -> Lines]
    BY <1>2, BoundAssumption DEF UpdateCartItem, Lines, Quantities
  <2> QED
    BY <1>2, <2>1, CartEditKeepsInv DEF UpdateCartItem
<1>3. ASSUME NEW q \in Quantities, NEW addons \in SUBSET Addons,
             AddCartSelection(c, s, addons, q)
      PROVE  Inv'
  <2>1. cartLines' \in [Carts -> Lines]
    BY <1>3, BoundAssumption DEF AddCartSelection, Lines, Quantities
  <2> QED
    BY <1>3, <2>1, CartEditKeepsInv DEF AddCartSelection
<1>4. ASSUME RemoveCartItem(c, s) PROVE Inv'
  <2>1. cartLines' \in [Carts -> Lines]
    BY <1>4 DEF RemoveCartItem, Lines
  <2> QED
    BY <1>4, <2>1, CartEditKeepsInv DEF RemoveCartItem
<1> QED
  BY <1>1, <1>2, <1>3, <1>4

\* Administering the catalog touches no cart, checkout or sale.
LEMMA CatalogStepKeepsInv == ASSUME Inv, CatalogStep PROVE Inv'
<1>1. /\ inventory' \in [Skus -> Inventory]
      /\ forSale' \subseteq Skus
      /\ UNCHANGED <<cartStatus, cartLines, checkouts, sales>>
  BY CatalogAssumption DEF CatalogStep, UpdateSKU, SetSKUActive,
     SetProductActive, Inv, TypeOK
<1> QED
  BY <1>1 DEF Inv, TypeOK, OneCheckoutPerCart, OneCheckoutPerSession,
     SoldIffFulfilled, CartSoldOnce, SnapshotMatchesCart, CheckoutsOfCart,
     CheckoutsOfSession, Pending

\* What is reserved comes off the shelf and never leaves it negative.
LEMMA TakeStockType ==
  ASSUME TypeOK, NEW lines \in Lines, \A s \in Skus : Covers(s, lines[s])
  PROVE  /\ Reserve(lines) \in Lines
         /\ TakeStock(Reserve(lines)) \in [Skus -> Inventory]
<1>1. Reserve(lines) \in Lines
  BY DEF Reserve, Lines
<1>2. ASSUME NEW s \in Skus, inventory[s] # Unlimited
      PROVE  inventory[s] - Reserve(lines)[s] \in Nat
  BY <1>2 DEF TypeOK, Inventory, Reserve, Covers, Lines
<1> QED
  BY <1>1, <1>2 DEF TakeStock, Inventory

\* A new checkout of a free cart, or of no cart, preserves the invariant.
LEMMA InsertKeepsInv ==
  ASSUME Inv, NEW i \in CheckoutIds, NEW t \in Terms,
         NEW c \in Carts \cup {NoCart}, NEW lines \in Lines,
         InsertCheckout(i, c, lines, t),
         c # NoCart => CheckoutsOfCart(c) = {} /\ lines = cartLines[c]
                       /\ cartStatus[c] = "open"
  PROVE  Inv'
<1> DEFINE row == [status |-> "pending", cart |-> c, session |-> NoSession,
                   terms |-> t, lines |-> lines, reserved |-> Reserve(lines)]
<1>1. /\ i \notin DOMAIN checkouts
      /\ DOMAIN checkouts' = DOMAIN checkouts \cup {i}
      /\ checkouts' = [j \in DOMAIN checkouts \cup {i} |->
                         IF j = i THEN row ELSE checkouts[j]]
      /\ inventory' = TakeStock(Reserve(lines))
      /\ UNCHANGED <<forSale, cartStatus, cartLines, sales>>
  BY BoundAssumption DEF InsertCheckout, IsNextId, CheckoutIds
<1>2. TypeOK'
  <2>1. /\ Reserve(lines) \in Lines
        /\ inventory' \in [Skus -> Inventory]
    BY <1>1, TakeStockType DEF InsertCheckout, Inv
  <2>2. row \in Checkout
    BY <2>1 DEF Checkout
  <2> QED
    BY <1>1, <2>1, <2>2 DEF Inv, TypeOK
<1>3. /\ checkouts'[i] = row
      /\ \A j \in DOMAIN checkouts : checkouts'[j] = checkouts[j]
  BY <1>1
<1> HIDE DEF row
<1>4. row.status = "pending" /\ row.cart = c /\ row.session = NoSession
      /\ row.lines = lines
  BY DEF row
<1>5. OneCheckoutPerCart'
  BY <1>1, <1>3, <1>4, NullAssumption DEF Inv, OneCheckoutPerCart, CheckoutsOfCart
<1>6. OneCheckoutPerSession'
  BY <1>1, <1>3, <1>4, NullAssumption
     DEF Inv, OneCheckoutPerSession, CheckoutsOfSession
<1>7. DOMAIN checkouts' \ Pending' = DOMAIN checkouts \ Pending
  BY <1>1, <1>3, <1>4 DEF Pending
<1>8. SoldIffFulfilled'
  BY <1>1, <1>3, <1>7 DEF Inv, SoldIffFulfilled
<1>9. CartSoldOnce'
  <2>1. ASSUME NEW d \in Carts
        PROVE  (CheckoutsOfCart(d) \ Pending)' = CheckoutsOfCart(d) \ Pending
    BY <1>1, <1>3, <1>4 DEF CheckoutsOfCart, Pending
  <2> QED
    BY <1>1, <2>1 DEF Inv, CartSoldOnce
<1>10. SnapshotMatchesCart'
  BY <1>1, <1>3, <1>4 DEF Inv, SnapshotMatchesCart
<1> QED
  BY <1>2, <1>5, <1>6, <1>8, <1>9, <1>10 DEF Inv

\* What any rows reserved is a natural number, and what all of them did is
\* what some did and what the others did.
LEMMA ReservedSplit ==
  ASSUME TypeOK, NEW D \in SUBSET DOMAIN checkouts, NEW s \in Skus
  PROVE  /\ ReservedBy(D, s) \in Nat
         /\ ReservedBy(DOMAIN checkouts, s) =
              ReservedBy(D, s) + ReservedBy(DOMAIN checkouts \ D, s)
<1> DEFINE n == [i \in DOMAIN checkouts |-> checkouts[i].reserved[s]]
           in == [i \in D |-> checkouts[i].reserved[s]]
           out == [i \in DOMAIN checkouts \ D |-> checkouts[i].reserved[s]]
<1>1. IsFiniteSet(DOMAIN checkouts) /\ IsFiniteSet(D)
  <2>1. IsFiniteSet(CheckoutIds)
    BY FS_Interval, BoundAssumption DEF CheckoutIds
  <2> QED
    BY <2>1, FS_Subset DEF TypeOK
<1>2. \A i \in DOMAIN checkouts : checkouts[i].reserved[s] \in Nat
  BY DEF TypeOK, Checkout, Lines
<1>3. n \in [DOMAIN checkouts -> Nat] /\ in \in [D -> Nat]
  BY <1>2
<1>4. in = [i \in D |-> n[i]] /\ out = [i \in DOMAIN checkouts \ D |-> n[i]]
  OBVIOUS
<1> HIDE DEF n, in, out
<1>5. Total(in) \in Nat /\ Total(n) = Total(in) + Total(out)
  BY <1>1, <1>3, <1>4, TotalType, TotalSplit
<1> QED
  BY <1>5 DEF ReservedBy, n, in, out

\* Deleting pending checkouts, and abandoning open carts with them,
\* preserves the invariant: nothing sold is touched.
LEMMA DeleteKeepsInv ==
  ASSUME Inv, NEW D \in SUBSET Pending, NEW C \in SUBSET OpenCarts,
         DeleteCheckouts(D), AbandonCarts(C),
         UNCHANGED <<forSale, cartLines, sales>>
  PROVE  Inv'
<1>1. /\ checkouts' = [j \in DOMAIN checkouts \ D |-> checkouts[j]]
      /\ DOMAIN checkouts' = DOMAIN checkouts \ D
      /\ \A j \in DOMAIN checkouts' : checkouts'[j] = checkouts[j]
  BY DEF DeleteCheckouts
<1>11. inventory' \in [Skus -> Inventory]
  <2>1. \A s \in Skus : ReservedBy(D, s) \in Nat
    BY ReservedSplit DEF Inv, Pending
  <2>2. inventory \in [Skus -> Inventory]
    BY DEF Inv, TypeOK
  <2> QED
    BY <2>1, <2>2, NullAssumption DEF DeleteCheckouts, ReturnStock, Inventory
<1>2. /\ cartStatus' \in [Carts -> {"open", "checked_out", "abandoned"}]
      /\ \A c \in Carts : cartStatus'[c] = "checked_out"
                            <=> cartStatus[c] = "checked_out"
  BY DEF AbandonCarts, OpenCarts, Inv, TypeOK
<1>3. TypeOK'
  BY <1>1, <1>2, <1>11 DEF Inv, TypeOK
<1>4. DOMAIN checkouts' \ Pending' = DOMAIN checkouts \ Pending
  BY <1>1 DEF Pending
<1>5. SoldIffFulfilled'
  BY <1>1, <1>4 DEF Inv, SoldIffFulfilled
<1>6. CartSoldOnce'
  <2>1. ASSUME NEW c \in Carts
        PROVE  (CheckoutsOfCart(c) \ Pending)' = CheckoutsOfCart(c) \ Pending
    BY <1>1 DEF CheckoutsOfCart, Pending
  <2> QED
    BY <1>2, <2>1 DEF Inv, CartSoldOnce
<1>7. OneCheckoutPerCart' /\ OneCheckoutPerSession' /\ SnapshotMatchesCart'
  BY <1>1 DEF Inv, OneCheckoutPerCart, OneCheckoutPerSession,
     SnapshotMatchesCart, CheckoutsOfCart, CheckoutsOfSession
<1> QED
  BY <1>3, <1>5, <1>6, <1>7 DEF Inv

\* Attaching a session nobody else carries preserves the invariant.
LEMMA AttachKeepsInv ==
  ASSUME Inv, NEW i \in CheckoutIds, NEW x \in Sessions, AttachStripeSession(i, x)
  PROVE  Inv'
<1>1. /\ i \in Pending /\ i \in DOMAIN checkouts
      /\ CheckoutsOfSession(x) \subseteq {i}
      /\ checkouts' = [checkouts EXCEPT ![i].session = x]
      /\ UNCHANGED <<inventory, forSale, cartStatus, cartLines, sales>>
  BY DEF AttachStripeSession, CanAttach, Pending
<1>2. /\ DOMAIN checkouts' = DOMAIN checkouts
      /\ checkouts'[i] = [checkouts[i] EXCEPT !.session = x]
      /\ \A j \in DOMAIN checkouts \ {i} : checkouts'[j] = checkouts[j]
  BY <1>1 DEF Inv, TypeOK
<1>3. /\ checkouts[i] \in Checkout
      /\ checkouts'[i] \in Checkout
  BY <1>1, <1>2 DEF Inv, TypeOK, Checkout
<1>4. /\ checkouts'[i].session = x
      /\ checkouts'[i].status = checkouts[i].status
      /\ checkouts'[i].cart = checkouts[i].cart
      /\ checkouts'[i].terms = checkouts[i].terms
      /\ checkouts'[i].lines = checkouts[i].lines
  BY <1>2, <1>3 DEF Checkout
<1>5. TypeOK'
  BY <1>1, <1>2, <1>3 DEF Inv, TypeOK
<1>6. OneCheckoutPerSession'
  BY <1>1, <1>2, <1>4 DEF Inv, OneCheckoutPerSession, CheckoutsOfSession
<1>7. Pending' = Pending /\ \A c \in Carts : CheckoutsOfCart(c)' = CheckoutsOfCart(c)
  BY <1>2, <1>4 DEF Pending, CheckoutsOfCart
<1>8. OneCheckoutPerCart' /\ CartSoldOnce'
  BY <1>1, <1>7 DEF Inv, OneCheckoutPerCart, CartSoldOnce
<1>9. SoldIffFulfilled'
  BY <1>1, <1>2, <1>7 DEF Inv, SoldIffFulfilled
<1>10. SnapshotMatchesCart'
  BY <1>1, <1>2, <1>4 DEF Inv, SnapshotMatchesCart
<1> QED
  BY <1>5, <1>6, <1>8, <1>9, <1>10 DEF Inv

\* Fulfilling a checkout whose cart is open preserves the invariant.
LEMMA FulfillKeepsInv ==
  ASSUME Inv, NEW i \in CheckoutIds, NEW x \in Sessions, Fulfill(i, x)
  PROVE  Inv'
<1> DEFINE cart == checkouts[i].cart
<1>1. /\ i \in Pending /\ i \in DOMAIN checkouts
      /\ checkouts[i].session = x
      /\ checkouts[i] \in Checkout
      /\ cart # NoCart => cartStatus[cart] = "open"
  BY DEF Fulfill, CanFulfill, CheckoutsOfSession, Inv, TypeOK
<1> DEFINE sale == [kind    |-> IF cart = NoCart THEN "subscription" ELSE "order",
                    session |-> x,
                    terms   |-> checkouts[i].terms,
                    lines   |-> checkouts[i].lines]
<1>2. /\ sales' = [j \in DOMAIN sales \cup {i} |-> IF j = i THEN sale ELSE sales[j]]
      /\ DOMAIN sales' = DOMAIN sales \cup {i}
      /\ sales'[i] = sale
      /\ \A j \in DOMAIN sales \ {i} : sales'[j] = sales[j]
  BY DEF Fulfill
<1>3. /\ DOMAIN checkouts' = DOMAIN checkouts
      /\ checkouts'[i] = [checkouts[i] EXCEPT !.status = "fulfilled"]
      /\ \A j \in DOMAIN checkouts \ {i} : checkouts'[j] = checkouts[j]
      /\ checkouts' \in [DOMAIN checkouts -> Checkout]
  BY <1>1 DEF Fulfill, Inv, TypeOK, Checkout
<1>4. /\ checkouts'[i].status = "fulfilled"
      /\ checkouts'[i].cart = cart
      /\ checkouts'[i].session = x
      /\ checkouts'[i].terms = checkouts[i].terms
      /\ checkouts'[i].lines = checkouts[i].lines
  BY <1>1, <1>3 DEF Checkout
<1>5. /\ cartStatus' = [c \in Carts |-> IF c = cart THEN "checked_out" ELSE cartStatus[c]]
      /\ UNCHANGED <<inventory, forSale, cartLines>>
  BY DEF Fulfill
<1>6. sale \in Sale
  BY <1>1 DEF Sale, Checkout
<1>7. TypeOK'
  BY <1>1, <1>2, <1>3, <1>5, <1>6 DEF Inv, TypeOK
<1>8. /\ \A c \in Carts : CheckoutsOfCart(c)' = CheckoutsOfCart(c)
      /\ \A y \in Sessions : CheckoutsOfSession(y)' = CheckoutsOfSession(y)
      /\ Pending' = Pending \ {i}
  <2>1. \A j \in DOMAIN checkouts :
          /\ checkouts'[j].cart = checkouts[j].cart
          /\ checkouts'[j].session = checkouts[j].session
          /\ j # i => checkouts'[j].status = checkouts[j].status
    BY <1>1, <1>3, <1>4
  <2>2. \A c \in Carts : CheckoutsOfCart(c)' = CheckoutsOfCart(c)
    BY <1>3, <2>1 DEF CheckoutsOfCart
  <2>3. \A y \in Sessions : CheckoutsOfSession(y)' = CheckoutsOfSession(y)
    BY <1>3, <2>1 DEF CheckoutsOfSession
  <2>4. Pending' = Pending \ {i}
    BY <1>1, <1>3, <1>4, <2>1 DEF Pending
  <2> QED
    BY <2>2, <2>3, <2>4
<1>9. OneCheckoutPerCart' /\ OneCheckoutPerSession'
  BY <1>8 DEF Inv, OneCheckoutPerCart, OneCheckoutPerSession
<1>10. SoldIffFulfilled'
  <2>1. i \notin DOMAIN sales
    BY <1>1 DEF Inv, SoldIffFulfilled
  <2>2. DOMAIN sales' = DOMAIN checkouts' \ Pending'
    BY <1>1, <1>2, <1>3, <1>8 DEF Inv, SoldIffFulfilled
  <2>3. /\ sales'[i].session = checkouts'[i].session
        /\ sales'[i].terms = checkouts'[i].terms
        /\ sales'[i].lines = checkouts'[i].lines
    BY <1>2, <1>4
  <2>4. ASSUME NEW j \in DOMAIN sales
        PROVE  sales'[j] = sales[j] /\ checkouts'[j] = checkouts[j]
    BY <1>2, <1>3, <2>1 DEF Inv, SoldIffFulfilled
  <2>5. ASSUME NEW j \in DOMAIN sales'
        PROVE  /\ sales'[j].session = checkouts'[j].session
               /\ sales'[j].terms = checkouts'[j].terms
               /\ sales'[j].lines = checkouts'[j].lines
    <3>1. CASE j = i
      BY <2>3, <3>1
    <3>2. CASE j # i
      <4>1. j \in DOMAIN sales
        BY <1>2, <3>2
      <4> QED
        BY <2>4, <4>1 DEF Inv, SoldIffFulfilled
    <3> QED
      BY <3>1, <3>2
  <2> QED
    BY <2>2, <2>5 DEF SoldIffFulfilled
<1>11. CartSoldOnce'
  <2> SUFFICES ASSUME NEW c \in Carts
               PROVE  /\ cartStatus'[c] = "checked_out"
                           <=> CheckoutsOfCart(c) \ Pending' # {}
                      /\ \A j, k \in CheckoutsOfCart(c) \ Pending' : j = k
    BY <1>8 DEF CartSoldOnce
  <2>1. \A j, k \in CheckoutsOfCart(c) : j = k
    BY DEF Inv, OneCheckoutPerCart
  <2>2. CASE c = cart
    <3>1. cartStatus'[c] = "checked_out"
      BY <1>5, <2>2
    <3>2. i \in CheckoutsOfCart(c) \ Pending'
      BY <1>1, <1>8, <2>2 DEF CheckoutsOfCart
    <3> QED
      BY <2>1, <3>1, <3>2
  <2>3. CASE c # cart
    <3>1. i \notin CheckoutsOfCart(c)
      BY <2>3 DEF CheckoutsOfCart
    <3> QED
      BY <1>5, <1>8, <2>3, <3>1 DEF Inv, CartSoldOnce
  <2> QED
    BY <2>2, <2>3
<1>12. SnapshotMatchesCart'
  <2>1. \A j \in DOMAIN checkouts :
          /\ checkouts'[j].cart = checkouts[j].cart
          /\ checkouts'[j].lines = checkouts[j].lines
    BY <1>3, <1>4
  <2> QED
    BY <1>3, <1>5, <2>1 DEF Inv, SnapshotMatchesCart
<1> QED
  BY <1>7, <1>9, <1>10, <1>11, <1>12 DEF Inv

\* Every checkout and fulfillment method preserves the invariant.
LEMMA CheckoutStepKeepsInv == ASSUME Inv, CheckoutStep PROVE Inv'
<1> PICK i \in CheckoutIds :
      \/ \E c \in Carts, t \in Terms : CreateCheckout(c, i, t)
      \/ \E s \in Skus, t \in Terms : CreateSubscriptionCheckout(s, i, t)
      \/ CancelPendingCheckout(i)
      \/ \E x \in Sessions :
           \/ AttachStripeSession(i, x)
           \/ CancelExpiredCheckout(i, x)
           \/ Fulfill(i, x)
  BY DEF CheckoutStep
<1>1. ASSUME NEW c \in Carts, NEW t \in Terms, CreateCheckout(c, i, t) PROVE Inv'
  <2>1. cartLines[c] \in Lines
    BY DEF Inv, TypeOK
  <2> QED
    BY <1>1, <2>1, InsertKeepsInv DEF CreateCheckout, CartReady
<1>2. ASSUME NEW s \in Skus, NEW t \in Terms, CreateSubscriptionCheckout(s, i, t)
      PROVE  Inv'
  <2>1. [EmptyLines EXCEPT ![s] = 1] \in Lines
    BY DEF EmptyLines, Lines
  <2> QED
    BY <1>2, <2>1, InsertKeepsInv DEF CreateSubscriptionCheckout
<1>3. ASSUME i \in Pending, DeleteCheckouts({i}),
             UNCHANGED <<forSale, cartStatus, cartLines, sales>>
      PROVE  Inv'
  <2>1. AbandonCarts({})
    BY <1>3 DEF AbandonCarts, Inv, TypeOK
  <2> QED
    BY <1>3, <2>1, DeleteKeepsInv
<1>4. ASSUME CancelPendingCheckout(i) PROVE Inv'
  BY <1>3, <1>4 DEF CancelPendingCheckout, CanCancel
<1>5. ASSUME NEW x \in Sessions, CancelExpiredCheckout(i, x) PROVE Inv'
  BY <1>3, <1>5 DEF CancelExpiredCheckout, CanCancel
<1> QED
  BY <1>1, <1>2, <1>4, <1>5, AttachKeepsInv, FulfillKeepsInv

\* Removing an account preserves the invariant.
LEMMA AccountStepKeepsInv == ASSUME Inv, AccountStep PROVE Inv'
<1>1. ASSUME NEW C \in SUBSET Carts, AbandonOpenCartsForUser(C) PROVE Inv'
  <2>1. /\ cartStatus' \in [Carts -> {"open", "checked_out", "abandoned"}]
        /\ \A c \in Carts : cartStatus'[c] = "checked_out"
                              <=> cartStatus[c] = "checked_out"
        /\ UNCHANGED <<inventory, forSale, cartLines, checkouts, sales>>
    BY <1>1 DEF AbandonOpenCartsForUser, AbandonCarts, OpenCarts, Inv, TypeOK
  <2> QED
    BY <2>1 DEF Inv, TypeOK, OneCheckoutPerCart, OneCheckoutPerSession,
       SoldIffFulfilled, CartSoldOnce, SnapshotMatchesCart, CheckoutsOfCart,
       CheckoutsOfSession, Pending
<1>2. ASSUME NEW C \in SUBSET Carts, NEW D \in SUBSET CheckoutIds,
             FinalizeUserDeletion(C, D)
      PROVE  Inv'
  BY <1>2, DeleteKeepsInv DEF FinalizeUserDeletion, Unattached
<1> QED
  BY <1>1, <1>2 DEF AccountStep

\* Inv is inductive.
LEMMA NextKeepsInv == Inv /\ [Next]_storeVars => Inv'
<1> SUFFICES ASSUME Inv, [Next]_storeVars PROVE Inv'
  OBVIOUS
<1>1. CASE UNCHANGED storeVars
  BY <1>1 DEF storeVars, Inv, TypeOK, OneCheckoutPerCart, OneCheckoutPerSession,
     SoldIffFulfilled, CartSoldOnce, SnapshotMatchesCart, CheckoutsOfCart,
     CheckoutsOfSession, Pending
<1> QED
  BY <1>1, CartStepKeepsInv, CatalogStepKeepsInv, CheckoutStepKeepsInv,
     AccountStepKeepsInv DEF Next

\* The whole invariant holds of the store, whoever calls it in any order.
THEOREM StoreInvariant == Spec => []Inv
BY InitInv, NextKeepsInv, PTL DEF Spec

\* ensureCartMutable and the checks of CreateCheckout never let a cart into a
\* second checkout.
THEOREM CartsHaveOneCheckout == Spec => []OneCheckoutPerCart
<1>1. Inv => OneCheckoutPerCart
  BY DEF Inv
<1> QED
  BY <1>1, StoreInvariant, PTL

\* AttachStripeSession never gives one Stripe session to two checkouts.
THEOREM SessionsHaveOneCheckout == Spec => []OneCheckoutPerSession
<1>1. Inv => OneCheckoutPerSession
  BY DEF Inv
<1> QED
  BY <1>1, StoreInvariant, PTL

\* Every value keeps its type: no inventory count falls below zero, no row
\* holds a half-written checkout.
THEOREM StoreTypeOK == Spec => []TypeOK
<1>1. Inv => TypeOK
  BY DEF Inv
<1> QED
  BY <1>1, StoreInvariant, PTL

\* Orders and subscriptions record exactly the fulfilled checkouts.
THEOREM SalesAreFulfilledCheckouts == Spec => []SoldIffFulfilled
<1>1. Inv => SoldIffFulfilled
  BY DEF Inv
<1> QED
  BY <1>1, StoreInvariant, PTL

\* No cart is ever sold twice.
THEOREM CartsSoldOnce == Spec => []CartSoldOnce
<1>1. Inv => CartSoldOnce
  BY DEF Inv
<1> QED
  BY <1>1, StoreInvariant, PTL

\* The cart a customer sees is the cart a checkout charges for.
THEOREM SnapshotsMatchCarts == Spec => []SnapshotMatchesCart
<1>1. Inv => SnapshotMatchesCart
  BY DEF Inv
<1> QED
  BY <1>1, StoreInvariant, PTL

-----------------------------------------------------------------------------

\* No step changes or deletes a sale or the checkout it records.
LEMMA StepKeepsSales ==
  ASSUME Inv, [Next]_storeVars, NEW i \in DOMAIN sales
  PROVE  /\ i \in DOMAIN sales' /\ sales'[i] = sales[i]
         /\ i \in DOMAIN checkouts' /\ checkouts'[i] = checkouts[i]
<1>1. i \in DOMAIN checkouts /\ i \notin Pending
  BY DEF Inv, SoldIffFulfilled
<1>2. CASE UNCHANGED <<checkouts, sales>>
  BY <1>1, <1>2
<1>3. ASSUME NEW j \in CheckoutIds, NEW c \in Carts \cup {NoCart},
             NEW lines, NEW t, InsertCheckout(j, c, lines, t)
      PROVE  i \in DOMAIN checkouts' /\ checkouts'[i] = checkouts[i] /\ sales' = sales
  BY <1>1, <1>3, BoundAssumption DEF InsertCheckout, IsNextId, CheckoutIds
<1>4. ASSUME NEW D \in SUBSET Pending, DeleteCheckouts(D)
      PROVE  i \in DOMAIN checkouts' /\ checkouts'[i] = checkouts[i]
  BY <1>1, <1>4 DEF DeleteCheckouts
<1>5. ASSUME NEW j \in CheckoutIds, NEW x \in Sessions, AttachStripeSession(j, x)
      PROVE  i \in DOMAIN checkouts' /\ checkouts'[i] = checkouts[i] /\ sales' = sales
  BY <1>1, <1>5 DEF AttachStripeSession, CanAttach, Inv, TypeOK
<1>6. ASSUME NEW j \in CheckoutIds, NEW x \in Sessions, Fulfill(j, x)
      PROVE  /\ i \in DOMAIN checkouts' /\ checkouts'[i] = checkouts[i]
             /\ i \in DOMAIN sales' /\ sales'[i] = sales[i]
  <2>1. i # j
    BY <1>1, <1>6 DEF Fulfill, CanFulfill
  <2> QED
    BY <1>1, <1>6, <2>1 DEF Fulfill, Inv, TypeOK
<1>7. CASE CartStep
  BY <1>2, <1>7 DEF CartStep, AddCartItem, UpdateCartItem, AddCartSelection,
     RemoveCartItem
<1>8. CASE CatalogStep
  BY <1>2, <1>8 DEF CatalogStep, UpdateSKU, SetSKUActive, SetProductActive
<1>9. CASE AccountStep
  BY <1>2, <1>4, <1>9 DEF AccountStep, AbandonOpenCartsForUser,
     FinalizeUserDeletion, Unattached
<1>10. CASE CheckoutStep
  <2>1. ASSUME NEW j \in CheckoutIds,
               CancelPendingCheckout(j) \/ \E x \in Sessions : CancelExpiredCheckout(j, x)
        PROVE  i \in DOMAIN checkouts' /\ checkouts'[i] = checkouts[i] /\ sales' = sales
    BY <1>4, <2>1 DEF CancelPendingCheckout, CancelExpiredCheckout, CanCancel
  <2> QED
    BY <1>3, <1>5, <1>6, <1>10, <2>1
    DEF CheckoutStep, CreateCheckout, CreateSubscriptionCheckout
<1>11. CASE UNCHANGED storeVars
  BY <1>2, <1>11 DEF storeVars
<1> QED
  BY <1>7, <1>8, <1>9, <1>10, <1>11 DEF Next

\* A paid order cannot be undone by anything that happens later.
THEOREM SalesAreFinal == Spec => SaleIsFinal
<1>1. Inv /\ [Next]_storeVars =>
        [\A i \in DOMAIN sales :
           /\ i \in DOMAIN sales' /\ sales'[i] = sales[i]
           /\ i \in DOMAIN checkouts' /\ checkouts'[i] = checkouts[i]]_storeVars
  BY StepKeepsSales
<1> QED
  BY <1>1, StoreInvariant, PTL DEF Spec, SaleIsFinal

-----------------------------------------------------------------------------

\* What a checkout is, but for its status.
Snapshot(row) == [row EXCEPT !.status = "pending"]

\* No step gives a checkout that carries a session another session or another
\* snapshot while it lives.
LEMMA StepKeepsAttached ==
  ASSUME Inv, [Next]_storeVars, NEW i \in DOMAIN checkouts, i \in DOMAIN checkouts',
         checkouts[i].session # NoSession
  PROVE  Snapshot(checkouts'[i]) = Snapshot(checkouts[i])
<1>1. checkouts \in [DOMAIN checkouts -> Checkout]
  BY DEF Inv, TypeOK
<1>2. CASE checkouts' = checkouts
  BY <1>2
<1>3. ASSUME NEW j \in CheckoutIds, NEW c, NEW lines, NEW t, InsertCheckout(j, c, lines, t)
      PROVE  checkouts'[i] = checkouts[i]
  BY <1>3, BoundAssumption DEF InsertCheckout, IsNextId, CheckoutIds
<1>4. ASSUME NEW D, DeleteCheckouts(D) PROVE checkouts'[i] = checkouts[i]
  BY <1>4 DEF DeleteCheckouts
<1>5. ASSUME NEW j \in CheckoutIds, NEW x \in Sessions, AttachStripeSession(j, x)
      PROVE  Snapshot(checkouts'[i]) = Snapshot(checkouts[i])
  <2>1. CASE i # j
    BY <1>1, <1>5, <2>1 DEF AttachStripeSession
  <2>2. CASE i = j
    <3>1. checkouts[i].session = x
      BY <1>5, <2>2 DEF AttachStripeSession, CanAttach
    <3>2. checkouts'[i] = checkouts[i]
      BY <1>1, <1>5, <2>2, <3>1 DEF AttachStripeSession, Checkout
    <3> QED
      BY <3>2
  <2> QED
    BY <2>1, <2>2
<1>6. ASSUME NEW j \in CheckoutIds, NEW x \in Sessions, Fulfill(j, x)
      PROVE  Snapshot(checkouts'[i]) = Snapshot(checkouts[i])
  BY <1>1, <1>6 DEF Fulfill, Snapshot, Checkout
<1>7. CASE CartStep
  BY <1>2, <1>7 DEF CartStep, AddCartItem, UpdateCartItem, AddCartSelection,
     RemoveCartItem
<1>8. CASE CatalogStep
  BY <1>2, <1>8 DEF CatalogStep, UpdateSKU, SetSKUActive, SetProductActive
<1>9. CASE AccountStep
  BY <1>2, <1>4, <1>9 DEF AccountStep, AbandonOpenCartsForUser, FinalizeUserDeletion
<1>10. CASE CheckoutStep
  <2>1. ASSUME NEW j \in CheckoutIds,
               CancelPendingCheckout(j) \/ \E x \in Sessions : CancelExpiredCheckout(j, x)
        PROVE  checkouts'[i] = checkouts[i]
    BY <1>4, <2>1 DEF CancelPendingCheckout, CancelExpiredCheckout
  <2> QED
    BY <1>3, <1>5, <1>6, <1>10, <2>1
    DEF CheckoutStep, CreateCheckout, CreateSubscriptionCheckout
<1>11. CASE UNCHANGED storeVars
  BY <1>2, <1>11 DEF storeVars
<1> QED
  BY <1>7, <1>8, <1>9, <1>10, <1>11 DEF Next

\* What a customer pays for cannot be swapped while the session is attached.
THEOREM AttachedSnapshotsFixed == Spec => AttachedSnapshotFixed
<1>1. Inv /\ [Next]_storeVars =>
        [\A i \in DOMAIN checkouts \cap DOMAIN checkouts' :
           checkouts[i].session # NoSession =>
             [checkouts'[i] EXCEPT !.status = "pending"]
               = [checkouts[i] EXCEPT !.status = "pending"]]_storeVars
  BY StepKeepsAttached DEF Snapshot
<1> QED
  BY <1>1, StoreInvariant, PTL DEF Spec, AttachedSnapshotFixed

-----------------------------------------------------------------------------

\* Taking units off the shelf for a new checkout conserves them.
LEMMA InsertConservesStock ==
  ASSUME Inv, NEW i \in CheckoutIds, NEW c \in Carts \cup {NoCart},
         NEW lines \in Lines, NEW t \in Terms, InsertCheckout(i, c, lines, t),
         NEW s \in Skus, inventory[s] # Unlimited
  PROVE  StockOf(s)' = StockOf(s)
<1> DEFINE k == lines[s]
           n == [j \in DOMAIN checkouts' |-> checkouts'[j].reserved[s]]
           old == [j \in DOMAIN checkouts |-> checkouts[j].reserved[s]]
           new == [j \in {i} |-> k]
<1>1. /\ DOMAIN checkouts' = DOMAIN checkouts \cup {i}
      /\ i \notin DOMAIN checkouts
      /\ checkouts'[i].reserved = Reserve(lines)
      /\ \A j \in DOMAIN checkouts : checkouts'[j] = checkouts[j]
      /\ inventory' = TakeStock(Reserve(lines))
  BY BoundAssumption DEF InsertCheckout, IsNextId, CheckoutIds
<1>2. /\ k \in Nat
      /\ Reserve(lines)[s] = k
      /\ inventory[s] \in Nat
      /\ inventory'[s] = inventory[s] - k
  BY <1>1 DEF Reserve, TakeStock, Lines, Inv, TypeOK, Inventory
<1>3. /\ DOMAIN checkouts' \in SUBSET CheckoutIds
      /\ {i} \in SUBSET DOMAIN checkouts'
      /\ DOMAIN checkouts' \ {i} = DOMAIN checkouts
  BY <1>1 DEF Inv, TypeOK
<1>4. IsFiniteSet(DOMAIN checkouts')
  <2>1. IsFiniteSet(CheckoutIds)
    BY FS_Interval, BoundAssumption DEF CheckoutIds
  <2> QED
    BY <2>1, <1>3, FS_Subset
<1>5. \A j \in DOMAIN checkouts : checkouts[j].reserved[s] \in Nat
  BY DEF Inv, TypeOK, Checkout, Lines
<1>6. n \in [DOMAIN checkouts' -> Nat]
  BY <1>1, <1>2, <1>5
<1>7. /\ new = [j \in {i} |-> n[j]]
      /\ old = [j \in DOMAIN checkouts' \ {i} |-> n[j]]
  BY <1>1, <1>2, <1>3
<1> HIDE DEF n, old, new
<1>8. Total(n) = Total(new) + Total(old)
  BY <1>3, <1>4, <1>6, <1>7, TotalSplit
<1>9. Total(new) = k
  BY <1>2, TotalOne DEF new
<1>10. Total(old) \in Nat
  <2>1. ReservedBy(DOMAIN checkouts, s) \in Nat
    BY ReservedSplit DEF Inv
  <2> QED
    BY <2>1 DEF ReservedBy, old
<1>11. /\ StockOf(s)' = inventory'[s] + Total(n)
       /\ StockOf(s) = inventory[s] + Total(old)
  BY DEF StockOf, ReservedBy, n, old
<1> QED
  BY <1>2, <1>8, <1>9, <1>10, <1>11

\* Giving back what the deleted rows reserved conserves them.
LEMMA DeleteConservesStock ==
  ASSUME Inv, NEW D \in SUBSET DOMAIN checkouts, DeleteCheckouts(D),
         NEW s \in Skus, inventory[s] # Unlimited
  PROVE  StockOf(s)' = StockOf(s)
<1>1. inventory[s] \in Nat /\ inventory'[s] = inventory[s] + ReservedBy(D, s)
  BY DEF DeleteCheckouts, ReturnStock, Inv, TypeOK, Inventory
<1>2. /\ ReservedBy(D, s) \in Nat
      /\ ReservedBy(DOMAIN checkouts \ D, s) \in Nat
      /\ ReservedBy(DOMAIN checkouts, s) =
           ReservedBy(D, s) + ReservedBy(DOMAIN checkouts \ D, s)
  <2>1. DOMAIN checkouts \ D \in SUBSET DOMAIN checkouts
    OBVIOUS
  <2> QED
    BY <2>1, ReservedSplit DEF Inv
<1>3. ReservedBy(DOMAIN checkouts, s)' = ReservedBy(DOMAIN checkouts \ D, s)
  <2>1. [j \in DOMAIN checkouts' |-> checkouts'[j].reserved[s]]
          = [j \in DOMAIN checkouts \ D |-> checkouts[j].reserved[s]]
    BY DEF DeleteCheckouts
  <2> QED
    BY <2>1 DEF ReservedBy
<1> QED
  BY <1>1, <1>2, <1>3 DEF StockOf

\* No step but an administrator's edit of the count makes or loses a unit of
\* a SKU that is limited before and after it.
LEMMA StepConservesStock ==
  ASSUME Inv, Next, NEW s \in Skus,
         inventory[s] # Unlimited, inventory'[s] # Unlimited,
         ~\E n \in Restocks, active \in BOOLEAN : UpdateSKU(s, n, active)
  PROVE  StockOf(s)' = StockOf(s)
<1>1. ASSUME inventory'[s] = inventory[s], DOMAIN checkouts' = DOMAIN checkouts,
             \A i \in DOMAIN checkouts : checkouts'[i].reserved = checkouts[i].reserved
      PROVE  StockOf(s)' = StockOf(s)
  <2>1. [j \in DOMAIN checkouts' |-> checkouts'[j].reserved[s]]
          = [j \in DOMAIN checkouts |-> checkouts[j].reserved[s]]
    BY <1>1
  <2>2. ReservedBy(DOMAIN checkouts, s)' = ReservedBy(DOMAIN checkouts, s)
    BY <2>1 DEF ReservedBy
  <2> QED
    BY <1>1, <2>2 DEF StockOf
<1>2. CASE CartStep
  BY <1>1, <1>2 DEF CartStep, AddCartItem, UpdateCartItem, AddCartSelection,
     RemoveCartItem
<1>3. CASE CatalogStep
  <2>1. checkouts' = checkouts /\ inventory'[s] = inventory[s]
    BY <1>3, CatalogAssumption
    DEF CatalogStep, UpdateSKU, SetSKUActive, SetProductActive, Inv, TypeOK
  <2> QED
    BY <1>1, <2>1
<1>4. CASE CheckoutStep
  <2>1. PICK i \in CheckoutIds :
          \/ \E c \in Carts, t \in Terms : CreateCheckout(c, i, t)
          \/ \E p \in Skus, t \in Terms : CreateSubscriptionCheckout(p, i, t)
          \/ CancelPendingCheckout(i)
          \/ \E x \in Sessions :
               \/ AttachStripeSession(i, x)
               \/ CancelExpiredCheckout(i, x)
               \/ Fulfill(i, x)
    BY <1>4 DEF CheckoutStep
  <2>2. ASSUME NEW c \in Carts, NEW t \in Terms, CreateCheckout(c, i, t)
        PROVE  StockOf(s)' = StockOf(s)
    <3>1. cartLines[c] \in Lines
      BY DEF Inv, TypeOK
    <3> QED
      BY <2>2, <3>1, InsertConservesStock DEF CreateCheckout
  <2>3. ASSUME NEW p \in Skus, NEW t \in Terms, CreateSubscriptionCheckout(p, i, t)
        PROVE  StockOf(s)' = StockOf(s)
    <3>1. [EmptyLines EXCEPT ![p] = 1] \in Lines
      BY DEF EmptyLines, Lines
    <3> QED
      BY <2>3, <3>1, InsertConservesStock DEF CreateSubscriptionCheckout
  <2>4. ASSUME CancelPendingCheckout(i) \/ \E x \in Sessions : CancelExpiredCheckout(i, x)
        PROVE  StockOf(s)' = StockOf(s)
    BY <2>4, DeleteConservesStock
    DEF CancelPendingCheckout, CancelExpiredCheckout, CanCancel, Pending
  <2>5. ASSUME NEW x \in Sessions, AttachStripeSession(i, x) \/ Fulfill(i, x)
        PROVE  StockOf(s)' = StockOf(s)
    BY <1>1, <2>5 DEF AttachStripeSession, Fulfill, Inv, TypeOK, Checkout
  <2> QED
    BY <2>1, <2>2, <2>3, <2>4, <2>5
<1>5. CASE AccountStep
  <2>1. ASSUME NEW C \in SUBSET Carts, AbandonOpenCartsForUser(C)
        PROVE  StockOf(s)' = StockOf(s)
    BY <1>1, <2>1 DEF AbandonOpenCartsForUser
  <2>2. ASSUME NEW C \in SUBSET Carts, NEW D \in SUBSET CheckoutIds,
               FinalizeUserDeletion(C, D)
        PROVE  StockOf(s)' = StockOf(s)
    BY <2>2, DeleteConservesStock DEF FinalizeUserDeletion, Unattached, Pending
  <2> QED
    BY <1>5, <2>1, <2>2 DEF AccountStep
<1> QED
  BY <1>2, <1>3, <1>4, <1>5 DEF Next

\* No unit is lost, released twice or sold twice, however reservations,
\* cancellations, sweeps, sales and account removals interleave.
THEOREM StockIsConserved == Spec => StockConserved
<1>1. Inv /\ [Next]_storeVars =>
        [\A s \in Skus :
           \/ Unlimited \in {inventory[s], inventory'[s]}
           \/ \E n \in Restocks, active \in BOOLEAN : UpdateSKU(s, n, active)
           \/ StockOf(s)' = StockOf(s)]_storeVars
  BY StepConservesStock
<1> QED
  BY <1>1, StoreInvariant, PTL DEF Spec, StockConserved

-----------------------------------------------------------------------------
(* The store as a shop.  The abstract step is chosen by what the concrete  *)
(* one does to the checkouts: it makes one, deletes some, sells one, or    *)
(* leaves deals and inventory alone.                                       *)

LEMMA HeldFacts ==
  /\ DOMAIN HeldDeals = Pending
  /\ \A i \in Pending :
       HeldDeals[i] = [basket |-> checkouts[i].cart, terms |-> checkouts[i].terms,
                       lines |-> checkouts[i].lines, units |-> checkouts[i].reserved]
  BY DEF HeldDeals, DealOf

LEMMA SoldFacts ==
  /\ DOMAIN SoldDeals = DOMAIN sales
  /\ \A i \in DOMAIN sales :
       SoldDeals[i] = [basket |-> checkouts[i].cart, terms |-> sales[i].terms,
                       lines |-> sales[i].lines, units |-> checkouts[i].reserved]
  BY DEF SoldDeals, DealOf

\* Rows that keep what a deal is made of leave the deals alone.
LEMMA SameDeals ==
  ASSUME UNCHANGED sales, DOMAIN sales \subseteq DOMAIN checkouts, Pending' = Pending,
         \A i \in DOMAIN checkouts :
           /\ checkouts'[i].cart = checkouts[i].cart /\ checkouts'[i].terms = checkouts[i].terms
           /\ checkouts'[i].lines = checkouts[i].lines
           /\ checkouts'[i].reserved = checkouts[i].reserved
  PROVE  UNCHANGED <<HeldDeals, SoldDeals>>
  <1>1. HeldDeals' = HeldDeals
    <2>1. \A i \in Pending : i \in DOMAIN checkouts
      BY DEF Pending
    <2> QED
      BY <2>1 DEF HeldDeals, DealOf
  <1>2. SoldDeals' = SoldDeals
    BY DEF SoldDeals, DealOf
  <1> QED
    BY <1>1, <1>2

LEMMA InitDeals == Init => AsShop!ShopInit
  <1> SUFFICES ASSUME Init PROVE AsShop!ShopInit
    OBVIOUS
  <1>1. Pending = {} /\ DOMAIN sales = {}
    BY DEF Init, Pending
  <1>2. HeldDeals = [i \in {} |-> 0]
    BY <1>1 DEF HeldDeals
  <1>3. SoldDeals = [i \in {} |-> 0]
    BY <1>1 DEF SoldDeals
  <1> QED
    BY <1>2, <1>3 DEF Init, AsShop!ShopInit

-----------------------------------------------------------------------------
(* Each kind of step.                                                      *)

LEMMA QuietShop ==
  ASSUME Inv, UNCHANGED <<inventory, checkouts, sales>>
  PROVE  UNCHANGED AsShop!shopVars
  <1>1. Pending' = Pending /\ DOMAIN sales \subseteq DOMAIN checkouts
    BY DEF Pending, Inv, SoldIffFulfilled
  <1> QED
    BY <1>1, SameDeals DEF AsShop!shopVars

LEMMA CountShop ==
  ASSUME Inv, NEW s \in Skus, NEW n \in Inventory,
         inventory' = [inventory EXCEPT ![s] = n], UNCHANGED <<checkouts, sales>>
  PROVE  AsShop!ShopNext
  <1>1. inventory'[s] = n
    BY DEF Inv, TypeOK
  <1>2. Pending' = Pending /\ DOMAIN sales \subseteq DOMAIN checkouts
    BY DEF Pending, Inv, SoldIffFulfilled
  <1>3. UNCHANGED <<HeldDeals, SoldDeals>>
    BY <1>2, SameDeals
  <1>4. AsShop!Count(s)
    BY <1>1, <1>3 DEF AsShop!Count, Inventory
  <1> QED
    BY <1>4 DEF AsShop!ShopNext

LEMMA HoldShop ==
  ASSUME Inv, NEW i \in CheckoutIds, NEW t \in Terms,
         NEW c \in Carts \cup {NoCart}, NEW lines \in Lines,
         InsertCheckout(i, c, lines, t),
         c # NoCart => CheckoutsOfCart(c) = {}
  PROVE  AsShop!ShopNext
  <1> DEFINE row == [status |-> "pending", cart |-> c, session |-> NoSession,
                     terms |-> t, lines |-> lines, reserved |-> Reserve(lines)]
             deal == [basket |-> c, terms |-> t, lines |-> lines, units |-> Reserve(lines)]
  <1>1. /\ i \notin DOMAIN checkouts
        /\ DOMAIN checkouts' = DOMAIN checkouts \cup {i}
        /\ checkouts'[i] = row
        /\ \A j \in DOMAIN checkouts : checkouts'[j] = checkouts[j]
        /\ inventory' = TakeStock(Reserve(lines))
        /\ UNCHANGED sales
    BY BoundAssumption DEF InsertCheckout, IsNextId, CheckoutIds
  <1>2. Pending' = Pending \cup {i} /\ i \notin Pending /\ i \notin DOMAIN sales
    BY <1>1 DEF Pending, Inv, SoldIffFulfilled
  <1>3. deal \in AsShop!Deal
    <2>1. Reserve(lines) \in Lines
      BY TakeStockType DEF Inv, InsertCheckout
    <2> QED
      BY <2>1 DEF AsShop!Deal, Lines
  <1>4. HeldDeals' = [j \in DOMAIN HeldDeals \cup {i} |-> IF j = i THEN deal ELSE HeldDeals[j]]
    <2>1. \A j \in Pending : j \in DOMAIN checkouts /\ j # i
      BY <1>1 DEF Pending
    <2> QED
      BY <1>1, <1>2, <2>1, HeldFacts DEF HeldDeals, DealOf
  <1>5. i \in DOMAIN HeldDeals' /\ HeldDeals'[i] = deal
    BY <1>4
  <1>6. SoldDeals' = SoldDeals
    BY <1>1 DEF SoldDeals, DealOf, Inv, SoldIffFulfilled
  <1>7. c = NoCart \/ c \notin AsShop!Taken
    <2> SUFFICES ASSUME c # NoCart, c \in AsShop!Taken PROVE FALSE
      OBVIOUS
    <2>1. \/ \E j \in Pending : HeldDeals[j].basket = c
          \/ \E j \in DOMAIN sales : SoldDeals[j].basket = c
      BY HeldFacts, SoldFacts DEF AsShop!Taken
    <2>2. \E j \in DOMAIN checkouts : checkouts[j].cart = c
      <3>1. Pending \subseteq DOMAIN checkouts /\ DOMAIN sales \subseteq DOMAIN checkouts
        BY DEF Pending, Inv, SoldIffFulfilled
      <3>2. /\ \A j \in Pending : HeldDeals[j].basket = checkouts[j].cart
            /\ \A j \in DOMAIN sales : SoldDeals[j].basket = checkouts[j].cart
        BY HeldFacts, SoldFacts
      <3> QED
        BY <2>1, <3>1, <3>2
    <2> QED
      BY <2>2 DEF CheckoutsOfCart
  <1>8. /\ Reserve(lines) = AsShop!OffTheShelf(lines)
        /\ \A s \in Skus : inventory[s] # Unlimited => lines[s] <= inventory[s]
    BY DEF Reserve, AsShop!OffTheShelf, InsertCheckout, Covers
  <1>9. inventory' = [s \in Skus |-> IF inventory[s] = Unlimited THEN Unlimited
                                     ELSE inventory[s] - deal.units[s]]
    BY <1>1 DEF TakeStock
  <1> HIDE DEF row
  <1>10. AsShop!Hold(i, deal)
    BY <1>2, <1>3, <1>4, <1>6, <1>7, <1>8, <1>9, HeldFacts, SoldFacts DEF AsShop!Hold
  <1> QED
    BY <1>5, <1>10 DEF AsShop!ShopNext

LEMMA ReleaseShop ==
  ASSUME Inv, NEW D \in SUBSET Pending, DeleteCheckouts(D), UNCHANGED sales
  PROVE  AsShop!ShopNext
  <1>1. /\ DOMAIN checkouts' = DOMAIN checkouts \ D
        /\ \A j \in DOMAIN checkouts' : checkouts'[j] = checkouts[j]
    BY DEF DeleteCheckouts
  <1>2. Pending' = Pending \ D
    BY <1>1 DEF Pending
  <1>3. HeldDeals' = [j \in DOMAIN HeldDeals \ D |-> HeldDeals[j]]
    <2>1. \A j \in Pending \ D : checkouts'[j] = checkouts[j]
      BY <1>1 DEF Pending
    <2> QED
      BY <1>2, <2>1, HeldFacts DEF HeldDeals, DealOf
  <1>4. SoldDeals' = SoldDeals
    <2>1. \A j \in DOMAIN sales : checkouts'[j] = checkouts[j]
      BY <1>1 DEF Pending, Inv, SoldIffFulfilled
    <2> QED
      BY <2>1 DEF SoldDeals, DealOf
  <1>5. \A s \in Skus : ReservedBy(D, s) = Total([j \in D |-> HeldDeals[j].units[s]])
    <2> TAKE s \in Skus
    <2>1. [j \in D |-> HeldDeals[j].units[s]] = [j \in D |-> checkouts[j].reserved[s]]
      BY HeldFacts
    <2> QED
      BY <2>1 DEF ReservedBy
  <1>6. inventory' = [s \in Skus |-> IF inventory[s] = Unlimited THEN Unlimited
                       ELSE inventory[s] + Total([j \in D |-> HeldDeals[j].units[s]])]
    BY <1>5 DEF DeleteCheckouts, ReturnStock
  <1>7. AsShop!Release(D)
    BY <1>3, <1>4, <1>6, HeldFacts DEF AsShop!Release
  <1>8. D \in SUBSET CheckoutIds
    BY DEF Pending, Inv, TypeOK
  <1> QED
    BY <1>7, <1>8 DEF AsShop!ShopNext

LEMMA AttachShop ==
  ASSUME Inv, NEW i \in CheckoutIds, NEW x \in Sessions, AttachStripeSession(i, x)
  PROVE  UNCHANGED AsShop!shopVars
  <1>1. /\ DOMAIN checkouts' = DOMAIN checkouts
        /\ \A j \in DOMAIN checkouts :
             /\ checkouts'[j].status = checkouts[j].status
             /\ checkouts'[j].cart = checkouts[j].cart /\ checkouts'[j].terms = checkouts[j].terms
             /\ checkouts'[j].lines = checkouts[j].lines
             /\ checkouts'[j].reserved = checkouts[j].reserved
    <2>1. \A j \in DOMAIN checkouts : checkouts[j] \in Checkout
      BY DEF Inv, TypeOK
    <2> QED
      BY <2>1 DEF AttachStripeSession, Checkout
  <1>2. Pending' = Pending /\ DOMAIN sales \subseteq DOMAIN checkouts
    BY <1>1 DEF Pending, Inv, SoldIffFulfilled
  <1>3. UNCHANGED <<inventory, sales>>
    BY DEF AttachStripeSession
  <1> QED
    BY <1>1, <1>2, <1>3, SameDeals DEF AsShop!shopVars

LEMMA SellShop ==
  ASSUME Inv, NEW i \in CheckoutIds, NEW x \in Sessions, Fulfill(i, x)
  PROVE  AsShop!ShopNext
  <1>1. /\ i \in Pending /\ i \in DOMAIN checkouts
        /\ checkouts' = [checkouts EXCEPT ![i].status = "fulfilled"]
        /\ DOMAIN sales' = DOMAIN sales \cup {i}
        /\ sales'[i].terms = checkouts[i].terms /\ sales'[i].lines = checkouts[i].lines
        /\ \A j \in DOMAIN sales : j # i => sales'[j] = sales[j]
        /\ UNCHANGED inventory
    BY DEF Fulfill, CanFulfill, Pending
  <1>2. /\ DOMAIN checkouts' = DOMAIN checkouts /\ checkouts'[i].status = "fulfilled"
        /\ \A j \in DOMAIN checkouts :
             /\ checkouts'[j].cart = checkouts[j].cart
             /\ checkouts'[j].reserved = checkouts[j].reserved
             /\ j # i => checkouts'[j] = checkouts[j]
    <2>1. \A j \in DOMAIN checkouts : checkouts[j] \in Checkout
      BY DEF Inv, TypeOK
    <2> QED
      BY <1>1, <2>1 DEF Checkout
  <1>3. Pending' = Pending \ {i}
    BY <1>2 DEF Pending
  <1>4. HeldDeals' = [j \in DOMAIN HeldDeals \ {i} |-> HeldDeals[j]]
    <2>1. \A j \in Pending \ {i} : checkouts'[j] = checkouts[j]
      BY <1>2 DEF Pending
    <2> QED
      BY <1>3, <2>1, HeldFacts DEF HeldDeals, DealOf
  <1>5. SoldDeals' = [j \in DOMAIN SoldDeals \cup {i} |-> IF j = i THEN HeldDeals[i] ELSE SoldDeals[j]]
    <2>1. \A j \in DOMAIN sales : j \in DOMAIN checkouts /\ j # i
      BY <1>1 DEF Inv, SoldIffFulfilled
    <2>2. \A j \in DOMAIN sales \cup {i} :
            [basket |-> checkouts'[j].cart, terms |-> sales'[j].terms,
             lines |-> sales'[j].lines, units |-> checkouts'[j].reserved]
              = IF j = i THEN HeldDeals[i] ELSE SoldDeals[j]
      BY <1>1, <1>2, <2>1, HeldFacts, SoldFacts
    <2> QED
      BY <1>1, <2>2, SoldFacts DEF SoldDeals, DealOf
  <1>6. AsShop!Sell(i)
    BY <1>1, <1>4, <1>5, HeldFacts DEF AsShop!Sell
  <1> QED
    BY <1>6 DEF AsShop!ShopNext

-----------------------------------------------------------------------------

LEMMA StepShop == Inv /\ [Next]_storeVars => [AsShop!ShopNext]_(AsShop!shopVars)
  <1> SUFFICES ASSUME Inv, [Next]_storeVars
               PROVE  AsShop!ShopNext \/ UNCHANGED AsShop!shopVars
    OBVIOUS
  <1>1. CASE UNCHANGED storeVars \/ CartStep
    <2>1. UNCHANGED <<inventory, checkouts, sales>>
      BY <1>1 DEF storeVars, CartStep, AddCartItem, UpdateCartItem, AddCartSelection, RemoveCartItem
    <2> QED
      BY <2>1, QuietShop
  <1>2. CASE CatalogStep
    <2>1. ASSUME NEW s \in EditedSkus, NEW active \in BOOLEAN, NEW n \in Restocks, UpdateSKU(s, n, active)
          PROVE  AsShop!ShopNext
      <3>1. s \in Skus /\ n \in Inventory
        BY CatalogAssumption
      <3> QED
        BY <2>1, <3>1, CountShop DEF UpdateSKU
    <2>2. ASSUME NEW s \in EditedSkus, NEW active \in BOOLEAN, SetSKUActive(s, active)
          PROVE  UNCHANGED AsShop!shopVars
      BY <2>2, QuietShop DEF SetSKUActive
    <2>3. ASSUME NEW s \in EditedSkus, NEW S \in SUBSET Skus, SetProductActive(ProductOf[s], S)
          PROVE  UNCHANGED AsShop!shopVars
      BY <2>3, QuietShop DEF SetProductActive
    <2> QED
      BY <1>2, <2>1, <2>2, <2>3 DEF CatalogStep
  <1>3. CASE CheckoutStep
    <2> PICK i \in CheckoutIds :
          \/ \E c \in Carts, t \in Terms : CreateCheckout(c, i, t)
          \/ \E s \in Skus, t \in Terms : CreateSubscriptionCheckout(s, i, t)
          \/ CancelPendingCheckout(i)
          \/ \E x \in Sessions :
               \/ AttachStripeSession(i, x)
               \/ CancelExpiredCheckout(i, x)
               \/ Fulfill(i, x)
      BY <1>3 DEF CheckoutStep
    <2>1. ASSUME NEW c \in Carts, NEW t \in Terms, CreateCheckout(c, i, t)
          PROVE  AsShop!ShopNext
      <3>1. cartLines[c] \in Lines
        BY DEF Inv, TypeOK
      <3> QED
        BY <2>1, <3>1, HoldShop DEF CreateCheckout, CartReady
    <2>2. ASSUME NEW s \in Skus, NEW t \in Terms, CreateSubscriptionCheckout(s, i, t)
          PROVE  AsShop!ShopNext
      <3>1. [EmptyLines EXCEPT ![s] = 1] \in Lines
        BY DEF EmptyLines, Lines
      <3> QED
        BY <2>2, <3>1, HoldShop DEF CreateSubscriptionCheckout
    <2>3. ASSUME i \in Pending, DeleteCheckouts({i}), UNCHANGED sales PROVE AsShop!ShopNext
      BY <2>3, ReleaseShop
    <2>4. ASSUME CancelPendingCheckout(i) PROVE AsShop!ShopNext
      BY <2>3, <2>4 DEF CancelPendingCheckout, CanCancel
    <2>5. ASSUME NEW x \in Sessions, CancelExpiredCheckout(i, x) PROVE AsShop!ShopNext
      BY <2>3, <2>5 DEF CancelExpiredCheckout, CanCancel
    <2> QED
      BY <2>1, <2>2, <2>4, <2>5, AttachShop, SellShop
  <1>4. CASE AccountStep
    <2>1. ASSUME NEW C \in SUBSET Carts, AbandonOpenCartsForUser(C)
          PROVE  UNCHANGED AsShop!shopVars
      BY <2>1, QuietShop DEF AbandonOpenCartsForUser
    <2>2. ASSUME NEW C \in SUBSET Carts, NEW D \in SUBSET CheckoutIds, FinalizeUserDeletion(C, D)
          PROVE  AsShop!ShopNext
      BY <2>2, ReleaseShop DEF FinalizeUserDeletion, Unattached
    <2> QED
      BY <1>4, <2>1, <2>2 DEF AccountStep
  <1> QED
    BY <1>1, <1>2, <1>3, <1>4 DEF Next

\* The commerce store implements the shop: seen through its deals, every
\* method makes, releases or sells one as a shop may, counts the goods anew,
\* or does nothing.
THEOREM StoreImplementsShop == Spec => ImplementsShop
  <1>1. Spec => AsShop!ShopInit /\ [][AsShop!ShopNext]_(AsShop!shopVars)
    BY InitDeals, StepShop, StoreInvariant, PTL DEF Spec
  <1> QED
    BY <1>1 DEF ImplementsShop, AsShop!ShopSpec
=============================================================================
