CONSTANTS
  print = print
  frame = frame
  plan = plan
  Unlimited = Unlimited
  NoCart = NoCart
  NoSession = NoSession
  Carts = {c1, c2}
  Sessions = {x1, x2}
  Terms = {t1}
  Skus <- MCSkus
  Addons <- MCAddons
  Subscriptions <- MCSubscriptions
  ProductOf <- MCProductOf
  InitialInventory <- MCInitialInventory
  EditedSkus = {print}
  Restocks <- MCRestocks
  MaxCheckoutId = 2
  MaxQuantity = 2
SPECIFICATION Spec
SYMMETRY Symmetry
INVARIANTS
  TypeOK
  SoldIffFulfilled
  CartSoldOnce
  SnapshotMatchesCart
PROPERTIES
  StockConserved
  SaleIsFinal
  AttachedSnapshotFixed
  ImplementsShop
