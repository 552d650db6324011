CONSTANTS
  print = print
  plan = plan
  Unlimited = Unlimited
  NoCart = NoCart
  NoSession = NoSession
  NoCheckout = NoCheckout
  NoCharge = NoCharge
  Carts = {c1}
  Sessions = {x1, x2}
  Terms = {t1}
  Requests = {r1, r2}
  Workers = {w1}
  Skus <- MCSkus
  Addons = {}
  Subscriptions = {}
  ProductOf <- MCProductOf
  InitialInventory <- MCOneEach
  EditedSkus = {}
  Restocks = {}
  MaxCheckoutId = 2
  MaxQuantity = 2
  MaxFaults = 1
SPECIFICATION FlowSpec
SYMMETRY Symmetry
INVARIANTS
  SaleOnlyIfPaid
  PayableSessionHasCheckout
  LearnedStatusHolds
PROPERTIES
  ImplementsStore
