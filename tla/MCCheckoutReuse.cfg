CONSTANTS
  print = print
  plan = plan
  Unlimited = Unlimited
  NoCart = NoCart
  NoSession = NoSession
  NoCheckout = NoCheckout
  NoCharge = NoCharge
  Carts = {c1}
  Sessions = {x1, x2}
  Terms = {t1, t2}
  Requests = {r1, r2}
  Workers = {w1}
  Skus <- MCSkus
  Addons = {}
  Subscriptions = {}
  ProductOf <- MCProductOf
  InitialInventory <- MCInitialInventory
  EditedSkus = {}
  Restocks = {}
  MaxCheckoutId = 2
  MaxQuantity = 1
  MaxFaults = 0
SPECIFICATION FlowSpec
SYMMETRY Symmetry
INVARIANTS
  ChargedWhatSold
