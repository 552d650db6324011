CONSTANTS
  print = print
  plan = plan
  Unlimited = Unlimited
  NoCart = NoCart
  NoSession = NoSession
  NoCheckout = NoCheckout
  NoCharge = NoCharge
  Carts = {c1}
  Sessions = {x1}
  Terms = {t1}
  Requests = {r1}
  Workers = {w1}
  Removers = {d1, d2}
  Skus <- MCSkus
  Addons = {}
  Subscriptions = {plan}
  ProductOf <- MCProductOf
  InitialInventory <- MCInitialInventory
  EditedSkus = {}
  Restocks = {}
  MaxCheckoutId = 2
  MaxQuantity = 1
  Rounds = 2
  MaxFaults = 1
SPECIFICATION RemovalSpec
SYMMETRY Symmetry
INVARIANTS
  RemovalTypeOK
  DeletedOwesNothing
  CanceledIsEnded
