CONSTANTS
  print = print
  plan = plan
  Unlimited = Unlimited
  NoCart = NoCart
  NoSession = NoSession
  NoCheckout = NoCheckout
  NoCharge = NoCharge
  Carts = {c1}
  Sessions = {x1, x2}
  Terms = {t1, t2}
  Requests = {r1}
  Workers = {w1, w2}
  Skus <- MCPrints
  Addons = {}
  Subscriptions = {}
  ProductOf <- MCPrintsOf
  InitialInventory <- MCOnePrint
  EditedSkus = {}
  Restocks = {}
  MaxCheckoutId = 2
  MaxQuantity = 1
  MaxFaults = 1
SPECIFICATION FairFlowSpec
INVARIANTS
  ChargedWhatSold
PROPERTIES
  PaidIsSold
  EndedIsReleased
