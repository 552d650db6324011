CONSTANTS
  print = print
  plan = plan
  Unlimited = Unlimited
  NoCart = NoCart
  NoSession = NoSession
  NoCheckout = NoCheckout
  NoCharge = NoCharge
  Carts = {c1}
  Sessions = {x1}
  Terms = {t1}
  Requests = {r1}
  Workers = {w1}
  Removers = {d1}
  Skus <- MCSkus
  Addons = {}
  Subscriptions = {}
  ProductOf <- MCProductOf
  InitialInventory <- MCInitialInventory
  EditedSkus = {}
  Restocks = {}
  MaxCheckoutId = 1
  MaxQuantity = 1
  Rounds = 2
  MaxFaults = 0
SPECIFICATION FairRemovalSpec
PROPERTIES
  PaidIsSold
