CONSTANTS
  b1 = b1
  t1 = t1
  t2 = t2
  p1 = p1
  p2 = p2
  o1 = o1
  o2 = o2
  Browsers = {b1}
  Tabs = {t1, t2}
  Owner <- MCOwner
  Users = {u1}
  NoUser = NoUser
  Sources = {s1}
  Tokens = {1}
  Products = {p1, p2}
  Options = {o1, o2}
  NoOption = NoOption
  OptionsOf <- MCOptionsOf
  MaxCarts = 1
  MaxFaults = 1
SYMMETRY Symmetry
SPECIFICATION VisitsSpec
INVARIANT VisitsTypeOK
PROPERTIES ArrivalsAreCredited ShippingIsPaid
