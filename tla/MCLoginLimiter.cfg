CONSTANTS
  Clients = {c1, c2}
  Accounts = {a1, a2}
  Requests = {r1, r2}
  Slots = 1
  Limit = 2
  Block = 2
  Window = 3
  MaxTracked = 2
SPECIFICATION FairLimiterSpec
INVARIANTS
  LimiterTypeOK
  TableBounded
  SlotsAreHeld
  StreakBounded
PROPERTIES
  BlockEndsWithTime
  BlocksEnd
