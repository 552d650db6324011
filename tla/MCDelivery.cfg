CONSTANTS
  Handlers = {h1, h2}
  Events = {e1, e2}
  NoEvent = NoEvent
  MaxFaults = 1
SPECIFICATION FairSpec
INVARIANTS
  DeliveryTypeOK
  AckedMeansDelivered
  DuplicatesCostFaults
PROPERTIES
  SentIsFinal
  EventsAreHandled
