CONSTANTS
  Clients = {c1, c2}
  MaxQueue = 3
SPECIFICATION FairSpec
INVARIANTS
  NoLostWakeup
PROPERTIES
  ImplementsMailbox
  TerminateDelivered
