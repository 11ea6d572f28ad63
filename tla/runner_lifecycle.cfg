CONSTANTS
  Clients = {c1, c2}
  root = root
  leaf = leaf
  Instructions = {root, leaf}
  Root = root
  FirstDue = {root, leaf}
  Breakpointable = {}
  MaxQueue = 2
SPECIFICATION OrderSpec
INVARIANTS
  TypeOK
  HaltedTreeHasOwner
PROPERTIES
  ImplementsLifecycle
  HaltStopsExecution
CHECK_DEADLOCK FALSE
