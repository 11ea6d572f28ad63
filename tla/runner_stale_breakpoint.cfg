CONSTANTS
  Clients = {c1}
  root = root
  leaf = leaf
  Instructions = {root, leaf}
  Root = root
  FirstDue = {root, leaf}
  Breakpointable = {leaf}
  MaxQueue = 2
SPECIFICATION Spec
PROPERTY
  FinishedOnlyLeftByReset
CHECK_DEADLOCK FALSE
