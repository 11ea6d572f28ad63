CONSTANTS
  Clients = {c1, c2}
  root = root
  leaf = leaf
  Instructions = {root, leaf}
  Root = root
  FirstDue = {root, leaf}
  Breakpointable = {leaf}
  MaxQueue = 1
SPECIFICATION FairPassageSpec
INVARIANTS
  RunningIsDriven
PROPERTIES
  BreakpointsStopRuns
  HaltTakesEffect
  DestructorReturns
CHECK_DEADLOCK FALSE
