CONSTANTS
  Variables = {f, x}
  FileVariables = {f}
  Writers = {t1, t2}
  t1 = t1
  w1 = w1
  Waiters = {w1, w2}
  At <- MCAt
  Wants <- MCWants
  MaxWrites = 2
  MaxWaits = 2
  None = None
SPECIFICATION CallbackFairSpec
CHECK_DEADLOCK FALSE
INVARIANT ListenersAreAlive
PROPERTIES
  SleeperIsWoken
  CallsReturn
