CONSTANTS
  Main = "main"
  Included = {"tree", "proc"}
  Uses <- MCUses
  VariablesOf <- MCVariablesOf
  Identifier <- MCIdentifier
  None = None
  Fragile = {"proc", "y", "u", "v", "archive"}
  Workers = {w1, w2}
SYMMETRY WorkerSymmetry
SPECIFICATION Spec
INVARIANTS
  ReadyIsFresh
  ActionsBalanced
  ExecutesInSetupWorkspace
CHECK_DEADLOCK FALSE
