CONSTANTS
  Roots = {"twice", "user"}
  Instructions = {"twice", "fallback", "include", "user", "a", "b"}
  Kind <- MCKind
  Children <- MCChildren
  MaxCount <- MCMaxCount
  SuccessTh <- MCSuccessTh
  FailureTh <- MCFailureTh
  Selectors <- MCSelectors
  ForceSuccess = {}
SPECIFICATION Spec
INVARIANTS
  HaltReachesLeaves
