CONSTANTS
  Roots = {"sequence", "choice", "parallel", "pair", "steps"}
  Instructions = {"sequence", "fallback", "include", "force", "choice", "inverter", "parallel", "pair", "steps", "follow", "a", "b", "c"}
  Kind <- MCKind
  Children <- MCChildren
  MaxCount <- MCMaxCount
  SuccessTh <- MCSuccessTh
  FailureTh <- MCFailureTh
  Selectors <- MCSelectors
  ForceSuccess = {}
SPECIFICATION AnnouncedSpec
INVARIANTS
  NothingUnannounced
  VerdictIsEarned
  HaltReachesLeaves
PROPERTIES
  NoWorkAfterHalt
