CONSTANTS
  Roots = {"sequence", "steps", "pair", "reactseq", "reactfall", "twice", "forever", "never", "for", "listen", "patient", "user"}
  Instructions = {"sequence", "force", "c", "steps", "pair", "follow", "reactseq", "reactfall", "async", "seek", "guard", "last", "goal", "other", "twice", "fallback", "include", "forever", "never", "for", "solo", "listen", "patient", "user", "a", "b"}
  Kind <- MCKind
  Children <- MCChildren
  MaxCount <- MCMaxCount
  SuccessTh <- MCSuccessTh
  FailureTh <- MCFailureTh
  Selectors <- MCSelectors
  MaxRuns = 3
  ForceSuccess = {"patient"}
SPECIFICATION RunCountFairSpec
INVARIANTS
  ExclusiveExecution
  RunningStandsAlone
  ResetTreeIsNew
  RepeatsExactly
PROPERTIES
  HaltEndsTick
  ResetEnds
