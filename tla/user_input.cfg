CONSTANTS
  i1 = i1
  i2 = i2
  i3 = i3
  Instruction <- All
  Orders <- Alone
  Kind <- KindOf
  ChildCount <- Children
  Answers <- Typed
  MaxRequests = 2
SPECIFICATION Spec
CHECK_DEADLOCK FALSE
INVARIANTS
  ActsOnOwnAnswer
  QuestionsHaveOwners
