SPECIFICATION Spec
CONSTANTS
  MaxAttempts = 3
  MaxLog = 6
  MaxParts = 2
  Window = 5
  KeepResults = 1
INVARIANTS OneAnswerIsShown InteractionsStayWhole NothingIsLost
CHECK_DEADLOCK FALSE
