SPECIFICATION Spec
CONSTANTS
  Issues = {i1}
  NoIssue = NoIssue
  NoState = NoState
  MaxRuns = 3
  Limits = {1}
  MaxFailureRetries = 2
  MaxDeferrals = 2
  ActiveStates = {todo}
  HandoffStates = {review}
  TerminalStates = {done}
  MaxMoves = 1
  MaxStartFaults = 0
  MaxCrashes = 0
  MaxStops = 0
  MaxEdits = 0
INVARIANTS NoSecondWorker
PROPERTIES SuccessIsFinal BudgetHolds
CHECK_DEADLOCK FALSE
