SPECIFICATION Spec
CONSTANTS
  Issues = {i1}
  NoIssue = NoIssue
  NoState = NoState
  MaxRuns = 2
  Limits = {1}
  MaxFailureRetries = 2
  MaxDeferrals = 1
  ActiveStates = {todo}
  HandoffStates = {}
  TerminalStates = {done}
  MaxMoves = 0
  MaxStartFaults = 0
  MaxCrashes = 0
  MaxStops = 1
  MaxEdits = 0
INVARIANTS NoSecondWorker
CHECK_DEADLOCK FALSE
