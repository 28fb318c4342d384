SPECIFICATION Spec
CONSTANTS
  Issues = {i1, i2}
  NoIssue = NoIssue
  NoState = NoState
  MaxRuns = 3
  Limits = {1, 2}
  MaxFailureRetries = 2
  MaxDeferrals = 1
  ActiveStates = {todo}
  HandoffStates = {}
  TerminalStates = {done}
  MaxMoves = 0
  MaxStartFaults = 0
  MaxCrashes = 1
  MaxStops = 0
  MaxEdits = 1
INVARIANTS WithinLimit
PROPERTIES StartsWithinLimit
SYMMETRY Symmetric
VIEW WithoutHistory
CHECK_DEADLOCK FALSE
