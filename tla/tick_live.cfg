SPECIFICATION AnyStartSpec
CONSTANTS
  Issues = {i1}
  NoIssue = NoIssue
  NoState = NoState
  MaxRuns = 2
  Limits = {1}
  MaxFailureRetries = 2
  MaxDeferrals = 3
  ActiveStates = {todo}
  HandoffStates = {}
  TerminalStates = {done}
  MaxMoves = 1
  MaxStartFaults = 1
  MaxCrashes = 0
  MaxStops = 0
  MaxEdits = 0
INVARIANTS ClaimsAreBacked ReconcileLeavesOne
PROPERTIES EndedRunsSettle RetriesFire
CHECK_DEADLOCK FALSE
