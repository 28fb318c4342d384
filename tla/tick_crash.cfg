SPECIFICATION Spec
CONSTANTS
  Issues = {i1}
  NoIssue = NoIssue
  NoState = NoState
  MaxRuns = 2
  Limits = {1}
  MaxFailureRetries = 2
  MaxDeferrals = 1
  ActiveStates = {todo}
  HandoffStates = {}
  TerminalStates = {done}
  MaxMoves = 1
  MaxStartFaults = 0
  MaxCrashes = 1
  MaxStops = 1
  MaxEdits = 0
INVARIANTS AtMostOneActiveRun
PROPERTIES LeasesMoveForward ImplementsLifecycle
CHECK_DEADLOCK FALSE
