SPECIFICATION SideSpec
CONSTANTS
  Roots = {a, b}
  FirstRoot = a
  MaxStarts = 3
  MaxMoves = 2
  MaxFaults = 1
  MaxEdits = 1
  MaxRuns = 1
  MaxRequests = 2
  Pass = pass
  Active = {todo, doing}
  Retryable = todo
  Others = {review}
  NoEpoch = NoEpoch
  Tries = 2
  MaxBoardMoves = 1
  MaxBoardEdits = 2
PROPERTIES CheckoutsAreKept FirstPopulationIsWhole IssueIsServed
CHECK_DEADLOCK FALSE
