SPECIFICATION SideSpec
CONSTANTS
  MaxIssues = 2
  Adapters = {"github", "unfiltered", "linear"}
  Dependent = 1
  Blocker = 2
  Urgent = {2}
  StateLimit = 1
  MaxEdits = 2
  MaxUpsets = 1
  MaxRewrites = 1
  MaxWizards = 1
  MaxWizardEdits = 1
  MaxWizardDeaths = 1
  MaxDoctors = 1
  MaxChanges = 1
  Projects = {p1, p2}
  MaxStarts = 3
  MaxAtOnce = 2
  MaxMishaps = 1
  MaxWorkers = 2
  MaxTicks = 1
  MaxSignals = 2
  MaxLaunches = 2
  MaxHalts = 1
  Daemon = daemon
  Worker = worker
  Polls = {poll}
  Moves = {move}
  Tools = {tool, tool2}
  Limit = 2
  Window = 3
  Soft = 1
  MaxWait = 2
  RetryBase = 1
  Attempts = 2
  BaseInterval = 1
  PollSize = 2
  MaxCalls = 3
  MaxTime = 4
  MaxFaults = 1
INVARIANTS StartsAreSound BudgetIsKept
PROPERTIES PollsAreSound
CHECK_DEADLOCK FALSE
