SPECIFICATION Spec
CONSTANTS
  Projects = {p1}
  MaxCommands = 2
  Capacity = 4
  MaxSessions = 2
  MaxPids = 1
  MaxFaults = 1
INVARIANTS EffectsAtMostOnce ExpiredNeverAct OutcomesAgree
PROPERTIES EffectsInOrder
CHECK_DEADLOCK FALSE
