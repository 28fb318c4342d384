SPECIFICATION SideSpec
CONSTANTS
  MaxAgents = 2
  Folders = {x, y}
  MaxSessions = 2
  MaxRefreshes = 0
  MaxExchanges = 1
  MaxEdits = 1
  MaxBytes = 4
  MaxBodies = 2
  MaxJson = 5
  MaxFaults = 1
  AllBytes = {"a", "3", "c"}
  MaxLength = 7
  Definitions = {"a"}
  MaxTokens = 2
  MaxOrders = 2
  MaxMishaps = 1
INVARIANTS SetupHolds
PROPERTIES InventoryIsTrue PagesShowTheLog
CHECK_DEADLOCK FALSE
