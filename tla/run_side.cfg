SPECIFICATION Spec
CONSTANTS
  Saves = {s1, s2, s3}
  Migrations = {s3}
  RunEvents = {e1, e2}
  TrailLimit = 1
  Records = {r1, r2, r3}
  QueueLimit = 2
  BatchLimit = 2
  MaxAttempts = 2
  MaxLosses = 3
  MaxTurns = 3
  MaxMisses = 2
  MaxIdle = 2
  MaxSpawns = 4
  MaxRuns = 2
  Strict = TRUE
  NoSession = NoSession
  MaxSaves = 3
  MaxLines = 3
INVARIANTS TurnsAreFenced
PROPERTIES StoreIsDurable LogsSettle  
CHECK_DEADLOCK FALSE
