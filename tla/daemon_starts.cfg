SPECIFICATION BoundedSpec
CONSTANTS
  Starts = 3
  Stoppers = {s1}
  MaxPid = 2
  Nobody = Nobody
  Stranger = Stranger
  MaxKills = 1
INVARIANTS OneDaemonServes AlreadyStoppedIsTrue
PROPERTIES ExpectedStopIsExact StopFindsTheDaemon
CHECK_DEADLOCK FALSE
