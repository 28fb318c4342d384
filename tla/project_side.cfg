SPECIFICATION SideSpec
CONSTANTS
  Procs = {p1, p2, p3}
  NoProc = NoProc
  MaxInodes = 4
  MaxPauses = 1
  MaxCrashes = 1
  Names = {x}
  Nobody = Nobody
  Nothing = Nothing
  Broken = Broken
  MaxEdits = 2
  MaxRequests = 1
  MaxSessions = 2
  MaxSaid = 3
  MaxPending = 1
  Starts = 2
  Stoppers = {s1}
  MaxPid = 2
  Stranger = Stranger
  MaxKills = 1
INVARIANTS SingleOwner
PROPERTIES RenewsOnlyItsOwn SplitOwnersResolve PolicyHolds RecordsAreHeard
PROPERTIES CommandsTakeEffect
CHECK_DEADLOCK FALSE
