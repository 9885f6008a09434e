SPECIFICATION ServicesSpec
CONSTANTS
  Machines = {"fetch"}
  Commands = 2
  Reminding = {2}
  Attempts = 2
  HostMayDie = FALSE
  HostFaults = 2
  Job = {1, 2}
  DaySource = {"a", "b"}
  DayPost = {1, 2, 3}
  Author <- DayAuthors
  Parent <- DayParents
  LivePosts = {1}
  Scope <- DayScopes
  LiveOnly = {1}
  Refused = {}
  Retries = 1
  MaxGenerations = 2
  RequestFaults = 1
  Callers = {"daily", "recent"}
  Rescan = 1
  Hours = 3
  PageSize = 2
  Budget = 2
  Roster = 5
  Batch = 2
  OddPages = {}
  LastTick = 5
  FetchFaults = 1
INVARIANT CompleteWindow
CHECK_DEADLOCK FALSE
