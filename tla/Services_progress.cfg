SPECIFICATION FairServices
CONSTANTS
  Machines = {"host", "request", "fetch"}
  Commands = 1
  Reminding = {1}
  Attempts = 2
  HostMayDie = FALSE
  HostFaults = 1
  Job = {1, 2}
  DaySource = {"a", "b"}
  DayPost = {1, 2}
  Author <- PairAuthors
  Parent <- PairParents
  LivePosts = {1}
  Scope <- DayScopes
  LiveOnly = {1}
  Refused = {}
  Retries = 1
  MaxGenerations = 2
  RequestFaults = 1
  Callers = {"daily"}
  Rescan = 1
  Hours = 3
  PageSize = 2
  Budget = 2
  Roster = 3
  Batch = 2
  OddPages = {"stray", "bare"}
  LastTick = 5
  FetchFaults = 1
PROPERTIES
  ServiceSettles RequestsEnd BacklogGathered
CHECK_DEADLOCK FALSE
