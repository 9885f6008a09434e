SPECIFICATION BooksSpec
CONSTANTS
  Machines = {"host", "request", "fetch", "scan", "posts", "digest", "summaries", "edits", "fusion", "captions", "segments", "desk", "asks", "watch", "feeds", "voice"}
  Posts <- TwoPosts
  Items = {"a", "b"}
  Carries <- CarriesTwo
  Bytes <- BytesOf
  SendFaults = 1
  Retiring = {2}
  Thirds = 4
  Parts = 2
  Revisions = 2
  Requests = 1
  FicFaults = 1
  Works = 6
  BatchSize = 4
  Models <- TwoModels
  Refuses <- Refusals
  Spare = 9
  GeminiFaults = 3
  EditDrafts = {"d"}
  Texts = {"t", "u"}
  Sessions = 2
  Rewrites = 2
  Presses = 5
  EditFaults = 1
  Told <- FourTold
  Configured <- FourTold
  Kin <- Alike
  Together <- SameMoment
  Shows <- MediaShown
  Album = 2
  MaxEvents = 1
  MaxSegments = 2
  MaxPrints = 2
  Deliveries = 2
  Captioned = {p, f, g}
  MetadataOnly = {}
  Persian = {p}
  ModelOrder <- TwoModels
  Keys = {"key"}
  CooldownTicks = 2
  LeaseTicks = 1
  GroupSize = 2
  Commands = 2
  Reminding = {2}
  Attempts = 2
  HostMayDie = FALSE
  HostFaults = 1
  Job = {1, 2}
  DaySource = {"a", "b"}
  DayPost = {1, 2, 3}
  Author <- DayAuthors
  Parent <- DayParents
  LivePosts = {1}
  Scope <- DayScopes
  LiveOnly = {1}
  Refused = {}
  Retries = 1
  MaxGenerations = 2
  RequestFaults = 1
  Callers = {"daily", "recent"}
  Rescan = 1
  Hours = 3
  PageSize = 2
  Budget = 2
  Roster = 5
  Batch = 2
  OddPages = {"stray", "bare"}
  LastTick = 4
  FetchFaults = 1
  Source = {s1, s2}
  MinInterval = 1
  Lag = 1
  Overlap = 1
  DegradedOverlap = 2
  Lookback = 4
  MaxTime = 5
  Voices = {1, 2, 3}
  Kind <- KindsTold
  Stories <- EitherStory
  Ways <- ToldWays
  Disagree <- LaterTwo
  OtherNumbers <- FirstAndLast
  Strained = {}
  SameSaying <- FirstTwo
  PartsOf <- DraftParts
  Brief = {1}
  Pictured = {1}
  Tellings = 2
  Drafted = {1, 2}
  About <- OnePost
  Wordings = 2
  Clicks = 2
  Slips = 1
  Posted <- ThreePosts
  Poster <- TwoPosters
  Belonging <- OneEvent
  Pasted = {"text"}
  Rosters <- TwoFiles
  Naming <- FirstNames
  Askings = 3
  Outages = 1
  Detector = {1, 2}
  Sighted = {1, 2, 3}
  WriterOf <- Writers
  ReplyPosts = {2}
  Policies <- OneFeed
  Sightings = 2
  Lapses = 1
  Profile <- TwoProfiles
  Excluding <- OneOfThem
  Windows <- TwoWindows
  PageRows = 2
  MaxPages = 2
  FeedPasses = 2
  FeedFaults = 4
  FinalTexts <- FiveEdits
  Traits = {"emoji"}
  Patterns = {"moreover"}
  KnownTypes = {"SHORT", "NEWS"}
  MaxRecords = 4
  Confirms = 5
  Snapshots = 2
INVARIANTS
  BooksTypes OncePerCause CopyKeepsAll BundlesAreHonest
  SourcesAreRead EvidenceIsProof CursorsSkipNothing
  RecordsAreHonest DigestsAreWhole RefusedWorksAreIsolated FinalEditsHold TimelineAgrees CaptionsAreSafe
  TextsRestOnFacts PlansAreWhole DeskAgrees RequestsAreHonest SightingsAreSound
CHECK_DEADLOCK FALSE
