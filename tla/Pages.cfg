SPECIFICATION PagesSpec
CONSTANTS
  s1 = s1
  s2 = s2
  r1 = r1
  r2 = r2
  p1 = p1
  p2 = p2
  v1 = v1
  v2 = v2
  t1 = t1
  None = None
  SFPieces <- Pieces
  SFLength = 3
  SFValidName <- SubsNamed
  SQTokens <- Tokens
  SQLength = 3
  SQToday = 100
  STSavers = {s1, s2}
  STValues = {"a", "b"}
  STPlain <- PlainValues
  STLimits <- Limits
  PMPayloads <- Payloads
  PMThreads <- Threads
  PMPasted <- Pasted
  PMFaults = 1
  RWPosts <- ShownPosts
  RWKind <- ShownKinds
  RWResident <- ShownPosts
  RWScored = {p1}
  RWRequests = {r1, r2}
  RWQueries <- Wanted
  RWPool = 2
  RWPages = 3
  RWAsks = 2
  RWFaults = 1
  LSRows <- Rows
  LSVisitors = {v1, v2}
  LSPages <- Sites
  LSQueries <- Queries
  LSLimit = 1
  LSScan = 2
  LSHeld = {1}
  LSAsks = 2
  LSSaves = 1
  SSListings <- Results
  SSCursors = {"", "x"}
  SSBefores = {"before x"}
  SSOffsets = {"archive:25"}
  SSTabs = {t1}
  SSAsks = 3
  SSFaults = 1
INVARIANT LatestVoteWins
INVARIANT TextsRoundTrip
INVARIANT SweepExact
INVARIANT PageAccounts
INVARIANT NSFWHidden
INVARIANT PagesPartition
INVARIANT PageIsKept
CHECK_DEADLOCK FALSE
