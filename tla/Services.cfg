SPECIFICATION ServicesSpec
CONSTANTS
  r1 = r1
  r2 = r2
  k1 = k1
  k2 = k2
  j1 = j1
  j2 = j2
  sa = sa
  t1 = t1
  t2 = t2
  a4 = a4
  None = None
  UFReaders = {r1, r2}
  UFLinks = {k1, k2}
  UFPublic = {k1}
  UFPages <- WebPages
  UFJina = TRUE
  UFSlots = 1
  UFVisits = 1
  AMJobs = {j1, j2}
  AMSlots = 1
  AMThreshold = 2
  AMAsks = 2
  AMFaults = 1
  RSSizes = {1, 4, 5}
  RSStarts = {0, 1, 3, 4}
  RSChunk = 2
  RSRetries = 2
  RSMax = 4
  SLSubs = {sa}
  SLReasons = {"private", "other"}
  SLFaults = 2
  UGTabs = {t1, t2}
  UGAddrs = {a4}
  UGFamily <- Family
  UGSlots = 0
  UGTries = 2
  UGAllTries = 3
  UGStrikes = 2
  UGSkew = 1
  UGPads = {"", " "}
  UGPlain = ""
  UGTypos = 0
  UGOthers = 0
  UGFaults = 0
  MGRunners = {r1, r2}
  MGVersions = {0, 5, 14, 18, 19, 20, 21, 29, 31, 34}
  MGCrashes = 2
  MFMoofs <- Moofs
  MFMoovs <- Moovs
  MFFrags <- Frags
INVARIANT SoundIsSound
INVARIANT PlayerFindsEverySample
INVARIANT WholeUnlessRefused
INVARIANT LedgerTruthful
INVARIANT OneUnlockPerCode
INVARIANT ServesUpright
PROPERTY UnfurlCoalesces
PROPERTY LostOnlyToStale
CHECK_DEADLOCK FALSE
