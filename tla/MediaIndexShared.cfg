SPECIFICATION FairSpec
CONSTANTS
  u1 = u1
  u2 = u2
  k1 = k1
  k2 = k2
  h1 = h1
  h2 = h2
  d1 = d1
  NoHash = NoHash
  NoProc = NoProc
  Evictor = Evictor
  Sweeper = Sweeper
  Urls = {u1,u2}
  Keys = {k1,k2}
  Canon <- CanonShared
  Hashes = {h1,h2}
  Size <- SizeGrowing
  Deleters = {d1}
  Disposable = {k1}
  MuxedOf <- K1Muxed
  MaxBytes = 2
  ReconcileEvery = 2
  MaxFaults = 1
PROPERTY BiggerWins
PROPERTY CapRestored
