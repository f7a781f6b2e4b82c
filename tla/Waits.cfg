SPECIFICATION WaitsSpec
CONSTANTS
  c1 = c1
  c2 = c2
  u1 = u1
  u2 = u2
  k1 = k1
  j1 = j1
  j2 = j2
  w1 = w1
  w2 = w2
  w3 = w3
  sa = sa
  sb = sb
  tab = tab
  a4 = a4
  a6 = a6
  None = None
  Nobody = Nobody
  Callers = {c1,c2}
  Urls = {u1,u2}
  Keys = {k1}
  Canon <- Variants
  Slots = 1
  Threshold = 2
  BSSubs = {sa, sb}
  BSPages = 2
  BSPeriods = {2, 3}
  BSOffsets = {1}
  BSGap = 1
  BSLate = 4
  BSStops = 2
  BGWriters = {w1, w2, w3}
  BGPriority <- Priority
  BGChunks = 2
  BGWant = 2
  BGRate = 3
  BGCapacity = 3
  BGClock = 1
INVARIANT FlightInv
PROPERTY AnchorKept
PROPERTY Answered
PROPERTY FailuresEnd
PROPERTY AudioReturns
PROPERTY GateDrains
PROPERTY PictureSettles
PROPERTY TurnsComeRound
PROPERTY OwnerGetsIn
CHECK_DEADLOCK FALSE
