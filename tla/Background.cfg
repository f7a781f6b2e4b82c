SPECIFICATION BackgroundSpec
CONSTANTS
  h1 = h1
  n1 = n1
  c1 = c1
  x = x
  y = y
  Nobody = Nobody
  HR = {h1}
  NP = {n1}
  Calls = 3
  Tiers = {1}
  Window <- Short
  Threshold <- Few
  Lag = 1
  MinBackoff = 1
  MaxBackoff = 2
  MaxCount = 1
PROPERTY CapKept
PROPERTY Recovers
PROPERTY WavesSettle
PROPERTY Answered
CHECK_DEADLOCK FALSE
