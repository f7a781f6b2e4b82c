SPECIFICATION CastSpec
CONSTANTS
  Workers = {"day","other"}
  Nobody = "nobody"
  Kind <- WithWave
  Scope <- InBuckets
  LastPage = 2
  Body = {b1}
  Pasted = {}
  Cap = 1
  Reserve = 0
  HasIcon = TRUE
  MaxVisits = 0
  MaxCancels = 0
  MaxStops = 1
  MaxEvictions = 1
INVARIANT WorkAccounted
