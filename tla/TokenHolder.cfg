SPECIFICATION FairSpec
CONSTANTS
  Loop = Loop
  NoOne = NoOne
  NoToken = NoToken
  c1 = c1
  k1 = k1
  Callers = {c1}
  Kicks = {k1}
  Cap = 1
  Low = 1
  Window = 1
  Life = 1
  Lead = 1
  Margin = 1
  Idle = 2
  Flat = 1
  MaxCool = 2
  Threshold = 1
  MaxFails = 1
  MaxMints = 2
  MaxCrashes = 1
  DbErrors = TRUE
PROPERTY InstallsInTurn
PROPERTY Recovers
