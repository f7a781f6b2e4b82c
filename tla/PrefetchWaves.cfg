SPECIFICATION CastSpec
CONSTANTS
  Layers <- L2
  MaxCycles = 2
  MaxWaves = 2
  MaxRestarts = 1
  MaxChanges = 1
  MaxErrors = 0
  Others <- Steady
INVARIANT OneDriverPerWave
INVARIANT OnePlan
PROPERTY OffIsQuiet
