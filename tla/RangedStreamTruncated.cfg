SPECIFICATION RSSpec
CONSTANTS
  RSSizes = {1,4,5}
  RSStarts = {0,1,3,4}
  RSChunk = 2
  RSRetries = 2
  RSMax = 4
CHECK_DEADLOCK FALSE
INVARIANT TruncatedIsNeverKept
