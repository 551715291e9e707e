SPECIFICATION SwapSpec
CONSTANTS
  U64Max = 5
  MaxCalls = 4
INVARIANT Swap2ReadsItsSize
CHECK_DEADLOCK FALSE
