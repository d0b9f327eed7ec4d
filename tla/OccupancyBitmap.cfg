\* Ten levels in words of four bits, the last of them beyond the largest i64.
CONSTANTS
  MinPrice = 15
  TickSize = 2
  NumLevels = 10
  I64Max = 31
  W = 4
SPECIFICATION Spec
INVARIANTS ScansFindTheNeighbours LevelsReadBackAsPrices
