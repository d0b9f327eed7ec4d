\* Three line-ups of agents; a run ends, so it may stop.
CONSTANTS
  MinPrice = 10
  TickSize = 1
  NumLevels = 4
  I64Max = 31
  OrderIds <- SimIds
  TraderIds = {0, 1, 2}
  MaxLiveOrders = 4
  InPrices <- SimPrices
  InQtys = {1, 2, 3}
  InTifs = {"Gtc", "Ioc", "Fok"}
  InStps = {"None", "CancelResting", "CancelAggressor", "CancelBoth"}
  NoOrder = NoOrder
  Configs <- Runs
  IdSpace = 16
  HalfSpread = 1
  Tolerance = 0
  TargetDraws <- Draws
  Offsets = {0, 1}
  SimQtys = {1, 2}
  ProbeQtys = {3}
  MaxBurst = 2
  None = None
SPECIFICATION SimSpec
INVARIANTS AgentsTrackTheirOrders OnlyTheMarketRejects ViewIsTheBook ArrivalInSequence
PROPERTIES TickEnds
CHECK_DEADLOCK FALSE
