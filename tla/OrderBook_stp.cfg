\* Self-trade prevention, two makers deep, on two levels.
CONSTANTS
  MinPrice = 10
  TickSize = 5
  NumLevels = 2
  I64Max = 31
  OrderIds = {o1, o2, o3}
  TraderIds = {t1, t2}
  MaxLiveOrders = 2
  InPrices = {10, 15}
  InQtys = {1, 2}
  InTifs = {"Gtc", "Fok"}
  InStps = {"CancelResting", "CancelAggressor", "CancelBoth"}
  NoOrder = NoOrder
SPECIFICATION ViewSpec
SYMMETRY Symmetry
INVARIANTS VerdictsAgree
PROPERTIES StepsOfOracle
