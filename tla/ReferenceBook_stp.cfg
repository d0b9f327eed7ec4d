\* Self-trade prevention at one price, three makers deep.
CONSTANTS
  MinPrice = 10
  TickSize = 5
  NumLevels = 1
  I64Max = 31
  OrderIds = {o1, o2, o3, o4}
  TraderIds = {t1, t2}
  MaxLiveOrders = 3
  InPrices = {10}
  InQtys = {0, 1, 2}
  InTifs = {"Fok", "Gtc"}
  InStps = {"None", "CancelResting", "CancelAggressor", "CancelBoth"}
  NoOrder = NoOrder
SPECIFICATION Spec
SYMMETRY Symmetry
INVARIANTS OutputBounded FokStaysFillable
PROPERTIES QuantityConserved
