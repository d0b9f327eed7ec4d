\* Every rejection and the arena at its limit: three ids, two slots, and
\* a level between the used ones that stays empty.
CONSTANTS
  MinPrice = 10
  TickSize = 5
  NumLevels = 3
  I64Max = 31
  OrderIds = {o1, o2, o3}
  TraderIds = {t1, t2}
  MaxLiveOrders = 2
  InPrices = {10, 12, 20}
  InQtys = {0, 1, 2}
  InTifs = {"Gtc", "Ioc", "Fok"}
  InStps = {"None"}
  NoOrder = NoOrder
SPECIFICATION ViewSpec
INVARIANTS BestIsTrue FreeSlotForTaker VerdictsAgree
PROPERTIES OracleSpec
