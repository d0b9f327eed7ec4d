\* Price-time matching without self-trade prevention: Gtc, Ioc and Fok.
CONSTANTS
  MinPrice = 10
  TickSize = 5
  NumLevels = 2
  I64Max = 31
  OrderIds = {o1, o2, o3, o4}
  TraderIds = {t1, t2}
  MaxLiveOrders = 3
  InPrices = {10, 12, 15}
  InQtys = {0, 1, 2}
  InTifs = {"Gtc", "Ioc", "Fok"}
  InStps = {"None"}
  NoOrder = NoOrder
SPECIFICATION Spec
SYMMETRY Symmetry
INVARIANTS TypeOK PriceSorted NeverCrossed UniqueIds RestingOrdersSound RoomToRest
PROPERTIES NeverOvertakes JoinsAtTheBack
