\* Queues of three on two levels, and restarts between any two applies.
CONSTANTS
  MinPrice = 10
  TickSize = 5
  NumLevels = 2
  I64Max = 31
  OrderIds = {o1, o2, o3}
  TraderIds = {t1}
  MaxLiveOrders = 3
  InPrices = {10, 15}
  InQtys = {1, 2}
  InTifs = {"Gtc", "Ioc", "Fok"}
  InStps = {"None"}
  NoOrder = NoOrder
SPECIFICATION RestartSpec
SYMMETRY Symmetry
INVARIANTS CursorAtHead EverySnapshotRestorable ValidatorPasses EveryDamageShows HashesAgree
PROPERTIES RestartsInvisible
