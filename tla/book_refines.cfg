CONSTANTS
  NLevels = 1
  SizeMod = 4
  OrderDepth = 2
  Refs <- SharedSlotRefs
  Sides = {"bid", "ask"}
  Prices <- HiddenPrices
  Shares = {1, 2}
  MsgTypes <- PathTypes
  CollisionFree = TRUE
SPECIFICATION Spec
INVARIANTS IInv NoPhantomLevel
PROPERTY ImplementsDepthBook
