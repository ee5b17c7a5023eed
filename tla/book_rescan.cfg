CONSTANTS
  NLevels = 2
  SizeMod = 2
  OrderDepth = 4
  Refs = {0, 2, 3, 4}
  Sides = {"ask"}
  Prices <- HiddenPrices
  Shares = {1}
  MsgTypes = {"A", "D"}
  CollisionFree = FALSE
SPECIFICATION Spec
INVARIANTS TypeOK LevelsSorted LiveShown
PROPERTIES ReadyAgain RescanRebuilds
