CONSTANTS
  MAX_MESSAGES = 4
  NLevels = 1
  SizeMod = 4
  OrderDepth = 2
  Refs = {0, 1}
  Sides = {"bid"}
  Prices = {1, 2}
  Shares = {1}
  MsgTypes = {"A", "D"}
  NSymbols = 2
  Locates <- OwnBookLocates
SPECIFICATION MCSpec
INVARIANT ShownIsDepth
