CONSTANTS
  MAX_MESSAGES = 4
  NLevels = 1
  SizeMod = 2
  OrderDepth = 2
  Refs = {0, 1}
  Sides = {"bid"}
  Prices = {1, 2}
  Shares = {1}
  MsgTypes = {"A", "D"}
  NSymbols = 2
  Locates = {0, 3}
SPECIFICATION MCSpec
INVARIANTS TypeOK BooksSound ShownUntilCrossed MuxAttributed
PROPERTY Isolation
