SPECIFICATION Spec
CONSTANTS
  OrderDepth = 64
  NLevels = 4
  NSymbols = 4
  M1_DEPTH = 4
  MAX_STREAM = 3
  SizeMod <- Word
  PRICE_WORD <- Word
  CNT_WORD = 256
  M1_WORD <- Word
  Refs = {1, 5}
  Sides = {"bid", "ask"}
  Prices = {0, 5, 1073741823}
  Shares = {1, 2}
  MsgTypes = {"A", "F", "X", "E", "C", "D", "U", "P"}
  Locates = {0, 1, 2, 3}
  BID_THRESH = 15
  ASK_THRESH = 15
  MAX_SPREAD_TICKS = 1000
  COOLDOWN_CYCLES = 8
  BASE_LOT = 100
  MAX_LOT = 250
  MAX_ORDER_SIZE = 500
  MAX_POSITION = 1000
  MAX_PRICE_BAND = 5000
  HIST_BUCKETS = 64
INVARIANTS ChecksHold NothingIgnored GoldenAgrees
PROPERTY TestsFinish
CHECK_DEADLOCK FALSE
