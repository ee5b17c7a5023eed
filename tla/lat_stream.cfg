SPECIFICATION Spec
CONSTANTS
  NLevels = 2  SizeMod = 16  OrderDepth = 60
  NSymbols = 2  Locates = {1, 2, 4}  PRICE_WORD = 64
  Refs = {1, 2, 3}  Sides = {"bid", "ask"}  Prices = {10, 11, 12, 20, 21}
  Shares = {1, 4, 6}  MsgTypes = {"A", "F", "D", "U"}
  BID_THRESH = 15  ASK_THRESH = 15  MAX_SPREAD_TICKS = 2  COOLDOWN_CYCLES = 1
  BASE_LOT = 2  MAX_LOT = 5
  MAX_ORDER_SIZE = 10  MAX_POSITION = 1000  MAX_PRICE_BAND = 2
  HIST_BUCKETS = 4  CNT_WORD = 4
  Feed <- TwoSymbolDay
  MAX_MESSAGES = 3  MAX_UPSETS = 0  MAX_REST = 5  RESET_AT = {20}
INVARIANT SampleOfItsMessage
CHECK_DEADLOCK FALSE
