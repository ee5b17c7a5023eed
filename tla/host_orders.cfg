SPECIFICATION Spec
CONSTANTS
  SW_BID_THRESH = 15  SW_ASK_THRESH = 15  LOT_SIZE = 1
  MODES = {"live", "queue"}  FAILING = {"queue"}
  Quotes <- MarketQuotes  FpgaDecisions <- FpgaLots
  max_order_shares = 1  max_position_shares = 2  max_orders_per_sec = 2
  fat_finger_pct = 2  SECOND = 2
  MAX_TASKS = 3  MAX_TIME = 5
INVARIANTS TypeOK RateKept PlacedWithinLimit
PROPERTY PlacedUnderControls
