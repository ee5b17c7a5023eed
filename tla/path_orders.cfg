SPECIFICATION FairSpec
CONSTANTS
  NSYMBOLS = 2  NLEVELS = 2  PRICE_WORD = 64
  Snapshots <- TwoSymbolBooks
  BID_THRESH = 15  ASK_THRESH = 15  MAX_SPREAD_TICKS = 2  COOLDOWN_CYCLES = 2
  BASE_LOT = 2  MAX_LOT = 5
  MAX_ORDER_SIZE = 10  MAX_POSITION = 7  MAX_PRICE_BAND = 2
INVARIANTS IInv TypeOK OrderFollowsSnapshot ExposureBounded RejectsJustified
PROPERTIES CooldownKept KeepsBuying
