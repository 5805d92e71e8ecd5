SPECIFICATION MCSpec
CONSTANTS
  Tickers = {"A", "B"}
  MaxTicks = 2
  MaxRequests = 3
  MaxPages = 2
  Parts = {"screen"}
INVARIANT
  IdentityBeatsKey
CHECK_DEADLOCK FALSE
