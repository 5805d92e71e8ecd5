SPECIFICATION Spec
CONSTANTS
  Tickers = {a, b, c}
  ChunkSize = 2
  LastWeek = 2
  Disruptions = {"kill", "power", "chunk", "ticker", "finalize", "check", "reorder", "overrun"}
  MaxDisruptions = 3
SYMMETRY TickerSymmetry
INVARIANT CofireIsCurrent
CHECK_DEADLOCK FALSE
