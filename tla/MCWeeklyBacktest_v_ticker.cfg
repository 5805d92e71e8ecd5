SPECIFICATION Spec
CONSTANTS
  Tickers = {a, b, c}
  ChunkSize = 2
  LastWeek = 1
  Disruptions = {"ticker"}
  MaxDisruptions = 1
INVARIANT OkMeansLabelled
CHECK_DEADLOCK FALSE
