SPECIFICATION FairSpec
CONSTANTS
  Tickers = {a, b, c}
  ChunkSize = 2
  LastWeek = 2
  Disruptions = {"kill", "power", "chunk", "finalize"}
  MaxDisruptions = 3
INVARIANTS OkMeansLabelled WeeklyInv
PROPERTIES
  ClosedStaysClosed
  EveryWeekRefreshed
CHECK_DEADLOCK FALSE
