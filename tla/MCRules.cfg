SPECIFICATION MCSpec
CONSTANTS
  Tickers = {"A", "B"}
  MaxTicks = 2
  MaxRequests = 3
  MaxPages = 2
  Parts = {"trades", "rows", "signals", "holdings", "arm", "taxes", "serving", "paths",
           "backtests", "feed", "screen", "repairs", "chart", "list", "mirror",
           "chat", "rates"}
INVARIANTS
  LiveFiresSettle
  PathsReconcile
  PageShowsItsOwn
PROPERTIES
  ExitIsFinal
  RowsStayWhole
  MoneyAddsUp
  CopiesArrive
  OkMeansChecked
  RepairsAreSound
  PagesStayWhole
CHECK_DEADLOCK FALSE
