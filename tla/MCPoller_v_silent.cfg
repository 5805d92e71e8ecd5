SPECIFICATION Spec
CONSTANTS
  Tickers = {a}
  LastTick = 2
  MaxFailures = 3
  Disruptions = {"error"}
  MaxDisruptions = 1
INVARIANT EveryConfluenceNotified
CHECK_DEADLOCK FALSE
