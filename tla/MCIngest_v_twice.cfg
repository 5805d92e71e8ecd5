SPECIFICATION MCSpec
CONSTANTS
  LastDay = 5
  QuarterDays = 2
  NightWindow = 1
  Disruptions = {"kill", "hand", "revise"}
  MaxDisruptions = 1
  Parts = {"bars"}
  BarDisruptions = {"raw"}
INVARIANT AdjustedOnce
CHECK_DEADLOCK FALSE
