SPECIFICATION FairSpec
CONSTANTS
  Tickers = {a}
  LastTick = 3
  MaxFailures = 2
  Disruptions = {"error", "guard", "crash", "calendar", "kill", "power"}
  MaxDisruptions = 2
INVARIANTS NotifiedOnce OneLossPerMishap PollerInv
PROPERTIES GivesUpLate ComesToRest
CHECK_DEADLOCK FALSE
