SPECIFICATION MCSpec
CONSTANTS
  LastDay = 5
  QuarterDays = 2
  NightWindow = 1
  Disruptions = {"kill", "hand", "revise"}
  MaxDisruptions = 1
  Parts = {"bars", "table", "fetch", "shares", "membership", "verdict", "artifact", "windows",
           "grid", "calibration", "gate"}
  BarDisruptions = {"kill", "empty", "raw"}
INVARIANTS
  BarsAreConsistent
  MembershipIsCurrent
  JudgementsAreFair
PROPERTIES
  BarsFollowTheVendor
  ResolvedSurvives
  AnswersAreCurrent
  FiledBeatsEstimated
  OnlyTrustedFitsScore
  FitsLearnHonestly
CHECK_DEADLOCK FALSE
