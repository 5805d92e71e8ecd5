SPECIFICATION FairSpec
CONSTANTS
  s1 = s1
  s2 = s2
  Slots = {s1}
  Labels = {touch, close}
  SlotDay <- OneSlot
  LastDay = 2
  Horizon = 1
  Floor = 10
  MaxResearchId = 4
  MaxServingId = 16
  MaxEventId = 6
  Disruptions = {"pull", "sync", "kill", "skip", "latebar", "relabel", "midsession", "refit"}
  MaxDisruptions = 3
INVARIANT OutcomesAreEvidence
PROPERTIES
  EvidenceSpec
  LiveRowsReachResearch
