SPECIFICATION Spec
CONSTANTS
  s1 = s1
  s2 = s2
  Slots = {s1, s2}
  Labels = {touch, close}
  SlotDay <- OneSlotADay
  LastDay = 2
  Horizon = 1
  Floor = 10
  MaxResearchId = 4
  MaxServingId = 16
  MaxEventId = 6
  Disruptions = {"pull", "sync", "kill", "skip", "latebar", "relabel", "midsession", "refit"}
  MaxDisruptions = 1
SYMMETRY LabelSymmetry
INVARIANTS
  IInv
  CrossStoreIdentity
  NextIdsAreFree
  EvidenceLinksOwnSlot
  SyncedLinksAgree
  CalmNumberKept
PROPERTIES
  SweepStrandsNothing
  CalmNightsLoseNothing
