SPECIFICATION Spec
CONSTANTS
  s1 = s1
  s2 = s2
  Slots = {s1}
  Labels = {touch, close}
  SlotDay <- OneSlot
  LastDay = 1
  Horizon = 1
  Floor = 10
  MaxResearchId = 4
  MaxServingId = 16
  MaxEventId = 6
  Disruptions = {"pull"}
  MaxDisruptions = 1
PROPERTY OnlyCopyIsKept
