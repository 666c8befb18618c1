SPECIFICATION DesksSpec
CONSTANTS
  s1 = s1
  s2 = s2
  r1 = r1
  r2 = r2
  Parts <- AllParts
  Reasons <- TwoReasons
  NoText = NoText
  NoRow = NoRow
  MaxDeskLoads = 3
  MaxOthers = 2
  PageRows = 1
  MaxRows = 5
  MaxListLoads = 4
  MaxMessages = 2
  Slots <- TwoSlots
  MaxPhotos = 1
  MaxPrice = 1
SYMMETRY Symmetry
CONSTRAINT OneCase
INVARIANTS
  PhotosWithinLimit
  OnePenaltyPerCase
  DecisionShownIsRecorded
  OneCopyPerSend
PROPERTIES
  ReviewedTermsStand
CHECK_DEADLOCK FALSE
