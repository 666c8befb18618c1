SPECIFICATION FilesSpec
CONSTANTS
  Parts <- AllParts
  m1 = m1
  m2 = m2
  s1 = s1
  MediaIds <- OneFile
  Slots <- OneSlot
  MaxPending = 1
  MaxJobs = 1
  Video = TRUE
  MaxHomes = 2
  MaxTexts = 2
  MaxOpens = 2
  PhotoLimit = 1
  MaxTries = 0
  MaxFiles = 1
  NoAccount = NoAccount
  MaxSaves = 2
  MaxVisits = 2
  MaxElsewhere = 1
  MaxFetches = 1
CONSTRAINT ShortLife
INVARIANTS
  ReadyVideoWasUploaded
  OneHomePerText
  AccountIsSaved
PROPERTIES
  NotRevived
  AttachedOrTold
CHECK_DEADLOCK FALSE
