SPECIFICATION FairSpec
CONSTANTS
  m1 = m1
  m2 = m2
  s1 = s1
  s2 = s2
  MediaIds <- OneFile
  Slots <- TwoSlots
  MaxPending = 1
  MaxJobs = 1
  Video = FALSE
PROPERTY DeletionEnds
CHECK_DEADLOCK FALSE
