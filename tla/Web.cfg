SPECIFICATION WebSpec
CONSTANTS
  Parts <- AllParts
  u1 = u1
  u2 = u2
  t1 = t1
  t2 = t2
  c1 = c1
  c2 = c2
  b1 = b1
  b2 = b2
  b3 = b3
  x1 = x1
  x2 = x2
  Users <- TwoUsers
  Tabs <- TwoTabs
  Calls <- TwoCalls
  NoUser = NoUser
  NoTab = NoTab
  Nobody = Nobody
  LoggedOut = LoggedOut
  MaxTokens = 2
  MaxClicks = 6
  MaxComments = 3
  ListLimit = 2
  MaxLists = 2
  MaxUploads = 1
  MaxActs = 2
  MaxVisits = 2
  MaxLoads = 2
  Buttons <- ThreeButtons
  LikeButtons <- OneLike
  CardButtons <- OneCard
  GlobalCap = 2
  MaxBursts = 3
  Messages <- TwoMessages
  MaxVisible = 2
  MaxShown = 3
  MaxStarts = 5
INVARIANTS
  CachesAreOwn
  RefusedForCause
  ButtonSettles
  OwnCommentsShown
  ReceivedIsComplete
  DraftIsCurrent
  PageShowsStored
  SlotsAgree
  ToastsLeave
CONSTRAINT UploadsFirst
CHECK_DEADLOCK FALSE
