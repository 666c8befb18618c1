SPECIFICATION NotificationsSpec
CONSTANTS
  Parts <- AllParts
  n1 = n1
  a1 = a1
  e1 = e1
  w1 = w1
  w2 = w2
  u1 = u1
  u2 = u2
  p1 = p1
  p2 = p2
  Notes <- NoteAndAdmin
  AdminNotes <- OneAdmin
  Mails <- OneMail
  Workers <- TwoWorkers
  Attempts <- NoteTwice
  MaxAsks <- NoteTwice
  MaxCrashes = 1
  MaxNotes = 3
  PageSize = 1
  Touched <- SecondNote
  Members <- TwoMembers
  Phones <- TwoPhones
  MaxPhones = 1
  MaxSubscribes = 2
  MaxTexts = 1
  MaxTickets = 1
  MaxRequests = 2
  MaxPolls = 1
  MaxPlaces = 2
INVARIANTS
  EmittedOncePerRow
  EndedWithoutTraceIsDead
  NothingSkipped
  PhonesWithinLimit
  SentOnce
SYMMETRY Symmetry
CONSTRAINTS FewAsks FewMarks
CHECK_DEADLOCK FALSE
