SPECIFICATION ServicesSpec
CONSTANTS
  Parts = {"accounts", "trust", "verification", "people"}
  e1 = e1
  n1 = n1
  c1 = c1
  c2 = c2
  s1 = s1
  s2 = s2
  q1 = q1
  q2 = q2
  m1 = m1
  m2 = m2
  p1 = p1
  p2 = p2
  Queries <- TwoQueries
  NoQuery = NoQuery
  Members <- TwoMembers
  Portraits <- TwoPortraits
  Nothing = Nothing
  MaxSearches = 4
  MaxOpenings = 3
  MaxTurns = 1
  MaxRecents = 2
  w1 = w1
  w2 = w2
  r1 = r1
  Emails <- OneEmail
  Names <- OneName
  NoEmail = NoEmail
  NoName = NoName
  Callers <- TwoCallers
  Slots <- TwoSlots
  MaxSubmissions = 3
  MaxTokens = 3
  MaxLinks = 2
  Work <- TwoWork
  Reports <- OneReport
  StayPoints = 90
  AgainstPoints = 60
  CrownScore = 85
  MaxStays = 1
  MaxAgainst = 1
  MaxRecomputes = 1
SYMMETRY Symmetry
INVARIANTS
  OneTokenPerLogin
  LinkUsedOnce
  StaleScoreIsExcused
  ShownIsAskedFor
  NeverBothUnderReview
  OpenSubmissionsMatch
PROPERTY NoRiseUnderReport
CONSTRAINT NotBoth
CHECK_DEADLOCK FALSE
