SPECIFICATION ProgressSpec
CONSTANTS
  l1 = l1
  l2 = l2
  b1 = b1
  b2 = b2
  b3 = b3
  h1 = h1
  h2 = h2
  Listings <- OneListing
  BookingIds <- TwoBookings
  Handlers <- OneHandler
  MaxInFlight = 3
  ClockSkew = FALSE
  NoListing = NoListing
  NoBooking = NoBooking
  MaxTries = 3
  StartTries = 2
  MaxOutages = 1
INVARIANTS
  UsableMeansWorking
PROPERTIES
  StartReachesServers
  ScheduledHoldEnds
CHECK_DEADLOCK FALSE
