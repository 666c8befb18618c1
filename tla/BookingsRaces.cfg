SPECIFICATION Spec
CONSTANTS
  l1 = l1
  l2 = l2
  b1 = b1
  b2 = b2
  b3 = b3
  h1 = h1
  h2 = h2
  Listings <- OneListing
  BookingIds <- TwoBookings
  Handlers <- TwoHandlers
  MaxInFlight = 3
  ClockSkew = FALSE
  NoListing = NoListing
  NoBooking = NoBooking
SYMMETRY Symmetry
INVARIANTS
  AtMostOneActive
  FinishedJobLeavesNoHold
PROPERTIES
  SaleSpec
CHECK_DEADLOCK FALSE
