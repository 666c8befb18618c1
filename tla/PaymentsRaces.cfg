SPECIFICATION PaySpec
CONSTANTS
  l1 = l1
  l2 = l2
  b1 = b1
  b2 = b2
  h1 = h1
  p1 = p1
  p2 = p2
  c1 = c1
  c2 = c2
  Listings <- OneListing
  BookingIds <- OneBooking
  Handlers <- OneHandler
  MaxInFlight = 1
  ClockSkew = FALSE
  NoListing = NoListing
  NoBooking = NoBooking
  PaymentIds <- TwoPayments
  Callers <- TwoCallers
  MaxCalls = 2
  NoPayment = NoPayment
SYMMETRY Symmetry
INVARIANT RecordedMeansCharged
CONSTRAINT Unflagged
CHECK_DEADLOCK FALSE
