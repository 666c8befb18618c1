SPECIFICATION PaySpec
CONSTANTS
  l1 = l1
  l2 = l2
  b1 = b1
  b2 = b2
  h1 = h1
  p1 = p1
  p2 = p2
  c1 = c1
  c2 = c2
  Listings <- OneListing
  BookingIds <- TwoBookings
  Handlers <- OneHandler
  MaxInFlight = 1
  ClockSkew = TRUE
  NoListing = NoListing
  NoBooking = NoBooking
  PaymentIds <- OnePayment
  Callers <- OneCaller
  MaxCalls = 1
  NoPayment = NoPayment
SYMMETRY Symmetry
INVARIANT HomesMatchBookings
CHECK_DEADLOCK FALSE
