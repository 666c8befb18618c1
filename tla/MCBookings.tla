----------------------------- MODULE MCBookings -----------------------------
(* Small instances of Bookings for TLC. *)
EXTENDS Bookings, TLC

CONSTANTS l1, l2, b1, b2, b3, h1, h2

OneListing  == {l1}
TwoListings == {l1, l2}
TwoBookings == {b1, b2}
ThreeBookings == {b1, b2, b3}
OneHandler  == {h1}
TwoHandlers == {h1, h2}

(* Rows and request slots are interchangeable; safety runs only. *)
Symmetry == Permutations(Listings) \cup Permutations(BookingIds)
              \cup Permutations(Handlers)

=============================================================================
