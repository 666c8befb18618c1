----------------------------- MODULE MCPayments -----------------------------
(* Small instances of Payments for TLC. *)
EXTENDS Payments, TLC

CONSTANTS l1, l2, b1, b2, h1, p1, p2, c1, c2

OneListing  == {l1}
TwoListings == {l1, l2}
OneBooking  == {b1}
TwoBookings == {b1, b2}
OneHandler  == {h1}
OnePayment  == {p1}
TwoPayments == {p1, p2}
OneCaller   == {c1}
TwoCallers  == {c1, c2}

(* A bound of PaymentsRaces: no payment endpoint reads the status of a home, *)
(* or of a booking that exists, so homes are not flagged there and a booking *)
(* ends by being cancelled.                                                  *)
Unflagged ==
  /\ \A l \in Listings : listingStatus[l] # "FLAGGED"
  /\ \A b \in BookingIds : bookingStatus[b] \notin {"COMPLETED", "DISPUTED"}

(* Rows and request slots are interchangeable; safety runs only. *)
Symmetry == Permutations(Listings) \cup Permutations(BookingIds)
              \cup Permutations(PaymentIds) \cup Permutations(Callers)

=============================================================================
