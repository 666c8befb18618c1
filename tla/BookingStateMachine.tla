------------------------ MODULE BookingStateMachine ------------------------
(***************************************************************************)
(* The pure booking state machine of the domain layer                      *)
(* (src/domain/booking/booking-state-machine.ts).  It is a table of the    *)
(* transitions applyTransition accepts; every service checks a status it   *)
(* has read against this table before it writes the new one.               *)
(***************************************************************************)

BookingStatus ==
  {"AVAILABLE", "HELD", "BOOKED", "COMPLETED", "DISPUTED", "CANCELLED"}

(* The statuses each entry of the TRANSITIONS table can produce. *)
TRANSITIONS ==
  [AVAILABLE |-> {"HELD"},
   HELD      |-> {"BOOKED", "AVAILABLE", "CANCELLED"},
   BOOKED    |-> {"COMPLETED", "DISPUTED", "CANCELLED"},
   COMPLETED |-> {},
   DISPUTED  |-> {"COMPLETED", "CANCELLED"},
   CANCELLED |-> {}]

(* applyTransition returns normally iff this holds; it throws otherwise. *)
CanTransition(from, to) == to \in TRANSITIONS[from]

(* A status applyTransition never leaves. *)
Terminal(s) == TRANSITIONS[s] = {}

(* The predicate of the partial unique index bookings_listing_active_unique, *)
(* and of the findFirst in createBooking.                                    *)
ActiveStatus == {"HELD", "BOOKED"}

=============================================================================
