------------------------------ MODULE Bookings ------------------------------
(***************************************************************************)
(* Holds and bookings of listings: BookingsService, the hold-expiry worker *)
(* and the admin flag, over the PostgreSQL tables they share.              *)
(*                                                                         *)
(* Every handler first READS rows, checks them in JavaScript, and later    *)
(* WRITES with `where: { id }` alone: nothing it checked is checked again  *)
(* by the write, except what the partial unique index enforces.  Each      *)
(* await on the database is therefore a step of its own, and other         *)
(* handlers and the worker may run between two steps of one handler.       *)
(* A prisma.$transaction is one step.                                      *)
(***************************************************************************)
EXTENDS BookingStateMachine, Naturals, FiniteSets

CONSTANTS
  Listings,      \* rows of the listings table
  BookingIds,    \* ids available to rows of the bookings table
  Handlers,      \* HTTP request slots of the API instances
  MaxInFlight,   \* bound: handlers and worker jobs between two of their steps
  ClockSkew,     \* TRUE: a worker's clock may lag the clock that starts jobs
  NoListing, NoBooking

ASSUME BookingsAssumption ==
  /\ MaxInFlight \in Nat
  /\ ClockSkew \in BOOLEAN
  /\ NoListing \notin Listings
  /\ NoBooking \notin BookingIds

VARIABLES
  listingStatus,   \* listings.status
  bookingStatus,   \* bookings.status; "AVAILABLE" while no row has the id
  bookingListing,  \* bookings.listing_id
  hold,            \* bookings.hold_expires_at against the clock
  expiryJob,       \* the one 'expire-hold' job of a booking in pg-boss
  request,         \* what each handler has read and is about to write
  secured,         \* BOOKING_SECURED trust events recorded for the booking
  disputes         \* disputeBooking transactions recorded for the booking

vars == <<listingStatus, bookingStatus, bookingListing, hold, expiryJob,
          request, secured, disputes>>

bookingVars == <<bookingStatus, bookingListing, hold>>
ledgerVars  == <<secured, disputes>>

ListingStatus == {"VERIFIED", "INACTIVE", "SOLD", "ACTIVE", "FLAGGED"}
HoldState     == {"none", "running", "lapsed"}
JobState      == {"none", "queued", "active", "finished", "dead"}
Pc == {"idle", "createCheck", "createCommit", "createEnqueue",
       "confirmUpdate", "confirmListing", "confirmSecure",
       "cancelCommit", "completeCommit", "disputeCommit"}
Request == [pc      : Pc,
            listing : Listings \cup {NoListing},
            booking : BookingIds \cup {NoBooking}]

Idle == [pc |-> "idle", listing |-> NoListing, booking |-> NoBooking]

-----------------------------------------------------------------------------
(* Rows the handlers look for. *)

ActiveOn(l) == {b \in BookingIds : /\ bookingListing[b] = l
                                   /\ bookingStatus[b] \in ActiveStatus}

(* A mutant: the migration that adds the index was not applied. *)
NoIndex(b, l) == TRUE

(* The partial unique index lets row b of listing l become active. *)
IndexAllows(b, l) == ActiveOn(l) \subseteq {b}

InFlight   == {h \in Handlers : request[h].pc # "idle"}
ActiveJobs == {b \in BookingIds : expiryJob[b] = "active"}
CanStart   == Cardinality(InFlight) + Cardinality(ActiveJobs) < MaxInFlight

Goto(h, pc, l, b) ==
  request' = [request EXCEPT ![h] = [pc |-> pc, listing |-> l, booking |-> b]]
Finish(h) == request' = [request EXCEPT ![h] = Idle]

-----------------------------------------------------------------------------
(* createBooking *)

CreateReadListing(h, l) ==
  /\ request[h].pc = "idle" /\ CanStart
  /\ listingStatus[l] = "VERIFIED"
  /\ Goto(h, "createCheck", l, NoBooking)
  /\ UNCHANGED <<listingStatus, bookingVars, expiryJob, ledgerVars>>

(* findFirst: an active booking is a 409, otherwise go on to the transaction. *)
CreateCheckActive(h) ==
  /\ request[h].pc = "createCheck"
  /\ IF ActiveOn(request[h].listing) = {}
     THEN Goto(h, "createCommit", request[h].listing, NoBooking)
     ELSE Finish(h)
  /\ UNCHANGED <<listingStatus, bookingVars, expiryJob, ledgerVars>>

(* $transaction: insert the HELD row under the unique index, then hide the  *)
(* listing whatever its status is by now.                                   *)
CreateCommit(h) ==
  LET l == request[h].listing IN
  /\ request[h].pc = "createCommit"
  /\ \E b \in BookingIds :
       /\ bookingStatus[b] = "AVAILABLE"
       /\ IndexAllows(b, l)
       /\ bookingStatus' = [bookingStatus EXCEPT ![b] = "HELD"]
       /\ bookingListing' = [bookingListing EXCEPT ![b] = l]
       /\ hold' = [hold EXCEPT ![b] = "running"]
       /\ listingStatus' = [listingStatus EXCEPT ![l] = "INACTIVE"]
       /\ Goto(h, "createEnqueue", l, b)
  /\ UNCHANGED <<expiryJob, ledgerVars>>

(* The insert hits the unique index: the transaction rolls back. *)
CreateConflict(h) ==
  /\ request[h].pc = "createCommit"
  /\ ActiveOn(request[h].listing) # {}
  /\ Finish(h)
  /\ UNCHANGED <<listingStatus, bookingVars, expiryJob, ledgerVars>>

(* After the commit, and outside of it, the delayed job is sent. *)
CreateEnqueue(h) ==
  /\ request[h].pc = "createEnqueue"
  /\ expiryJob' = [expiryJob EXCEPT ![request[h].booking] = "queued"]
  /\ Finish(h)
  /\ UNCHANGED <<listingStatus, bookingVars, ledgerVars>>

-----------------------------------------------------------------------------
(* Handlers that act on an existing booking: the read and its checks. *)

ReadBooking(h, b, expected, next) ==
  /\ request[h].pc = "idle" /\ CanStart
  /\ bookingStatus[b] \in expected
  /\ Goto(h, next, bookingListing[b], b)
  /\ UNCHANGED <<listingStatus, bookingVars, expiryJob, ledgerVars>>

(* Mutants: the check of the status is wider than the state machine allows. *)
ConfirmReadAgain(h, b) ==
  ReadBooking(h, b, {"HELD", "BOOKED"}, "confirmUpdate")
CancelReadAny(h, b) ==
  ReadBooking(h, b, BookingStatus \ {"AVAILABLE"}, "cancelCommit")
CompleteReadHeld(h, b) ==
  ReadBooking(h, b, {"HELD", "BOOKED"}, "completeCommit")

(* confirmBooking asks the state machine only: a lapsed hold still passes. *)
ConfirmRead(h, b) ==
  ReadBooking(h, b, {s \in BookingStatus : CanTransition(s, "BOOKED")},
              "confirmUpdate")
CancelRead(h, b)   == ReadBooking(h, b, {"HELD", "BOOKED"}, "cancelCommit")
CompleteRead(h, b) == ReadBooking(h, b, {"BOOKED"}, "completeCommit")
DisputeRead(h, b)  == ReadBooking(h, b, {"BOOKED"}, "disputeCommit")

-----------------------------------------------------------------------------
(* confirmBooking: three writes, each committed on its own. *)

ConfirmUpdate(h) ==
  LET b == request[h].booking IN
  /\ request[h].pc = "confirmUpdate"
  /\ IndexAllows(b, bookingListing[b])
  /\ bookingStatus' = [bookingStatus EXCEPT ![b] = "BOOKED"]
  /\ hold' = [hold EXCEPT ![b] = "none"]
  /\ Goto(h, "confirmListing", request[h].listing, b)
  /\ UNCHANGED <<listingStatus, bookingListing, expiryJob, ledgerVars>>

(* Another booking became active meanwhile: the update violates the index. *)
ConfirmConflict(h) ==
  /\ request[h].pc = "confirmUpdate"
  /\ ~IndexAllows(request[h].booking, bookingListing[request[h].booking])
  /\ Finish(h)
  /\ UNCHANGED <<listingStatus, bookingVars, expiryJob, ledgerVars>>

ConfirmListing(h) ==
  /\ request[h].pc = "confirmListing"
  /\ listingStatus' = [listingStatus EXCEPT ![request[h].listing] = "SOLD"]
  /\ Goto(h, "confirmSecure", request[h].listing, request[h].booking)
  /\ UNCHANGED <<bookingVars, expiryJob, ledgerVars>>

ConfirmSecure(h) ==
  /\ request[h].pc = "confirmSecure"
  /\ secured' = [secured EXCEPT ![request[h].booking] = @ + 1]
  /\ Finish(h)
  /\ UNCHANGED <<listingStatus, bookingVars, expiryJob, disputes>>

-----------------------------------------------------------------------------
(* cancelBooking, completeBooking, disputeBooking: one transaction each. *)

(* Mutants: the status is EXPIRED, which the enum got in a later migration   *)
(* and the state machine does not know; the listing update is forgotten.     *)
CancelCommitExpired(h) ==
  /\ request[h].pc = "cancelCommit"
  /\ bookingStatus' = [bookingStatus EXCEPT ![request[h].booking] = "EXPIRED"]
  /\ listingStatus' = [listingStatus EXCEPT ![request[h].listing] = "VERIFIED"]
  /\ Finish(h)
  /\ UNCHANGED <<bookingListing, hold, expiryJob, ledgerVars>>
CancelCommitBookingOnly(h) ==
  /\ request[h].pc = "cancelCommit"
  /\ bookingStatus' = [bookingStatus EXCEPT ![request[h].booking] = "CANCELLED"]
  /\ Finish(h)
  /\ UNCHANGED <<listingStatus, bookingListing, hold, expiryJob, ledgerVars>>

CancelCommit(h) ==
  /\ request[h].pc = "cancelCommit"
  /\ bookingStatus' = [bookingStatus EXCEPT ![request[h].booking] = "CANCELLED"]
  /\ listingStatus' = [listingStatus EXCEPT ![request[h].listing] = "VERIFIED"]
  /\ Finish(h)
  /\ UNCHANGED <<bookingListing, hold, expiryJob, ledgerVars>>

CompleteCommit(h) ==
  /\ request[h].pc = "completeCommit"
  /\ bookingStatus' = [bookingStatus EXCEPT ![request[h].booking] = "COMPLETED"]
  /\ Finish(h)
  /\ UNCHANGED <<listingStatus, bookingListing, hold, expiryJob, ledgerVars>>

DisputeCommit(h) ==
  LET b == request[h].booking IN
  /\ request[h].pc = "disputeCommit"
  /\ bookingStatus' = [bookingStatus EXCEPT ![b] = "DISPUTED"]
  /\ hold' = [hold EXCEPT ![b] = "none"]
  /\ disputes' = [disputes EXCEPT ![b] = @ + 1]
  /\ Finish(h)
  /\ UNCHANGED <<listingStatus, bookingListing, expiryJob, secured>>

-----------------------------------------------------------------------------
(* The hold-expiry worker.  A booking has one job, sent with attempts = 1,  *)
(* so a failed run goes to the dead-letter queue and is never retried.      *)

(* pg-boss starts the job once its delay has passed.  Without skew between *)
(* the database's clock and the worker's, the hold has lapsed by then.     *)
JobDue(b) == /\ expiryJob[b] = "queued"
             /\ hold[b] = "running" => ClockSkew

(* A mutant: the comparison of holdExpiresAt with now is the wrong way. *)
LapsedInverted(b) == hold[b] # "lapsed"

(* holdExpiresAt > now is false, by the worker's clock. *)
Lapsed(b) == hold[b] # "running"

(* The worker reads the booking and drops the job unless the hold lapsed. *)
ExpiryStart(b) ==
  /\ JobDue(b) /\ CanStart
  /\ expiryJob' = [expiryJob EXCEPT ![b] =
       IF bookingStatus[b] = "HELD" /\ Lapsed(b) THEN "active" ELSE "finished"]
  /\ UNCHANGED <<listingStatus, bookingVars, request, ledgerVars>>

ExpiryCommit(b) ==
  /\ expiryJob[b] = "active"
  /\ bookingStatus' = [bookingStatus EXCEPT ![b] = "CANCELLED"]
  /\ listingStatus' = [listingStatus EXCEPT ![bookingListing[b]] = "ACTIVE"]
  /\ expiryJob' = [expiryJob EXCEPT ![b] = "finished"]
  /\ UNCHANGED <<bookingListing, hold, request, ledgerVars>>

(* A database error, or a crashed worker whose job expires. *)
ExpiryFail(b) ==
  /\ JobDue(b) \/ expiryJob[b] = "active"
  /\ expiryJob' = [expiryJob EXCEPT ![b] = "dead"]
  /\ UNCHANGED <<listingStatus, bookingVars, request, ledgerVars>>

-----------------------------------------------------------------------------
(* The rest of the world. *)

(* holdExpiresAt passes. *)
Lapse(b) ==
  /\ hold[b] = "running"
  /\ hold' = [hold EXCEPT ![b] = "lapsed"]
  /\ UNCHANGED <<listingStatus, bookingStatus, bookingListing, expiryJob,
                 request, ledgerVars>>

(* AdminService.flagListing, and the listing update of a confirmed fraud    *)
(* report: both write FLAGGED over any status.                              *)
FlagListing(l) ==
  /\ listingStatus' = [listingStatus EXCEPT ![l] = "FLAGGED"]
  /\ UNCHANGED <<bookingVars, expiryJob, request, ledgerVars>>

(* A handler dies between two steps: lost connection, pg-boss not ready,    *)
(* process crash.  What it has committed stays.                             *)
Abort(h) ==
  /\ request[h].pc # "idle"
  /\ Finish(h)
  /\ UNCHANGED <<listingStatus, bookingVars, expiryJob, ledgerVars>>

-----------------------------------------------------------------------------
Init ==
  /\ listingStatus = [l \in Listings |-> "VERIFIED"]
  /\ bookingStatus = [b \in BookingIds |-> "AVAILABLE"]
  /\ bookingListing = [b \in BookingIds |-> NoListing]
  /\ hold = [b \in BookingIds |-> "none"]
  /\ expiryJob = [b \in BookingIds |-> "none"]
  /\ request = [h \in Handlers |-> Idle]
  /\ secured = [b \in BookingIds |-> 0]
  /\ disputes = [b \in BookingIds |-> 0]

HandlerStep(h) ==
  \/ CreateCheckActive(h) \/ CreateCommit(h) \/ CreateConflict(h)
  \/ CreateEnqueue(h)
  \/ ConfirmUpdate(h) \/ ConfirmConflict(h) \/ ConfirmListing(h)
  \/ ConfirmSecure(h)
  \/ CancelCommit(h) \/ CompleteCommit(h) \/ DisputeCommit(h)

HandlerBegin(h) ==
  \/ \E l \in Listings : CreateReadListing(h, l)
  \/ \E b \in BookingIds : \/ ConfirmRead(h, b) \/ CancelRead(h, b)
                           \/ CompleteRead(h, b) \/ DisputeRead(h, b)

Worker(b) == ExpiryStart(b) \/ ExpiryCommit(b) \/ ExpiryFail(b)

Next ==
  \/ \E h \in Handlers : HandlerBegin(h) \/ HandlerStep(h) \/ Abort(h)
  \/ \E b \in BookingIds : Worker(b) \/ Lapse(b)
  \/ \E l \in Listings : FlagListing(l)

Spec == Init /\ [][Next]_vars

(* The clock goes on, pg-boss polls its queue and a started job ends, and a *)
(* request goes on or dies (every await on the database has a timeout).     *)
Fairness ==
  /\ \A b \in BookingIds : WF_vars(Lapse(b)) /\ WF_vars(Worker(b))
  /\ \A h \in Handlers : WF_vars(HandlerStep(h) \/ Abort(h))

FairSpec == Spec /\ Fairness

-----------------------------------------------------------------------------
TypeOK ==
  /\ listingStatus \in [Listings -> ListingStatus]
  /\ bookingStatus \in [BookingIds -> BookingStatus]
  /\ bookingListing \in [BookingIds -> Listings \cup {NoListing}]
  /\ hold \in [BookingIds -> HoldState]
  /\ expiryJob \in [BookingIds -> JobState]
  /\ request \in [Handlers -> Request]
  /\ secured \in [BookingIds -> Nat]
  /\ disputes \in [BookingIds -> Nat]

-----------------------------------------------------------------------------
(* What holds however handlers and workers interleave. *)

(* No home is held or booked by two bookings at once, although createBooking *)
(* and confirmBooking check and write in different steps.                    *)
AtMostOneActive == \A l \in Listings : Cardinality(ActiveOn(l)) <= 1

(* The same promise as steps: a home changes hands only through a state in   *)
(* which nobody has it.  NoDoubleSale is the abstract specification.         *)
Sale == INSTANCE NoDoubleSale WITH Homes <- Listings, Tenants <- BookingIds,
                                   tenants <- [l \in Listings |-> ActiveOn(l)]
SaleSpec == Sale!Spec

(* A held booking is never completed or disputed without having been booked, *)
(* whatever a handler had read before the booking changed under it.          *)
HeldIsBookedFirst ==
  [][\A b \in BookingIds : bookingStatus[b] = "HELD" =>
       bookingStatus'[b] \in {"HELD", "BOOKED", "CANCELLED"}]_vars

(* The one run of the expiry job is enough: once it has finished, its hold is *)
(* over, and nothing can put the booking back on hold.  With skewed clocks    *)
(* the job can finish early and the hold then outlives it.                    *)
FinishedJobLeavesNoHold ==
  \A b \in BookingIds : expiryJob[b] = "finished" => bookingStatus[b] # "HELD"

(* Rows are created once: a row has a home for ever, and only a row has a job. *)
RowsOK ==
  \A b \in BookingIds :
    /\ bookingStatus[b] = "AVAILABLE" <=> bookingListing[b] = NoListing
    /\ bookingStatus[b] = "AVAILABLE" => expiryJob[b] = "none"

(* What a handler remembers while others change the rows under it: the       *)
(* booking it read still exists and is of the home it will write, and one    *)
(* that is about to complete or dispute a booking is not about a mere hold.  *)
RequestsOK ==
  \A h \in Handlers : LET r == request[h] IN
    /\ r.pc # "idle" => r.listing \in Listings
    /\ r.pc \notin {"idle", "createCheck", "createCommit"} =>
         /\ r.booking \in BookingIds
         /\ bookingListing[r.booking] = r.listing
    /\ r.pc \in {"completeCommit", "disputeCommit"} =>
         bookingStatus[r.booking] # "HELD"

-----------------------------------------------------------------------------
(* What holds while only one handler or job runs at a time. *)

(* A home that createBooking accepts has no active booking.  It holds of     *)
(* Bookings alone; the webhook books a booking whatever became of it, and    *)
(* leaves its home offered (see Payments).                                   *)
OfferedMeansFree ==
  \A l \in Listings : listingStatus[l] = "VERIFIED" => ActiveOn(l) = {}

(* A home is SOLD only while some booking of it has been confirmed and not   *)
(* cancelled since.                                                          *)
SoldMeansSecured ==
  \A l \in Listings : listingStatus[l] = "SOLD" =>
    \E b \in BookingIds : /\ bookingListing[b] = l
                          /\ bookingStatus[b] \in {"BOOKED", "COMPLETED", "DISPUTED"}

(* Each booking earns its owner BOOKING_SECURED trust points at most once. *)
SecuredAtMostOnce == \A b \in BookingIds : secured[b] <= 1

(* Every change of a status is one the state machine's table has. *)
StatusStepsLegal ==
  [][\A b \in BookingIds : bookingStatus'[b] # bookingStatus[b] =>
       CanTransition(bookingStatus[b], bookingStatus'[b])]_vars

-----------------------------------------------------------------------------
(* A hold whose job was sent ends, unless the job itself fails: it has one   *)
(* attempt.                                                                  *)
ScheduledHoldEnds ==
  \A b \in BookingIds :
    (bookingStatus[b] = "HELD" /\ expiryJob[b] = "queued")
      ~> (bookingStatus[b] # "HELD" \/ expiryJob[b] = "dead")

-----------------------------------------------------------------------------
(* What the documents and tests say, and the code does not do. *)

(* backend-documentry.md: HELD ends "on hold expiry or cancellation - by     *)
(* pg-boss delayed job".  createBooking commits the hold before it sends the *)
(* job, so a handler that dies between the two leaves a hold for ever.       *)
EveryHoldEnds ==
  \A b \in BookingIds :
    bookingStatus[b] = "HELD"
      ~> (bookingStatus[b] # "HELD" \/ expiryJob[b] = "dead")

(* booking-state-machine.spec.ts: COMPLETED and CANCELLED allow nothing.     *)
(* Handlers that read the booking before it ended write over the end.        *)
TerminalIsFinal ==
  [][\A b \in BookingIds : Terminal(bookingStatus[b]) =>
       bookingStatus'[b] = bookingStatus[b]]_vars

(* The expiry worker skips a booking that "is no longer HELD".  It decides   *)
(* before its transaction, so it can cancel one confirmed meanwhile.         *)
ExpirySparesConfirmed ==
  [][\A b \in BookingIds : ExpiryCommit(b) => bookingStatus[b] = "HELD"]_vars

(* An expired hold makes "the home ... available again" (releaseHold), and   *)
(* createBooking takes VERIFIED homes only.  The worker writes ACTIVE.       *)
ExpiryReopensHome ==
  [][\A b \in BookingIds : ExpiryCommit(b) =>
       listingStatus'[bookingListing[b]] = "VERIFIED"]_vars

(* A FLAGGED home needs a "support/admin action"; no action of this module   *)
(* is one that clears the flag.                                              *)
FlagSurvivesBookings ==
  [][\A l \in Listings : listingStatus[l] = "FLAGGED" =>
       listingStatus'[l] = "FLAGGED"]_vars

=============================================================================
