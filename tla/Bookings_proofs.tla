-------------------------- MODULE Bookings_proofs --------------------------
(***************************************************************************)
(* Theorems of Bookings, for any numbers of homes, bookings and request    *)
(* slots, any MaxInFlight, and for skewed clocks unless said otherwise.    *)
(***************************************************************************)
EXTENDS Bookings, FiniteSetTheorems, TLAPS

(* AtMostOneActive without cardinalities. *)
UniqueActive ==
  \A b, c \in BookingIds :
    /\ bookingListing[b] \in Listings
    /\ bookingListing[b] = bookingListing[c]
    /\ bookingStatus[b] \in ActiveStatus
    /\ bookingStatus[c] \in ActiveStatus
    => b = c

(* The inductive invariant. *)
IInv == TypeOK /\ RowsOK /\ RequestsOK /\ UniqueActive

-----------------------------------------------------------------------------
(* The groups of variables and the little definitions every action uses. *)
USE DEF bookingVars, ledgerVars

(* Only a held booking can be confirmed: what confirmBooking asks of the     *)
(* table.                                                                    *)
LEMMA OnlyHeldConfirms ==
  {s \in BookingStatus : CanTransition(s, "BOOKED")} = {"HELD"}
BY DEF BookingStatus, CanTransition, TRANSITIONS

(* A request only starts on a row, and on that row's home. *)
LEMMA ReadRow ==
  ASSUME IInv, NEW h \in Handlers, NEW b \in BookingIds, NEW E, NEW pc,
         "AVAILABLE" \notin E, pc \in Pc,
         pc \in {"completeCommit", "disputeCommit"} => "HELD" \notin E,
         ReadBooking(h, b, E, pc)
  PROVE  IInv'
<1> USE DEF IInv
<1>1. /\ bookingListing[b] \in Listings
      /\ request' = [request EXCEPT ![h] =
           [pc |-> pc, listing |-> bookingListing[b], booking |-> b]]
      /\ bookingStatus[b] \in E
  BY DEF ReadBooking, Goto, RowsOK, TypeOK
<1>2. UNCHANGED <<listingStatus, bookingStatus, bookingListing, hold,
                  expiryJob, secured, disputes>>
  BY DEF ReadBooking
<1>3. TypeOK'
  BY <1>1, <1>2 DEF TypeOK, Request
<1>4. RowsOK' /\ UniqueActive'
  BY <1>2 DEF RowsOK, UniqueActive
<1>5. RequestsOK'
  <2> SUFFICES ASSUME NEW g \in Handlers
               PROVE  LET r == request'[g] IN
                 /\ r.pc # "idle" => r.listing \in Listings
                 /\ r.pc \notin {"idle", "createCheck", "createCommit"} =>
                      /\ r.booking \in BookingIds
                      /\ bookingListing[r.booking] = r.listing
                 /\ r.pc \in {"completeCommit", "disputeCommit"} =>
                      bookingStatus[r.booking] # "HELD"
    BY <1>2 DEF RequestsOK
  <2>1. CASE g = h
    BY <1>1, <2>1 DEF TypeOK
  <2>2. CASE g # h
    BY <1>1, <2>2 DEF TypeOK, RequestsOK
  <2> QED BY <2>1, <2>2
<1> QED BY <1>3, <1>4, <1>5

(* A handler that ends, or moves to a step where it still writes the booking *)
(* it wrote before, leaves the invariant alone when the rows stay.           *)
LEMMA KeepRows ==
  ASSUME IInv, NEW h \in Handlers,
         UNCHANGED <<bookingVars, expiryJob, disputes>>,
         listingStatus' \in [Listings -> ListingStatus],
         secured' \in [BookingIds -> Nat],
         \/ UNCHANGED request
         \/ Finish(h)
         \/ \E l \in Listings : Goto(h, "createCheck", l, NoBooking)
         \/ /\ request[h].pc = "createCheck"
            /\ Goto(h, "createCommit", request[h].listing, NoBooking)
         \/ /\ request[h].pc = "confirmListing"
            /\ Goto(h, "confirmSecure", request[h].listing, request[h].booking)
  PROVE  IInv'
<1> USE DEF IInv
<1>1. TypeOK'
  <2>1. request' \in [Handlers -> Request]
    BY DEF TypeOK, Request, Pc, Finish, Goto, Idle
  <2> QED BY <2>1 DEF TypeOK
<1>2. RowsOK' /\ UniqueActive'
  BY DEF RowsOK, UniqueActive
<1>3. RequestsOK'
  BY DEF RequestsOK, TypeOK, Finish, Goto, Idle
<1> QED BY <1>1, <1>2, <1>3

(* Writing a status other than HELD over a row keeps rows unique and what    *)
(* the other handlers remember, provided the index allows it.                *)
LEMMA WriteStatus ==
  ASSUME IInv, NEW b \in BookingIds, NEW s \in BookingStatus \ {"AVAILABLE", "HELD"},
         bookingStatus[b] # "AVAILABLE",
         s \in ActiveStatus => IndexAllows(b, bookingListing[b]),
         bookingStatus' = [bookingStatus EXCEPT ![b] = s],
         UNCHANGED bookingListing
  PROVE  /\ bookingStatus' \in [BookingIds -> BookingStatus]
         /\ \A c \in BookingIds :
              bookingStatus'[c] = "AVAILABLE" <=> bookingListing'[c] = NoListing
         /\ \A c \in BookingIds :
              bookingStatus'[c] = "HELD" => bookingStatus[c] = "HELD"
         /\ UniqueActive'
<1> USE DEF IInv
<1>1. bookingStatus \in [BookingIds -> BookingStatus]
  BY DEF TypeOK
<1>2. /\ bookingStatus' \in [BookingIds -> BookingStatus]
      /\ bookingStatus'[b] = s
      /\ \A c \in BookingIds : c # b => bookingStatus'[c] = bookingStatus[c]
  BY <1>1
<1>3. UniqueActive'
  BY <1>1, <1>2 DEF UniqueActive, IndexAllows, ActiveOn
<1> QED BY <1>2, <1>3 DEF RowsOK

(* The three kinds of steps that write a status. *)
LEMMA CreateCommitInv ==
  ASSUME IInv, NEW h \in Handlers, CreateCommit(h)
  PROVE  IInv'
<1> USE DEF IInv
<1> DEFINE l == request[h].listing
<1>1. PICK b \in BookingIds :
        /\ bookingStatus[b] = "AVAILABLE"
        /\ IndexAllows(b, l)
        /\ bookingStatus' = [bookingStatus EXCEPT ![b] = "HELD"]
        /\ bookingListing' = [bookingListing EXCEPT ![b] = l]
        /\ hold' = [hold EXCEPT ![b] = "running"]
        /\ listingStatus' = [listingStatus EXCEPT ![l] = "INACTIVE"]
        /\ Goto(h, "createEnqueue", l, b)
  BY DEF CreateCommit
<1>2. /\ request[h].pc = "createCommit"
      /\ UNCHANGED <<expiryJob, secured, disputes>>
      /\ l \in Listings
  BY DEF CreateCommit, RequestsOK
<1>3. TypeOK'
  BY <1>1, <1>2 DEF TypeOK, Request, Pc, Goto, ListingStatus, BookingStatus, HoldState
<1>4. RowsOK'
  BY <1>1, <1>2, BookingsAssumption DEF TypeOK, RowsOK
<1>5. UniqueActive'
  BY <1>1, <1>2 DEF UniqueActive, TypeOK, IndexAllows, ActiveOn
<1>6. RequestsOK'
  <2> SUFFICES ASSUME NEW g \in Handlers
               PROVE  LET r == request'[g] IN
                 /\ r.pc # "idle" => r.listing \in Listings
                 /\ r.pc \notin {"idle", "createCheck", "createCommit"} =>
                      /\ r.booking \in BookingIds
                      /\ bookingListing'[r.booking] = r.listing
                 /\ r.pc \in {"completeCommit", "disputeCommit"} =>
                      bookingStatus'[r.booking] # "HELD"
    BY DEF RequestsOK
  <2>1. CASE g = h
    BY <1>1, <1>2, <2>1 DEF TypeOK, Goto
  <2>2. CASE g # h
    <3>1. request'[g] = request[g]
      BY <1>1, <2>2 DEF TypeOK, Goto
    <3>2. /\ bookingListing[b] = NoListing
          /\ NoListing \notin Listings
      BY <1>1, BookingsAssumption DEF RowsOK
    <3> QED BY <1>1, <3>1, <3>2 DEF TypeOK, RequestsOK
  <2> QED BY <2>1, <2>2
<1> QED BY <1>3, <1>4, <1>5, <1>6

LEMMA HandlerWriteInv ==
  ASSUME IInv, NEW h \in Handlers,
         \/ ConfirmUpdate(h) \/ CancelCommit(h)
         \/ CompleteCommit(h) \/ DisputeCommit(h)
  PROVE  IInv'
<1> USE DEF IInv
<1> DEFINE b == request[h].booking
<1>1. PICK s \in {"BOOKED", "CANCELLED", "COMPLETED", "DISPUTED"} :
        /\ bookingStatus' = [bookingStatus EXCEPT ![b] = s]
        /\ s = "BOOKED" => IndexAllows(b, bookingListing[b])
  BY DEF ConfirmUpdate, CancelCommit, CompleteCommit, DisputeCommit
<1>2. /\ request[h].pc \notin {"idle", "createCheck", "createCommit"}
      /\ UNCHANGED <<bookingListing, expiryJob>>
  BY DEF ConfirmUpdate, CancelCommit, CompleteCommit, DisputeCommit
<1>3. /\ b \in BookingIds
      /\ request[h].listing \in Listings
      /\ bookingListing[b] = request[h].listing
  BY <1>2 DEF RequestsOK
<1>4. bookingStatus[b] # "AVAILABLE"
  BY <1>3, BookingsAssumption DEF RowsOK
<1>5. /\ s \in BookingStatus \ {"AVAILABLE", "HELD"}
      /\ s \in ActiveStatus => s = "BOOKED"
  BY DEF BookingStatus, ActiveStatus
<1>6. /\ bookingStatus' \in [BookingIds -> BookingStatus]
      /\ \A c \in BookingIds :
           bookingStatus'[c] = "AVAILABLE" <=> bookingListing'[c] = NoListing
      /\ \A c \in BookingIds :
           bookingStatus'[c] = "HELD" => bookingStatus[c] = "HELD"
      /\ UniqueActive'
  BY <1>1, <1>2, <1>3, <1>4, <1>5, WriteStatus
<1>7. \/ Finish(h)
      \/ Goto(h, "confirmListing", request[h].listing, b)
  BY DEF ConfirmUpdate, CancelCommit, CompleteCommit, DisputeCommit
<1>8. TypeOK'
  <2>1. /\ hold' \in [BookingIds -> HoldState]
        /\ listingStatus' \in [Listings -> ListingStatus]
        /\ secured' \in [BookingIds -> Nat]
        /\ disputes' \in [BookingIds -> Nat]
    BY <1>3 DEF TypeOK, ConfirmUpdate, CancelCommit, CompleteCommit,
                DisputeCommit, HoldState, ListingStatus
  <2>2. request' \in [Handlers -> Request]
    BY <1>3, <1>7 DEF TypeOK, Request, Pc, Finish, Goto, Idle
  <2> QED BY <1>2, <1>6, <2>1, <2>2 DEF TypeOK
<1>9. RowsOK'
  BY <1>2, <1>6 DEF RowsOK
<1>10. RequestsOK'
  BY <1>2, <1>3, <1>6, <1>7 DEF RequestsOK, TypeOK, Finish, Goto, Idle
<1> QED BY <1>6, <1>8, <1>9, <1>10

LEMMA WorkerInv ==
  ASSUME IInv, NEW b \in BookingIds, Worker(b) \/ Lapse(b)
  PROVE  IInv'
<1> USE DEF IInv
<1>1. CASE ExpiryCommit(b)
  <2>1. /\ bookingStatus' = [bookingStatus EXCEPT ![b] = "CANCELLED"]
        /\ expiryJob' = [expiryJob EXCEPT ![b] = "finished"]
        /\ listingStatus' =
             [listingStatus EXCEPT ![bookingListing[b]] = "ACTIVE"]
        /\ UNCHANGED <<bookingListing, hold, request, secured, disputes>>
    BY <1>1 DEF ExpiryCommit
  <2>2. bookingStatus[b] # "AVAILABLE"
    BY <1>1 DEF ExpiryCommit, RowsOK
  <2>3. "CANCELLED" \in BookingStatus \ {"AVAILABLE", "HELD"}
        /\ "CANCELLED" \notin ActiveStatus
    BY DEF BookingStatus, ActiveStatus
  <2>4. /\ bookingStatus' \in [BookingIds -> BookingStatus]
        /\ \A c \in BookingIds :
             bookingStatus'[c] = "AVAILABLE" <=> bookingListing'[c] = NoListing
        /\ \A c \in BookingIds :
             bookingStatus'[c] = "HELD" => bookingStatus[c] = "HELD"
        /\ UniqueActive'
    BY <2>1, <2>2, <2>3, WriteStatus
  <2>5. TypeOK'
    BY <2>1, <2>4 DEF TypeOK, ListingStatus, JobState
  <2>6. RowsOK'
    BY <2>1, <2>2, <2>4 DEF RowsOK, TypeOK
  <2>7. RequestsOK'
    BY <2>1, <2>4 DEF RequestsOK
  <2> QED BY <2>4, <2>5, <2>6, <2>7
<1>2. CASE ExpiryStart(b) \/ ExpiryFail(b) \/ Lapse(b)
  <2>1. UNCHANGED <<listingStatus, bookingStatus, bookingListing, request,
                    secured, disputes>>
    BY <1>2 DEF ExpiryStart, ExpiryFail, Lapse
  <2>2. TypeOK'
    BY <1>2, <2>1 DEF TypeOK, ExpiryStart, ExpiryFail, Lapse, JobState, HoldState
  <2>3. RowsOK'
    BY <1>2, <2>1 DEF TypeOK, RowsOK, ExpiryStart, ExpiryFail, Lapse, JobDue
  <2>4. RequestsOK' /\ UniqueActive'
    BY <2>1 DEF RequestsOK, UniqueActive
  <2> QED BY <2>2, <2>3, <2>4
<1> QED BY <1>1, <1>2 DEF Worker

LEMMA CreateEnqueueInv ==
  ASSUME IInv, NEW h \in Handlers, CreateEnqueue(h)
  PROVE  IInv'
<1> USE DEF IInv
<1> DEFINE b == request[h].booking
<1>1. /\ request[h].pc = "createEnqueue"
      /\ expiryJob' = [expiryJob EXCEPT ![b] = "queued"]
      /\ Finish(h)
      /\ UNCHANGED <<listingStatus, bookingStatus, bookingListing, hold,
                     secured, disputes>>
  BY DEF CreateEnqueue
<1>2. /\ b \in BookingIds
      /\ bookingStatus[b] # "AVAILABLE"
  BY <1>1, BookingsAssumption DEF RequestsOK, RowsOK
<1>3. TypeOK'
  BY <1>1 DEF TypeOK, Request, Pc, Finish, Idle, JobState
<1>4. RowsOK' /\ UniqueActive'
  BY <1>1, <1>2 DEF RowsOK, UniqueActive, TypeOK
<1>5. RequestsOK'
  BY <1>1 DEF RequestsOK, TypeOK, Finish, Idle
<1> QED BY <1>3, <1>4, <1>5

-----------------------------------------------------------------------------
LEMMA InitInv == Init => IInv
<1> SUFFICES ASSUME Init PROVE IInv
  OBVIOUS
<1>1. TypeOK
  BY DEF Init, TypeOK, ListingStatus, BookingStatus, HoldState, JobState,
         Request, Idle, Pc
<1>2. RowsOK /\ RequestsOK
  BY DEF Init, RowsOK, RequestsOK, Idle
<1>3. UniqueActive
  BY DEF Init, UniqueActive, ActiveStatus
<1> QED BY <1>1, <1>2, <1>3 DEF IInv

LEMMA NextInv == IInv /\ [Next]_vars => IInv'
<1> SUFFICES ASSUME IInv, [Next]_vars PROVE IInv'
  OBVIOUS
<1>1. CASE UNCHANGED vars
  BY <1>1 DEF vars, IInv, TypeOK, RowsOK, RequestsOK, UniqueActive
<1>2. ASSUME NEW h \in Handlers, HandlerBegin(h) PROVE IInv'
  <2>1. ASSUME NEW l \in Listings, CreateReadListing(h, l) PROVE IInv'
    <3>1. /\ Goto(h, "createCheck", l, NoBooking)
          /\ UNCHANGED <<listingStatus, bookingVars, expiryJob, secured, disputes>>
      BY <2>1 DEF CreateReadListing
    <3> QED BY <3>1, KeepRows DEF IInv, TypeOK
  <2>2. ASSUME NEW b \in BookingIds, ConfirmRead(h, b) PROVE IInv'
    <3>1. ReadBooking(h, b, {"HELD"}, "confirmUpdate")
      BY <2>2, OnlyHeldConfirms DEF ConfirmRead
    <3> QED BY <3>1, ReadRow DEF Pc
  <2>3. ASSUME NEW b \in BookingIds, CancelRead(h, b) PROVE IInv'
    BY <2>3, ReadRow DEF CancelRead, Pc
  <2>4. ASSUME NEW b \in BookingIds, CompleteRead(h, b) PROVE IInv'
    BY <2>4, ReadRow DEF CompleteRead, Pc
  <2>5. ASSUME NEW b \in BookingIds, DisputeRead(h, b) PROVE IInv'
    BY <2>5, ReadRow DEF DisputeRead, Pc
  <2> QED BY <1>2, <2>1, <2>2, <2>3, <2>4, <2>5 DEF HandlerBegin
<1>3. ASSUME NEW h \in Handlers, HandlerStep(h) PROVE IInv'
  <2>1. CASE CreateCheckActive(h)
    BY <2>1, KeepRows DEF CreateCheckActive, IInv, TypeOK
  <2>2. CASE CreateCommit(h)
    BY <2>2, CreateCommitInv
  <2>3. CASE CreateConflict(h) \/ ConfirmConflict(h)
    BY <2>3, KeepRows DEF CreateConflict, ConfirmConflict, IInv, TypeOK
  <2>4. CASE CreateEnqueue(h)
    BY <2>4, CreateEnqueueInv
  <2>5. CASE ConfirmListing(h)
    <3>1. listingStatus' \in [Listings -> ListingStatus]
      BY <2>5 DEF ConfirmListing, IInv, TypeOK, ListingStatus
    <3> QED BY <2>5, <3>1, KeepRows DEF ConfirmListing, IInv, TypeOK
  <2>6. CASE ConfirmSecure(h)
    <3>1. request[h].booking \in BookingIds
      BY <2>6 DEF ConfirmSecure, IInv, RequestsOK
    <3>2. secured' \in [BookingIds -> Nat]
      BY <2>6, <3>1 DEF ConfirmSecure, IInv, TypeOK
    <3> QED BY <2>6, <3>2, KeepRows DEF ConfirmSecure, IInv, TypeOK
  <2>7. CASE ConfirmUpdate(h) \/ CancelCommit(h) \/ CompleteCommit(h)
             \/ DisputeCommit(h)
    BY <2>7, HandlerWriteInv
  <2> QED BY <1>3, <2>1, <2>2, <2>3, <2>4, <2>5, <2>6, <2>7 DEF HandlerStep
<1>4. ASSUME NEW h \in Handlers, Abort(h) PROVE IInv'
  BY <1>4, KeepRows DEF Abort, IInv, TypeOK
<1>5. ASSUME NEW b \in BookingIds, Worker(b) \/ Lapse(b) PROVE IInv'
  BY <1>5, WorkerInv
<1>6. ASSUME NEW l \in Listings, FlagListing(l) PROVE IInv'
  <2>1. listingStatus' \in [Listings -> ListingStatus]
    BY <1>6 DEF FlagListing, IInv, TypeOK, ListingStatus
  <2>2. UNCHANGED <<bookingVars, expiryJob, request, secured, disputes>>
    BY <1>6 DEF FlagListing
  <2>3. IInv'
    BY <2>1, <2>2 DEF IInv, TypeOK, RowsOK, RequestsOK, UniqueActive
  <2> QED BY <2>3
<1> QED BY <1>1, <1>2, <1>3, <1>4, <1>5, <1>6 DEF Next

THEOREM Invariance == Spec => []IInv
<1>1. Init => IInv
  BY InitInv
<1>2. IInv /\ [Next]_vars => IInv'
  BY NextInv
<1> QED BY <1>1, <1>2, PTL DEF Spec

-----------------------------------------------------------------------------
(* Every variable keeps its type: nothing a handler remembers lets it write  *)
(* a row or a status the tables do not have.                                 *)
THEOREM TypeCorrect == Spec => []TypeOK
BY Invariance, PTL DEF IInv

(* What a handler remembers stays true enough of the rows it will write.     *)
THEOREM RequestsStayValid == Spec => []RequestsOK
BY Invariance, PTL DEF IInv

(* The homes some booking is active on are {} or one booking. *)
LEMMA ActiveOnShape ==
  ASSUME IInv, NEW l \in Listings
  PROVE  ActiveOn(l) = {} \/ \E b \in BookingIds : ActiveOn(l) = {b}
BY DEF IInv, UniqueActive, ActiveOn

LEMMA OneActive == IInv => AtMostOneActive
<1> SUFFICES ASSUME IInv, NEW l \in Listings
             PROVE  Cardinality(ActiveOn(l)) <= 1
  BY DEF AtMostOneActive
<1>1. CASE ActiveOn(l) = {}
  BY <1>1, FS_EmptySet
<1>2. CASE \E b \in BookingIds : ActiveOn(l) = {b}
  BY <1>2, FS_Singleton
<1> QED BY <1>1, <1>2, ActiveOnShape

(* No home is held or booked by two bookings at once, for any number of      *)
(* concurrent handlers and workers.                                          *)
THEOREM NoDoubleBooking == Spec => []AtMostOneActive
BY OneActive, Invariance, PTL

-----------------------------------------------------------------------------
(* What one step does to the rows: it writes at most one booking b, of home  *)
(* l, the index allows what it writes, and a hold is only created with its   *)
(* row and only left for BOOKED or CANCELLED.                                *)
WritesRow(b, l, s) ==
  /\ bookingStatus' = [bookingStatus EXCEPT ![b] = s]
  /\ bookingListing' = [bookingListing EXCEPT ![b] = l]
  /\ \/ bookingListing[b] = l
     \/ bookingStatus[b] = "AVAILABLE"
  /\ s \in ActiveStatus => IndexAllows(b, l)
  /\ s = "HELD" => bookingStatus[b] = "AVAILABLE"
  /\ bookingStatus[b] = "HELD" => s \in {"BOOKED", "CANCELLED"}

LEMMA RowChange ==
  ASSUME IInv, [Next]_vars
  PROVE  \/ UNCHANGED <<bookingStatus, bookingListing>>
         \/ \E b \in BookingIds, l \in Listings, s \in BookingStatus :
              WritesRow(b, l, s)
<1> DEFINE Goal == \/ UNCHANGED <<bookingStatus, bookingListing>>
                   \/ \E b \in BookingIds, l \in Listings, s \in BookingStatus :
                        WritesRow(b, l, s)
<1> USE DEF IInv
<1>1. CASE UNCHANGED vars
  BY <1>1 DEF vars
<1>2. ASSUME NEW h \in Handlers, HandlerBegin(h) \/ Abort(h) PROVE Goal
  BY <1>2 DEF HandlerBegin, Abort, CreateReadListing, ConfirmRead, CancelRead,
              CompleteRead, DisputeRead, ReadBooking
<1>3. ASSUME NEW h \in Handlers, HandlerStep(h) PROVE Goal
  <2> DEFINE b == request[h].booking
             l == request[h].listing
  <2>1. CASE CreateCommit(h)
    <3>1. l \in Listings
      BY <2>1 DEF CreateCommit, RequestsOK
    <3>2. PICK c \in BookingIds :
            /\ bookingStatus[c] = "AVAILABLE"
            /\ IndexAllows(c, l)
            /\ bookingStatus' = [bookingStatus EXCEPT ![c] = "HELD"]
            /\ bookingListing' = [bookingListing EXCEPT ![c] = l]
      BY <2>1 DEF CreateCommit
    <3>3. WritesRow(c, l, "HELD")
      BY <3>2 DEF WritesRow
    <3> QED BY <3>1, <3>3 DEF BookingStatus
  <2>2. CASE ConfirmUpdate(h) \/ CancelCommit(h) \/ CompleteCommit(h)
             \/ DisputeCommit(h)
    <3>1. PICK s \in {"BOOKED", "CANCELLED", "COMPLETED", "DISPUTED"} :
            /\ bookingStatus' = [bookingStatus EXCEPT ![b] = s]
            /\ s = "BOOKED" => IndexAllows(b, bookingListing[b])
            /\ s \in {"COMPLETED", "DISPUTED"} =>
                 request[h].pc \in {"completeCommit", "disputeCommit"}
            /\ UNCHANGED bookingListing
      BY <2>2 DEF ConfirmUpdate, CancelCommit, CompleteCommit, DisputeCommit
    <3>2. /\ b \in BookingIds
          /\ l \in Listings
          /\ bookingListing[b] = l
          /\ s \in {"COMPLETED", "DISPUTED"} => bookingStatus[b] # "HELD"
      BY <2>2, <3>1 DEF RequestsOK, ConfirmUpdate, CancelCommit,
                        CompleteCommit, DisputeCommit
    <3>3. WritesRow(b, l, s)
      BY <3>1, <3>2 DEF WritesRow, TypeOK, ActiveStatus
    <3> QED BY <3>2, <3>3 DEF BookingStatus
  <2>3. CASE \/ CreateCheckActive(h) \/ CreateConflict(h) \/ CreateEnqueue(h)
             \/ ConfirmConflict(h) \/ ConfirmListing(h) \/ ConfirmSecure(h)
    BY <2>3 DEF CreateCheckActive, CreateConflict, CreateEnqueue,
                ConfirmConflict, ConfirmListing, ConfirmSecure
  <2> QED BY <1>3, <2>1, <2>2, <2>3 DEF HandlerStep
<1>4. ASSUME NEW b \in BookingIds, Worker(b) \/ Lapse(b) PROVE Goal
  <2>1. CASE ExpiryCommit(b)
    <3>1. bookingListing[b] \in Listings
      BY <2>1 DEF ExpiryCommit, RowsOK, TypeOK
    <3>2. WritesRow(b, bookingListing[b], "CANCELLED")
      BY <2>1 DEF ExpiryCommit, WritesRow, TypeOK, ActiveStatus
    <3> QED BY <3>1, <3>2 DEF BookingStatus
  <2>2. CASE ExpiryStart(b) \/ ExpiryFail(b) \/ Lapse(b)
    BY <2>2 DEF ExpiryStart, ExpiryFail, Lapse
  <2> QED BY <1>4, <2>1, <2>2 DEF Worker
<1>5. ASSUME NEW l \in Listings, FlagListing(l) PROVE Goal
  BY <1>5 DEF FlagListing
<1> QED BY <1>1, <1>2, <1>3, <1>4, <1>5 DEF Next

(* A held booking is booked or cancelled before anything else happens to it. *)
THEOREM HeldThenBooked == Spec => HeldIsBookedFirst
<1>1. IInv /\ [Next]_vars =>
        [\A b \in BookingIds : bookingStatus[b] = "HELD" =>
           bookingStatus'[b] \in {"HELD", "BOOKED", "CANCELLED"}]_vars
  BY RowChange DEF WritesRow, IInv, TypeOK
<1> QED BY <1>1, Invariance, PTL DEF Spec, HeldIsBookedFirst

(* When the clocks agree, no hold outlives its finished job. *)
THEOREM OneRunIsEnough ==
  ASSUME ClockSkew = FALSE
  PROVE  Spec => []FinishedJobLeavesNoHold
<1>1. Init => FinishedJobLeavesNoHold
  BY DEF Init, FinishedJobLeavesNoHold
<1>2. IInv /\ FinishedJobLeavesNoHold /\ [Next]_vars => FinishedJobLeavesNoHold'
  <2> SUFFICES ASSUME IInv, FinishedJobLeavesNoHold, [Next]_vars,
                      NEW b \in BookingIds, expiryJob'[b] = "finished"
               PROVE  bookingStatus'[b] # "HELD"
    BY DEF FinishedJobLeavesNoHold
  <2>1. bookingStatus'[b] = "HELD" => bookingStatus[b] \in {"HELD", "AVAILABLE"}
    BY RowChange DEF WritesRow, IInv, TypeOK
  <2>2. CASE expiryJob[b] = "finished"
    BY <2>1, <2>2 DEF FinishedJobLeavesNoHold, IInv, RowsOK
  <2>3. CASE expiryJob[b] # "finished"
    <3>1. ExpiryStart(b) \/ ExpiryCommit(b)
      BY <2>3 DEF Next, vars, HandlerBegin, HandlerStep, Abort, Worker,
                  CreateReadListing, CreateCheckActive, CreateCommit,
                  CreateConflict, CreateEnqueue, ReadBooking, ConfirmRead,
                  CancelRead, CompleteRead, DisputeRead, ConfirmUpdate,
                  ConfirmConflict, ConfirmListing, ConfirmSecure, CancelCommit,
                  CompleteCommit, DisputeCommit, ExpiryStart, ExpiryCommit,
                  ExpiryFail, Lapse, FlagListing, IInv, TypeOK
    <3>2. CASE ExpiryStart(b)
      BY <2>3, <3>2 DEF ExpiryStart, JobDue, Lapsed, IInv, TypeOK
    <3>3. CASE ExpiryCommit(b)
      BY <3>3 DEF ExpiryCommit, IInv, TypeOK
    <3> QED BY <3>1, <3>2, <3>3
  <2> QED BY <2>2, <2>3
<1> QED BY <1>1, <1>2, Invariance, PTL DEF Spec

(* A step that writes a row as above, or none, is a step of the abstract     *)
(* promise or a stutter.                                                     *)
LEMMA SaleStep ==
  ASSUME IInv,
         \/ UNCHANGED <<bookingStatus, bookingListing>>
         \/ \E b \in BookingIds, l \in Listings, s \in BookingStatus : WritesRow(b, l, s)
  PROVE  [Sale!Next]_[l \in Listings |-> ActiveOn(l)]
<1> DEFINE bar == [l \in Listings |-> ActiveOn(l)]
<1>1. CASE UNCHANGED <<bookingStatus, bookingListing>>
  <2>1. ASSUME NEW l \in Listings PROVE ActiveOn(l)' = ActiveOn(l)
    BY <1>1 DEF ActiveOn
  <2> QED BY <2>1
<1>2. ASSUME NEW b \in BookingIds, NEW l \in Listings,
             NEW s \in BookingStatus, WritesRow(b, l, s)
      PROVE  [Sale!Next]_bar
  <2> USE DEF WritesRow
  <2>1. ASSUME NEW k \in Listings, k # l PROVE ActiveOn(k)' = ActiveOn(k)
    BY <1>2, <2>1, BookingsAssumption DEF ActiveOn, IInv, TypeOK, RowsOK, ActiveStatus
  <2>2. ActiveOn(l)' =
          (ActiveOn(l) \ {b}) \cup (IF s \in ActiveStatus THEN {b} ELSE {})
    BY <1>2 DEF ActiveOn, IInv, TypeOK, ActiveStatus
  <2>3. /\ bar' = [bar EXCEPT ![l] = ActiveOn(l)']
        /\ bar[l] = ActiveOn(l)
    BY <2>1
  <2>4. \/ ActiveOn(l) = {} /\ ActiveOn(l)' = {b}
        \/ ActiveOn(l) # {} /\ ActiveOn(l)' = {}
        \/ ActiveOn(l)' = ActiveOn(l)
    <3>1. CASE s \in ActiveStatus
      BY <1>2, <2>2, <3>1 DEF IndexAllows
    <3>2. CASE s \notin ActiveStatus
      BY <2>2, <3>2, ActiveOnShape
    <3> QED BY <3>1, <3>2
  <2>5. CASE ActiveOn(l) = {} /\ ActiveOn(l)' = {b}
    <3>1. Sale!Take(l, b)
      BY <2>3, <2>5 DEF Sale!Take
    <3> QED BY <3>1 DEF Sale!Next
  <2>6. CASE ActiveOn(l) # {} /\ ActiveOn(l)' = {}
    <3>1. Sale!Release(l)
      BY <2>3, <2>6 DEF Sale!Release
    <3> QED BY <3>1 DEF Sale!Next
  <2>7. CASE ActiveOn(l)' = ActiveOn(l)
    BY <2>3, <2>7
  <2> QED BY <2>4, <2>5, <2>6, <2>7
<1> QED BY <1>1, <1>2

LEMMA SaleInit == Init => Sale!Init
<1> SUFFICES ASSUME Init, NEW l \in Listings PROVE ActiveOn(l) = {}
  BY DEF Sale!Init
<1> QED BY DEF Init, ActiveOn, ActiveStatus

(* Bookings implements the abstract promise: a home passes from one tenant   *)
(* to nobody before it passes to another.                                    *)
THEOREM ImplementsNoDoubleSale == Spec => SaleSpec
<1>1. Init => Sale!Init
  BY SaleInit
<1>2. IInv /\ [Next]_vars => [Sale!Next]_[l \in Listings |-> ActiveOn(l)]
  BY SaleStep, RowChange
<1> QED BY <1>1, <1>2, Invariance, PTL DEF Spec, SaleSpec, Sale!Spec

=============================================================================
