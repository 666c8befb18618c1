--------------------------- MODULE Payments_proofs ---------------------------
(***************************************************************************)
(* Theorems of Payments, for any numbers of payments and of requests and   *)
(* webhooks that overlap, with any number of bookings and homes.           *)
(***************************************************************************)
EXTENDS Payments, Bookings_proofs

Inserts == {"hookReceipt", "hookCommit"}
Paid    == {"verifySuccess", "hookLock", "hookEscrow"} \cup Inserts
Hooked  == {"hookLock", "hookEscrow"} \cup Inserts

(* A payment's row is of one booking, whose row exists. *)
PaymentRows ==
  \A p \in PaymentIds :
    /\ paymentStatus[p] = "none" <=> paymentBooking[p] = NoBooking
    /\ paymentStatus[p] = "none" => ~escrow[p]
    /\ paymentBooking[p] # NoBooking => bookingStatus[paymentBooking[p]] # "AVAILABLE"

(* What a request remembers is true while others write. *)
CallsOK ==
  \A c \in Callers :
    /\ call[c].pc = "startCreate" =>
         call[c].booking \in BookingIds /\ bookingStatus[call[c].booking] # "AVAILABLE"
    /\ call[c].pc \notin {"idle", "startCreate"} =>
         call[c].payment \in PaymentIds /\ paymentStatus[call[c].payment] # "none"
    /\ call[c].pc \in Paid => "success" \in charges[call[c].payment]
    /\ call[c].pc \in Hooked =>
         call[c].booking = paymentBooking[call[c].payment] /\ call[c].booking \in BookingIds
    /\ call[c].pc = "hookCommit" => receipt[call[c].payment]

(* One transaction at a time has inserted an escrow for a booking, and it    *)
(* found none.                                                               *)
OneInserts ==
  \A c, d \in Callers :
    call[c].pc \in Inserts /\ call[d].pc \in Inserts /\ call[c].booking = call[d].booking
      => c = d

InsertsFirst ==
  \A c \in Callers, p \in PaymentIds :
    call[c].pc \in Inserts /\ paymentBooking[p] = call[c].booking => ~escrow[p]

(* The inductive invariant. *)
PayInv == /\ PayTypeOK /\ IInv /\ PaymentRows /\ CallsOK /\ OneInserts /\ InsertsFirst
          /\ EscrowHasReceipt /\ OneEscrowPerBooking /\ RecordedMeansCharged

(* The conjuncts about escrows and receipts. *)
Ledger == EscrowHasReceipt /\ OneEscrowPerBooking /\ RecordedMeansCharged

-----------------------------------------------------------------------------
LEMMA CallTypes ==
  /\ NoCall \in Call
  /\ \A pc \in CallPc, p \in PaymentIds \cup {NoPayment}, b \in BookingIds \cup {NoBooking} :
       [pc |-> pc, payment |-> p, booking |-> b] \in Call
BY DEF NoCall, Call, CallPc

LEMMA CallIn ==
  ASSUME PayTypeOK, NEW c \in Callers
  PROVE  /\ call[c].pc \in CallPc
         /\ call[c].payment \in PaymentIds \cup {NoPayment}
         /\ call[c].booking \in BookingIds \cup {NoBooking}
BY DEF PayTypeOK, Call

LEMMA PayInitInv == PayInit => PayInv
<1> SUFFICES ASSUME PayInit PROVE PayInv
  OBVIOUS
<1>1. IInv
  BY InitInv DEF PayInit
<1>2. PayTypeOK
  BY <1>1, CallTypes DEF PayInit, PayTypeOK, IInv, PaymentStatus
<1>3. \A c \in Callers : call[c].pc = "idle"
  BY DEF PayInit, NoCall
<1>4. PaymentRows /\ Ledger
  BY DEF PayInit, PaymentRows, Ledger, EscrowHasReceipt, OneEscrowPerBooking,
         RecordedMeansCharged
<1>5. CallsOK /\ OneInserts /\ InsertsFirst
  BY <1>3 DEF CallsOK, OneInserts, InsertsFirst, Inserts, Paid, Hooked
<1> QED BY <1>1, <1>2, <1>4, <1>5 DEF PayInv, Ledger

(* A step of a booking makes no row of a booking disappear. *)
LEMMA BookingStep ==
  ASSUME PayInv, [Next]_vars, UNCHANGED <<payVars, call>>
  PROVE  PayInv'
<1>1. IInv'
  BY NextInv DEF PayInv
<1>2. \A b \in BookingIds : bookingStatus[b] # "AVAILABLE" => bookingStatus'[b] # "AVAILABLE"
  <2>1. CASE UNCHANGED <<bookingStatus, bookingListing>>
    BY <2>1
  <2>2. ASSUME NEW a \in BookingIds, NEW l \in Listings, NEW s \in BookingStatus,
               WritesRow(a, l, s)
        PROVE  \A b \in BookingIds :
                 bookingStatus[b] # "AVAILABLE" => bookingStatus'[b] # "AVAILABLE"
    <3>1. /\ bookingListing' = [bookingListing EXCEPT ![a] = l]
          /\ bookingStatus' = [bookingStatus EXCEPT ![a] = s]
      BY <2>2 DEF WritesRow
    <3>2. bookingListing'[a] = l /\ l # NoListing
      BY <3>1, BookingsAssumption DEF PayInv, IInv, TypeOK
    <3>3. bookingStatus'[a] # "AVAILABLE"
      BY <1>1, <3>2 DEF IInv, RowsOK
    <3> QED BY <3>1, <3>3 DEF PayInv, IInv, TypeOK
  <2> QED BY <2>1, <2>2, RowChange DEF PayInv
<1> USE DEF payVars
<1>3. PayTypeOK'
  BY <1>1 DEF PayInv, PayTypeOK, IInv
<1>4. PaymentRows'
  BY <1>2 DEF PayInv, PaymentRows, PayTypeOK
<1>5. CallsOK'
  BY <1>2 DEF PayInv, CallsOK
<1>6. OneInserts' /\ InsertsFirst'
  BY DEF PayInv, OneInserts, InsertsFirst
<1>7. Ledger'
  BY DEF PayInv, Ledger, EscrowHasReceipt, OneEscrowPerBooking, RecordedMeansCharged
<1> QED BY <1>1, <1>3, <1>4, <1>5, <1>6, <1>7 DEF PayInv, Ledger

(* The tables stay, and one request goes on to what it may remember.         *)
LEMMA CallGoesOn ==
  ASSUME PayInv, UNCHANGED <<vars, payVars>>, NEW c \in Callers, NEW pc \in CallPc,
         NEW p \in PaymentIds \cup {NoPayment}, NEW b \in BookingIds \cup {NoBooking},
         Step(c, pc, p, b),
         pc = "startCreate" => b \in BookingIds /\ bookingStatus[b] # "AVAILABLE",
         pc \notin {"idle", "startCreate"} => p \in PaymentIds /\ paymentStatus[p] # "none",
         pc \in Paid => "success" \in charges[p],
         pc \in Hooked => b = paymentBooking[p] /\ b \in BookingIds,
         pc = "hookCommit" => receipt[p],
         pc \in Inserts =>
           /\ \A d \in Callers \ {c} : call[d].pc \in Inserts => call[d].booking # b
           /\ \A q \in PaymentIds : paymentBooking[q] = b => ~escrow[q]
  PROVE  PayInv'
<1> USE DEF vars, payVars
<1>1. /\ call'[c].pc = pc /\ call'[c].payment = p /\ call'[c].booking = b
      /\ \A d \in Callers \ {c} : call'[d] = call[d]
      /\ call' \in [Callers -> Call]
  BY CallTypes DEF Step, PayInv, PayTypeOK
<1>2. PayTypeOK' /\ IInv'
  BY <1>1 DEF PayInv, PayTypeOK, IInv, TypeOK, RowsOK, RequestsOK, UniqueActive
<1>3. PaymentRows' /\ Ledger'
  BY DEF PayInv, PaymentRows, Ledger, EscrowHasReceipt, OneEscrowPerBooking,
         RecordedMeansCharged
<1>4. CallsOK'
  BY <1>1 DEF PayInv, CallsOK
<1>5. OneInserts'
  BY <1>1 DEF PayInv, OneInserts
<1>6. InsertsFirst'
  BY <1>1 DEF PayInv, InsertsFirst
<1> QED BY <1>2, <1>3, <1>4, <1>5, <1>6 DEF PayInv, Ledger

LEMMA CallEnds ==
  ASSUME PayInv, UNCHANGED <<vars, payVars>>, NEW c \in Callers, Return(c)
  PROVE  PayInv'
<1>1. Step(c, "idle", NoPayment, NoBooking)
  BY DEF Return, Step, NoCall
<1> QED BY <1>1, CallGoesOn DEF CallPc, Inserts, Paid, Hooked

-----------------------------------------------------------------------------
(* The steps that write. *)

(* Only the status of a payment is written, and the request is done. *)
LEMMA StatusWritten ==
  ASSUME PayInv, NEW c \in Callers, NEW p \in PaymentIds, NEW x \in {"SUCCESS", "FAILED"},
         paymentStatus[p] # "none", x = "SUCCESS" => "success" \in charges[p],
         SetPayment(p, x), Return(c),
         UNCHANGED <<vars, paymentBooking, checkout, charges, escrow, receipt, revived>>
  PROVE  PayInv'
<1>1. /\ paymentStatus'[p] = x
      /\ \A q \in PaymentIds \ {p} : paymentStatus'[q] = paymentStatus[q]
      /\ paymentStatus' \in [PaymentIds -> PaymentStatus]
  BY DEF SetPayment, PayInv, PayTypeOK, PaymentStatus
<1>2. /\ call'[c].pc = "idle" /\ call' \in [Callers -> Call]
      /\ \A d \in Callers \ {c} : call'[d] = call[d]
  BY CallTypes DEF Return, NoCall, PayInv, PayTypeOK
<1>3. IInv'
  BY DEF vars, PayInv, IInv, TypeOK, RowsOK, RequestsOK, UniqueActive
<1>4. PayTypeOK'
  BY <1>1, <1>2, <1>3 DEF PayInv, PayTypeOK, IInv
<1>5. PaymentRows'
  BY <1>1 DEF vars, PayInv, PaymentRows
<1>6. CallsOK'
  BY <1>1, <1>2 DEF vars, PayInv, CallsOK, Paid, Hooked, Inserts
<1>7. OneInserts' /\ InsertsFirst'
  BY <1>2 DEF PayInv, OneInserts, InsertsFirst, Inserts
<1>8. Ledger'
  BY <1>1 DEF PayInv, Ledger, EscrowHasReceipt, OneEscrowPerBooking, RecordedMeansCharged
<1> QED BY <1>3, <1>4, <1>5, <1>6, <1>7, <1>8 DEF PayInv, Ledger

LEMMA StartCreateInv ==
  ASSUME PayInv, NEW c \in Callers, StartCreate(c)
  PROVE  PayInv'
<1>1. PICK p \in PaymentIds :
        /\ paymentStatus[p] = "none"
        /\ SetPayment(p, "INITIATED")
        /\ paymentBooking' = [paymentBooking EXCEPT ![p] = call[c].booking]
        /\ Step(c, "startInit", p, call[c].booking)
  BY DEF StartCreate
<1>2. /\ call[c].booking \in BookingIds /\ bookingStatus[call[c].booking] # "AVAILABLE"
      /\ UNCHANGED <<vars, checkout, charges, escrow, receipt, revived>>
  BY DEF StartCreate, PayInv, CallsOK
<1>3. /\ paymentStatus'[p] = "INITIATED" /\ paymentBooking'[p] = call[c].booking /\ ~escrow[p]
      /\ \A q \in PaymentIds \ {p} : /\ paymentStatus'[q] = paymentStatus[q]
                                     /\ paymentBooking'[q] = paymentBooking[q]
      /\ paymentStatus' \in [PaymentIds -> PaymentStatus]
      /\ paymentBooking' \in [PaymentIds -> BookingIds \cup {NoBooking}]
  BY <1>1, <1>2 DEF SetPayment, PayInv, PayTypeOK, PaymentStatus, PaymentRows
<1>4. /\ call'[c].pc = "startInit" /\ call'[c].payment = p /\ call' \in [Callers -> Call]
      /\ \A d \in Callers \ {c} : call'[d] = call[d]
  BY <1>1, <1>2, CallTypes DEF Step, CallPc, PayInv, PayTypeOK
<1>5. IInv'
  BY <1>2 DEF vars, PayInv, IInv, TypeOK, RowsOK, RequestsOK, UniqueActive
<1>6. PayTypeOK'
  BY <1>2, <1>3, <1>4, <1>5 DEF PayInv, PayTypeOK, IInv
<1>7. PaymentRows'
  BY <1>2, <1>3, BookingsAssumption DEF vars, PayInv, PaymentRows
<1>8. CallsOK'
  BY <1>1, <1>2, <1>3, <1>4 DEF vars, PayInv, CallsOK, Paid, Hooked, Inserts
<1>9. OneInserts' /\ InsertsFirst'
  BY <1>2, <1>3, <1>4 DEF PayInv, OneInserts, InsertsFirst, Inserts
<1>10. Ledger'
  BY <1>2, <1>3 DEF PayInv, Ledger, EscrowHasReceipt, OneEscrowPerBooking, RecordedMeansCharged
<1> QED BY <1>5, <1>6, <1>7, <1>8, <1>9, <1>10 DEF PayInv, Ledger

(* A checkout opens, or its customer tries to pay. *)
LEMMA PaystackInv ==
  ASSUME PayInv, UNCHANGED <<vars, paymentStatus, paymentBooking, escrow, receipt, revived>>,
         \A p \in PaymentIds : charges[p] \subseteq charges'[p],
         checkout' \in [PaymentIds -> BOOLEAN],
         charges' \in [PaymentIds -> SUBSET {"success", "failed"}],
         call' = call \/ \E c \in Callers : Return(c)
  PROVE  PayInv'
<1>1. /\ call' \in [Callers -> Call]
      /\ \A c \in Callers : call'[c] = call[c] \/ call'[c].pc = "idle"
  BY CallTypes DEF Return, NoCall, PayInv, PayTypeOK
<1>2. IInv'
  BY DEF vars, PayInv, IInv, TypeOK, RowsOK, RequestsOK, UniqueActive
<1>3. PayTypeOK'
  BY <1>1, <1>2 DEF PayInv, PayTypeOK, IInv
<1>4. PaymentRows'
  BY DEF vars, PayInv, PaymentRows
<1>5. CallsOK'
  BY <1>1 DEF vars, PayInv, CallsOK, Paid, Hooked, Inserts
<1>6. OneInserts' /\ InsertsFirst'
  BY <1>1 DEF PayInv, OneInserts, InsertsFirst, Inserts
<1>7. Ledger'
  BY DEF PayInv, Ledger, EscrowHasReceipt, OneEscrowPerBooking, RecordedMeansCharged
<1> QED BY <1>2, <1>3, <1>4, <1>5, <1>6, <1>7 DEF PayInv, Ledger

LEMMA HookReceiptInv ==
  ASSUME PayInv, NEW c \in Callers, HookReceipt(c)
  PROVE  PayInv'
<1>1. PICK p \in PaymentIds :
        /\ p = call[c].payment /\ paymentStatus[p] # "none" /\ "success" \in charges[p]
        /\ call[c].booking = paymentBooking[p] /\ call[c].booking \in BookingIds
  BY DEF HookReceipt, PayInv, CallsOK, Paid, Hooked, Inserts
<1>2. CASE receipt[p]
  <2>1. UNCHANGED <<vars, payVars>> /\ Return(c)
    BY <1>1, <1>2 DEF HookReceipt, payVars
  <2> QED BY <2>1, CallEnds
<1>3. CASE ~receipt[p]
  <2>1. /\ call[c].pc = "hookReceipt" /\ call'[c].pc = "hookCommit"
        /\ call'[c].payment = p /\ call'[c].booking = call[c].booking
        /\ call' \in [Callers -> Call]
        /\ \A d \in Callers \ {c} : call'[d] = call[d]
    BY <1>1, <1>3, CallTypes DEF HookReceipt, Step, CallPc, PayInv, PayTypeOK
  <2>2. /\ receipt'[p] /\ receipt' \in [PaymentIds -> BOOLEAN]
        /\ \A q \in PaymentIds \ {p} : receipt'[q] = receipt[q]
        /\ UNCHANGED <<vars, paymentStatus, paymentBooking, checkout, charges, escrow, revived>>
    BY <1>1, <1>3 DEF HookReceipt, PayInv, PayTypeOK
  <2>3. IInv'
    BY <2>2 DEF vars, PayInv, IInv, TypeOK, RowsOK, RequestsOK, UniqueActive
  <2>4. PayTypeOK'
    BY <2>1, <2>2, <2>3 DEF PayInv, PayTypeOK, IInv
  <2>5. PaymentRows'
    BY <2>2 DEF vars, PayInv, PaymentRows
  <2>6. CallsOK'
    BY <1>1, <2>1, <2>2 DEF vars, PayInv, CallsOK, Paid, Hooked, Inserts
  <2>7. OneInserts' /\ InsertsFirst'
    BY <2>1, <2>2 DEF PayInv, OneInserts, InsertsFirst, Inserts
  <2>8. Ledger'
    BY <1>1, <2>2 DEF PayInv, Ledger, EscrowHasReceipt, OneEscrowPerBooking,
                      RecordedMeansCharged
  <2> QED BY <2>3, <2>4, <2>5, <2>6, <2>7, <2>8 DEF PayInv, Ledger
<1> QED BY <1>2, <1>3

(* The commit of a success writes its booking as the index allows. *)
LEMMA HookCommitRow ==
  ASSUME PayInv, NEW c \in Callers, HookCommit(c)
  PROVE  \/ UNCHANGED <<vars, payVars>> /\ Return(c)
         \/ \E p \in PaymentIds, b \in BookingIds :
              /\ p = call[c].payment /\ b = paymentBooking[p]
              /\ call[c].pc = "hookCommit" /\ call[c].booking = b
              /\ bookingStatus[b] # "AVAILABLE" /\ bookingListing[b] \in Listings
              /\ WritesRow(b, bookingListing[b], "BOOKED")
              /\ hold' = [hold EXCEPT ![b] = "none"]
              /\ SetPayment(p, "SUCCESS") /\ escrow' = [escrow EXCEPT ![p] = TRUE]
              /\ Return(c) /\ revived' \in {revived, revived \cup {b}}
              /\ UNCHANGED <<listingStatus, bookingListing, expiryJob, request, ledgerVars,
                             paymentBooking, checkout, charges, receipt>>
<1>1. PICK p \in PaymentIds, b \in BookingIds :
        /\ p = call[c].payment /\ b = call[c].booking /\ b = paymentBooking[p]
  BY DEF HookCommit, PayInv, CallsOK, Hooked, Inserts
<1>2. bookingStatus[b] # "AVAILABLE" /\ bookingListing[b] \in Listings
  BY <1>1, BookingsAssumption DEF PayInv, PaymentRows, IInv, RowsOK, TypeOK
<1>3. CASE IndexAllows(b, bookingListing[b])
  <2>1. bookingListing' = [bookingListing EXCEPT ![b] = bookingListing[b]]
    BY DEF HookCommit, PayInv, IInv, TypeOK
  <2>2. bookingStatus' = [bookingStatus EXCEPT ![b] = "BOOKED"]
    BY <1>1, <1>3 DEF HookCommit
  <2>3. WritesRow(b, bookingListing[b], "BOOKED")
    BY <1>3, <2>1, <2>2 DEF WritesRow
  <2> QED BY <1>1, <1>2, <1>3, <2>3 DEF HookCommit
<1>4. CASE ~IndexAllows(b, bookingListing[b])
  BY <1>1, <1>4 DEF HookCommit, vars, payVars, ledgerVars
<1> QED BY <1>3, <1>4

LEMMA HookCommitInv ==
  ASSUME PayInv, NEW c \in Callers, HookCommit(c)
  PROVE  PayInv'
<1>1. CASE UNCHANGED <<vars, payVars>> /\ Return(c)
  BY <1>1, CallEnds
<1>2. ASSUME NEW p \in PaymentIds, NEW b \in BookingIds,
             p = call[c].payment, b = paymentBooking[p],
             call[c].pc = "hookCommit", call[c].booking = b,
             bookingStatus[b] # "AVAILABLE", bookingListing[b] \in Listings,
             WritesRow(b, bookingListing[b], "BOOKED"),
             hold' = [hold EXCEPT ![b] = "none"],
             SetPayment(p, "SUCCESS"), escrow' = [escrow EXCEPT ![p] = TRUE],
             Return(c), revived' \in {revived, revived \cup {b}},
             UNCHANGED <<listingStatus, bookingListing, expiryJob, request, ledgerVars,
                         paymentBooking, checkout, charges, receipt>>
      PROVE  PayInv'
  <2>1. "success" \in charges[p] /\ receipt[p]
    BY <1>2 DEF PayInv, CallsOK, Paid, Inserts
  <2>2. /\ paymentStatus'[p] = "SUCCESS" /\ paymentStatus' \in [PaymentIds -> PaymentStatus]
        /\ \A q \in PaymentIds \ {p} : paymentStatus'[q] = paymentStatus[q]
    BY <1>2 DEF SetPayment, PayInv, PayTypeOK, PaymentStatus
  <2>3. /\ escrow'[p] /\ escrow' \in [PaymentIds -> BOOLEAN]
        /\ \A q \in PaymentIds \ {p} : escrow'[q] = escrow[q]
    BY <1>2 DEF PayInv, PayTypeOK
  <2>4. /\ call'[c].pc = "idle" /\ call' \in [Callers -> Call]
        /\ \A d \in Callers \ {c} : call'[d] = call[d]
    BY <1>2, CallTypes DEF Return, NoCall, PayInv, PayTypeOK
  <2>5. /\ bookingStatus' \in [BookingIds -> BookingStatus]
        /\ \A a \in BookingIds :
             bookingStatus'[a] = "AVAILABLE" <=> bookingListing'[a] = NoListing
        /\ \A a \in BookingIds : bookingStatus'[a] = "HELD" => bookingStatus[a] = "HELD"
        /\ UniqueActive'
    <3>1. "BOOKED" \in BookingStatus \ {"AVAILABLE", "HELD"}
      BY DEF BookingStatus
    <3>2. "BOOKED" \in ActiveStatus
      BY DEF ActiveStatus
    <3>3. /\ IndexAllows(b, bookingListing[b])
          /\ bookingStatus' = [bookingStatus EXCEPT ![b] = "BOOKED"]
      BY <1>2, <3>2 DEF WritesRow
    <3> QED BY <1>2, <3>1, <3>3, WriteStatus DEF PayInv
  <2>6. \A a \in BookingIds : bookingStatus[a] # "AVAILABLE" => bookingStatus'[a] # "AVAILABLE"
    BY <1>2, <2>5 DEF PayInv, IInv, RowsOK
  <2>7. TypeOK'
    <3>1. hold' \in [BookingIds -> HoldState]
      BY <1>2 DEF PayInv, IInv, TypeOK, HoldState
    <3> QED BY <1>2, <2>5, <3>1 DEF ledgerVars, PayInv, IInv, TypeOK
  <2>8. IInv'
    <3>1. RowsOK'
      BY <1>2, <2>5, <2>6 DEF PayInv, IInv, RowsOK
    <3>2. RequestsOK'
      BY <1>2, <2>5 DEF PayInv, IInv, RequestsOK
    <3> QED BY <2>5, <2>7, <3>1, <3>2 DEF IInv
  <2>9. PayTypeOK'
    BY <1>2, <2>2, <2>3, <2>4, <2>7 DEF PayInv, PayTypeOK
  <2>10. PaymentRows'
    <3>1. \A q \in PaymentIds : paymentBooking[q] # NoBooking => paymentBooking[q] \in BookingIds
      BY DEF PayInv, PayTypeOK
    <3>2. \A q \in PaymentIds : paymentBooking[q] # NoBooking =>
            bookingStatus[paymentBooking[q]] # "AVAILABLE"
      BY DEF PayInv, PaymentRows
    <3>3. paymentStatus[p] # "none"
      BY <1>2 DEF PayInv, CallsOK
    <3>4. \A q \in PaymentIds : paymentStatus'[q] = "none" <=> paymentStatus[q] = "none"
      BY <2>2, <3>3
    <3> QED BY <1>2, <2>3, <2>6, <3>1, <3>2, <3>3, <3>4 DEF PayInv, PaymentRows
  <2>11. CallsOK'
    BY <1>2, <2>2, <2>4, <2>6 DEF PayInv, CallsOK, Paid, Hooked, Inserts
  <2>12. OneInserts'
    BY <2>4 DEF PayInv, OneInserts, Inserts
  <2>13. InsertsFirst'
    BY <1>2, <2>3, <2>4 DEF PayInv, InsertsFirst, OneInserts, Inserts
  <2>14. Ledger'
    <3>1. EscrowHasReceipt' /\ RecordedMeansCharged'
      BY <1>2, <2>1, <2>2, <2>3 DEF PayInv, EscrowHasReceipt, RecordedMeansCharged
    <3>2. OneEscrowPerBooking'
      BY <1>2, <2>3 DEF PayInv, OneEscrowPerBooking, InsertsFirst, Inserts
    <3> QED BY <3>1, <3>2 DEF Ledger
  <2> QED BY <2>8, <2>9, <2>10, <2>11, <2>12, <2>13, <2>14 DEF PayInv, Ledger
<1> QED BY <1>1, <1>2, HookCommitRow


-----------------------------------------------------------------------------
(* One case per action. *)
LEMMA CallStepInv ==
  ASSUME PayInv, NEW c \in Callers, CallBegin(c) \/ CallStep(c) \/ CallAbort(c)
  PROVE  PayInv'
<1>1. ASSUME NEW b \in BookingIds, StartRead(c, b) PROVE PayInv'
  BY <1>1, CallGoesOn DEF StartRead, CallPc, Paid, Hooked, Inserts
<1>2. ASSUME NEW p \in PaymentIds, VerifyRead(c, p) PROVE PayInv'
  BY <1>2, CallGoesOn DEF VerifyRead, CallPc, Paid, Hooked, Inserts
<1>3. ASSUME NEW p \in PaymentIds, HookRead(c, p) PROVE PayInv'
  <2>1. paymentStatus[p] # "none" /\ paymentBooking[p] \in BookingIds
    <3>1. paymentBooking[p] \in BookingIds \cup {NoBooking} /\ paymentStatus[p] # "none"
      BY <1>3 DEF HookRead, PayInv, PayTypeOK
    <3>2. paymentBooking[p] # NoBooking
      BY <3>1 DEF PayInv, PaymentRows
    <3> QED BY <3>1, <3>2
  <2>2. CASE "success" \in charges[p] /\ Step(c, "hookLock", p, paymentBooking[p])
    BY <1>3, <2>1, <2>2, CallGoesOn DEF HookRead, CallPc, Paid, Hooked, Inserts
  <2>3. CASE Step(c, "hookFailed", p, NoBooking)
    BY <1>3, <2>1, <2>3, CallGoesOn DEF HookRead, CallPc, Paid, Hooked, Inserts
  <2> QED BY <1>3, <2>2, <2>3 DEF HookRead
<1>4. CASE StartCreate(c)
  BY <1>4, StartCreateInv
<1>5. CASE StartInit(c)
  <2>1. PICK p \in PaymentIds : p = call[c].payment /\ paymentStatus[p] # "none"
    BY <1>5 DEF StartInit, PayInv, CallsOK
  <2>2. CASE SetPayment(p, "FAILED") /\ UNCHANGED checkout
    BY <1>5, <2>1, <2>2, StatusWritten DEF StartInit
  <2>3. CASE checkout' = [checkout EXCEPT ![p] = TRUE] /\ UNCHANGED paymentStatus
    BY <1>5, <2>1, <2>3, PaystackInv DEF StartInit, PayInv, PayTypeOK
  <2> QED BY <1>5, <2>1, <2>2, <2>3 DEF StartInit
<1>6. CASE VerifyAsk(c)
  <2>1. PICK p \in PaymentIds : p = call[c].payment /\ paymentStatus[p] # "none"
    BY <1>6 DEF VerifyAsk, PayInv, CallsOK
  <2>2. CASE "success" \in charges[p] /\ Step(c, "verifySuccess", p, NoBooking)
    BY <1>6, <2>1, <2>2, CallGoesOn DEF VerifyAsk, CallPc, Paid, Hooked, Inserts
  <2>3. CASE Step(c, "verifyFailed", p, NoBooking)
    BY <1>6, <2>1, <2>3, CallGoesOn DEF VerifyAsk, CallPc, Paid, Hooked, Inserts
  <2>4. CASE Return(c)
    BY <1>6, <2>4, CallEnds DEF VerifyAsk
  <2> QED BY <1>6, <2>1, <2>2, <2>3, <2>4 DEF VerifyAsk
<1>7. CASE VerifyWrite(c)
  <2>1. PICK p \in PaymentIds : p = call[c].payment /\ paymentStatus[p] # "none"
    BY <1>7 DEF VerifyWrite, PayInv, CallsOK
  <2>2. CASE call[c].pc = "verifySuccess" /\ SetPayment(p, "SUCCESS")
    <3>1. "success" \in charges[p]
      BY <2>1, <2>2 DEF PayInv, CallsOK, Paid
    <3> QED BY <1>7, <2>1, <2>2, <3>1, StatusWritten DEF VerifyWrite
  <2>3. CASE SetPayment(p, "FAILED")
    BY <1>7, <2>1, <2>3, StatusWritten DEF VerifyWrite
  <2> QED BY <1>7, <2>1, <2>2, <2>3 DEF VerifyWrite
<1>8. CASE HookFailed(c)
  <2>1. PICK p \in PaymentIds : p = call[c].payment /\ paymentStatus[p] # "none"
    BY <1>8 DEF HookFailed, PayInv, CallsOK
  <2> QED BY <1>8, <2>1, StatusWritten DEF HookFailed
<1>9. CASE HookLock(c) \/ HookEscrow(c)
  <2>1. PICK p \in PaymentIds, b \in BookingIds :
          /\ p = call[c].payment /\ paymentStatus[p] # "none"
          /\ b = call[c].booking /\ b = paymentBooking[p] /\ "success" \in charges[p]
    BY <1>9 DEF HookLock, HookEscrow, PayInv, CallsOK, Paid, Hooked, Inserts
  <2>2. CASE HookLock(c)
    BY <2>1, <2>2, CallGoesOn DEF HookLock, CallPc, Paid, Hooked, Inserts
  <2>3. CASE HookEscrow(c) /\ EscrowExists(p, b)
    BY <2>1, <2>3, CallEnds DEF HookEscrow
  <2>4. CASE HookEscrow(c) /\ ~EscrowExists(p, b)
    <3>1. \A d \in Callers : call[d].pc \in Inserts => call[d].booking # b
      <4>1. ASSUME NEW d \in Callers, call[d].pc \in Inserts, call[d].booking = b PROVE FALSE
        <5>1. call[d].payment \in PaymentIds /\ paymentBooking[call[d].payment] = b
          BY <4>1 DEF PayInv, CallsOK, Hooked, Inserts
        <5>2. call[d].payment \in PaymentsOf(b) \cap Inserting
          BY <4>1, <5>1 DEF PaymentsOf, Inserting, Inserts
        <5> QED BY <2>1, <2>4, <5>2 DEF HookEscrow
      <4> QED BY <4>1
    <3>2. \A q \in PaymentIds : paymentBooking[q] = b => ~escrow[q]
      BY <2>4 DEF EscrowExists, PaymentsOf
    <3>3. Step(c, "hookReceipt", p, b) /\ UNCHANGED <<vars, payVars>>
      BY <2>1, <2>4 DEF HookEscrow
    <3> QED BY <2>1, <3>1, <3>2, <3>3, CallGoesOn DEF CallPc, Paid, Hooked, Inserts
  <2> QED BY <1>9, <2>2, <2>3, <2>4
<1>10. CASE HookReceipt(c)
  BY <1>10, HookReceiptInv
<1>11. CASE HookCommit(c)
  BY <1>11, HookCommitInv
<1>12. CASE CallAbort(c)
  BY <1>12, CallEnds DEF CallAbort
<1> QED
  BY <1>1, <1>2, <1>3, <1>4, <1>5, <1>6, <1>7, <1>8, <1>9, <1>10, <1>11, <1>12
     DEF CallBegin, CallStep

LEMMA PayNextInv == PayInv /\ [PayNext]_allVars => PayInv'
<1> SUFFICES ASSUME PayInv, [PayNext]_allVars PROVE PayInv'
  OBVIOUS
<1>1. CASE Next /\ UNCHANGED <<payVars, call>>
  BY <1>1, BookingStep
<1>2. CASE \E c \in Callers : CallBegin(c) \/ CallStep(c) \/ CallAbort(c)
  BY <1>2, CallStepInv
<1>3. ASSUME NEW p \in PaymentIds, NEW x \in {"success", "failed"}, Charge(p, x) PROVE PayInv'
  <2>1. charges \in [PaymentIds -> SUBSET {"success", "failed"}]
    BY DEF PayInv, PayTypeOK
  <2>2. /\ \A q \in PaymentIds : charges[q] \subseteq charges'[q]
        /\ charges' \in [PaymentIds -> SUBSET {"success", "failed"}]
    BY <1>3, <2>1 DEF Charge
  <2>3. checkout' \in [PaymentIds -> BOOLEAN]
    BY <1>3 DEF Charge, PayInv, PayTypeOK
  <2> QED BY <1>3, <2>2, <2>3, PaystackInv DEF Charge
<1>4. CASE UNCHANGED allVars
  BY <1>4, BookingStep DEF allVars
<1> QED BY <1>1, <1>2, <1>3, <1>4 DEF PayNext

LEMMA PayInvariance == PaySpec => []PayInv
BY PayInitInv, PayNextInv, PTL DEF PaySpec

-----------------------------------------------------------------------------
(* Rows and requests keep their types. *)
THEOREM PayTypeCorrect == PaySpec => []PayTypeOK
<1>1. PayInv => PayTypeOK
  BY DEF PayInv
<1> QED BY <1>1, PayInvariance, PTL

(* Nothing is recorded as paid, escrowed or receipted that was not charged,  *)
(* for any number of verifications, webhooks and crashes in any order        *)
(* (payments.controller.ts verify, payments.webhook.controller.ts).          *)
THEOREM NothingUnpaidIsRecorded == PaySpec => []RecordedMeansCharged
<1>1. PayInv => RecordedMeansCharged
  BY DEF PayInv
<1> QED BY <1>1, PayInvariance, PTL

(* Money in escrow has its receipt, although the two are written over two    *)
(* connections (receipt.service.ts).                                         *)
THEOREM EscrowsHaveReceipts == PaySpec => []EscrowHasReceipt
<1>1. PayInv => EscrowHasReceipt
  BY DEF PayInv
<1> QED BY <1>1, PayInvariance, PTL

(* A booking has one escrow, whoever pays for it again (handleSuccess).      *)
THEOREM EscrowsAreSingle == PaySpec => []OneEscrowPerBooking
<1>1. PayInv => OneEscrowPerBooking
  BY DEF PayInv
<1> QED BY <1>1, PayInvariance, PTL

(* Payments write bookings too, whatever became of them: still no home is    *)
(* held or booked twice.                                                     *)
THEOREM PaymentsSellOnce == PaySpec => []AtMostOneActive
<1>1. PayInv => AtMostOneActive
  BY OneActive DEF PayInv
<1> QED BY <1>1, PayInvariance, PTL

(* Bookings and payments together implement the abstract promise.            *)
THEOREM PaymentsImplementNoDoubleSale == PaySpec => SaleSpec
<1>1. PayInit => Sale!Init
  BY SaleInit DEF PayInit
<1>2. PayInv /\ [PayNext]_allVars => [Sale!Next]_[l \in Listings |-> ActiveOn(l)]
  <2> SUFFICES ASSUME PayInv, [PayNext]_allVars
               PROVE  [Sale!Next]_[l \in Listings |-> ActiveOn(l)]
    OBVIOUS
  <2>1. IInv
    BY DEF PayInv
  <2>2. CASE [Next]_vars
    BY <2>1, <2>2, RowChange, SaleStep
  <2>3. ASSUME NEW c \in Callers, HookCommit(c)
        PROVE  [Sale!Next]_[l \in Listings |-> ActiveOn(l)]
    <3>1. "BOOKED" \in BookingStatus
      BY DEF BookingStatus
    <3> QED BY <2>1, <2>3, <3>1, HookCommitRow, SaleStep DEF vars
  <2>4. CASE UNCHANGED <<bookingStatus, bookingListing>>
    BY <2>1, <2>4, SaleStep
  <2>5. [Next]_vars \/ (\E c \in Callers : HookCommit(c))
          \/ UNCHANGED <<bookingStatus, bookingListing>>
    BY DEF PayNext, allVars, vars, CallBegin, CallStep, CallAbort, StartRead, VerifyRead, HookRead,
           StartCreate, StartInit, VerifyAsk, VerifyWrite, HookFailed, HookLock, HookEscrow,
           HookReceipt, Charge
  <2> QED BY <2>2, <2>3, <2>4, <2>5
<1> QED BY <1>1, <1>2, PayInvariance, PTL DEF PaySpec, SaleSpec, Sale!Spec

-----------------------------------------------------------------------------
USE DEF bookingVars, ledgerVars

(* What holds while one handler or job runs at a time: it is alone, and its  *)
(* booking is as it read it, or the webhook has booked it meanwhile.         *)
Alone ==
  \/ InFlight = {} /\ ActiveJobs = {}
  \/ \E h \in Handlers : InFlight = {h} /\ ActiveJobs = {}
  \/ \E b \in BookingIds : InFlight = {} /\ ActiveJobs = {b}

ReadIsCurrent ==
  \A h \in Handlers : LET r == request[h] IN
    /\ r.pc \in {"confirmUpdate", "cancelCommit"} => bookingStatus[r.booking] \in ActiveStatus
    /\ r.pc \in {"confirmListing", "completeCommit", "disputeCommit"} =>
         bookingStatus[r.booking] = "BOOKED"

SerialInv == Alone /\ ReadIsCurrent /\ HomesMatchBookings

(* Nothing starts while something runs. *)
LEMMA StartsAlone ==
  ASSUME MaxInFlight = 1, Alone, CanStart
  PROVE  InFlight = {} /\ ActiveJobs = {}
<1>1. Cardinality({}) = 0
  BY FS_EmptySet
<1>2. ASSUME NEW h \in Handlers, InFlight = {h}, ActiveJobs = {} PROVE FALSE
  <2>1. Cardinality({h}) = 1
    BY FS_Singleton
  <2> QED BY <1>1, <1>2, <2>1 DEF CanStart
<1>3. ASSUME NEW b \in BookingIds, InFlight = {}, ActiveJobs = {b} PROVE FALSE
  <2>1. Cardinality({b}) = 1
    BY FS_Singleton
  <2> QED BY <1>1, <1>3, <2>1 DEF CanStart
<1> QED BY <1>2, <1>3 DEF Alone

(* A handler that starts, goes on or ends is alone before and after. *)
LEMMA HandlerAlone ==
  ASSUME IInv, MaxInFlight = 1, Alone, NEW h \in Handlers, request[h].pc # "idle" \/ CanStart,
         NEW r, request' = [request EXCEPT ![h] = r],
         \A b \in BookingIds : expiryJob'[b] = "active" => expiryJob[b] = "active"
  PROVE  /\ Alone'
         /\ request'[h] = r
         /\ \A g \in Handlers : g # h => request'[g].pc = "idle"
<1>1. InFlight \subseteq {h} /\ ActiveJobs = {}
  <2>1. CASE request[h].pc # "idle"
    <3>1. h \in InFlight
      BY <2>1 DEF InFlight
    <3> QED BY <3>1 DEF Alone
  <2>2. CASE CanStart
    BY <2>2, StartsAlone
  <2> QED BY <2>1, <2>2
<1>2. request'[h] = r /\ \A g \in Handlers : g # h => request'[g] = request[g]
  BY DEF IInv, TypeOK
<1>3. \A g \in Handlers : g # h => request'[g].pc = "idle"
  BY <1>1, <1>2 DEF InFlight
<1>4. ActiveJobs' = {}
  BY <1>1 DEF ActiveJobs
<1>5. InFlight' = {} \/ InFlight' = {h}
  BY <1>3 DEF InFlight
<1> QED BY <1>2, <1>3, <1>4, <1>5 DEF Alone

(* One booking of a home and the home's own status are written. *)
LEMMA WriteAgrees ==
  ASSUME IInv, HomesMatchBookings, revived \subseteq revived',
         NEW b \in BookingIds, NEW l \in Listings, NEW s \in BookingStatus,
         bookingStatus' = [bookingStatus EXCEPT ![b] = s],
         bookingListing' = [bookingListing EXCEPT ![b] = l],
         bookingListing[b] = l \/ bookingStatus[b] = "AVAILABLE",
         \A k \in Listings : k # l => listingStatus'[k] = listingStatus[k],
         listingStatus'[l] = "VERIFIED" =>
           /\ s \in ActiveStatus => b \in revived'
           /\ ActiveOn(l) \ {b} \subseteq revived',
         listingStatus'[l] = "SOLD" => s \in {"BOOKED", "COMPLETED", "DISPUTED"}
  PROVE  HomesMatchBookings'
<1>1. /\ bookingStatus'[b] = s /\ bookingListing'[b] = l
      /\ \A c \in BookingIds : c # b => /\ bookingStatus'[c] = bookingStatus[c]
                                        /\ bookingListing'[c] = bookingListing[c]
  BY DEF IInv, TypeOK
<1>2. bookingListing[b] \in {l, NoListing}
  BY DEF IInv, RowsOK
<1>3. \A k \in Listings : k # NoListing
  BY BookingsAssumption
<1>4. ASSUME NEW k \in Listings, listingStatus'[k] = "VERIFIED", NEW c \in ActiveOn(k)'
      PROVE  c \in revived'
  <2>1. c \in BookingIds /\ bookingListing'[c] = k /\ bookingStatus'[c] \in ActiveStatus
    BY <1>4 DEF ActiveOn
  <2>2. CASE c = b
    BY <1>1, <1>4, <2>1, <2>2
  <2>3. CASE c # b
    <3>1. c \in ActiveOn(k)
      BY <1>1, <2>1, <2>3 DEF ActiveOn
    <3>2. CASE k = l
      BY <1>4, <2>3, <3>1, <3>2
    <3>3. CASE k # l
      BY <1>4, <3>1, <3>3 DEF HomesMatchBookings, OfferedMeansRevived
    <3> QED BY <3>2, <3>3
  <2> QED BY <2>2, <2>3
<1>5. ASSUME NEW k \in Listings, listingStatus'[k] = "SOLD"
      PROVE  \E c \in BookingIds : /\ bookingListing'[c] = k
                                   /\ bookingStatus'[c] \in {"BOOKED", "COMPLETED", "DISPUTED"}
  <2>1. CASE k = l
    BY <1>1, <1>5, <2>1
  <2>2. CASE k # l
    <3>1. PICK c \in BookingIds : /\ bookingListing[c] = k
                                  /\ bookingStatus[c] \in {"BOOKED", "COMPLETED", "DISPUTED"}
      BY <1>5, <2>2 DEF HomesMatchBookings, SoldMeansSecured
    <3>2. c # b
      BY <1>2, <1>3, <2>2, <3>1
    <3> QED BY <1>1, <3>1, <3>2
  <2> QED BY <2>1, <2>2
<1>6. OfferedMeansRevived'
  BY <1>4 DEF OfferedMeansRevived
<1>7. SoldMeansSecured'
  BY <1>5 DEF SoldMeansSecured
<1> QED BY <1>6, <1>7 DEF HomesMatchBookings

(* The writes of a request on a booking that is active. *)
LEMMA RequestAgrees ==
  ASSUME IInv, ReadIsCurrent, HomesMatchBookings, UNCHANGED payVars, NEW h \in Handlers,
         \/ ConfirmUpdate(h) \/ CancelCommit(h) \/ CompleteCommit(h) \/ DisputeCommit(h)
  PROVE  HomesMatchBookings'
<1> DEFINE b == request[h].booking
           l == request[h].listing
<1>1. b \in BookingIds /\ l \in Listings /\ bookingListing[b] = l
  BY DEF IInv, RequestsOK, ConfirmUpdate, CancelCommit, CompleteCommit, DisputeCommit
<1>2. bookingStatus[b] \in ActiveStatus
  BY DEF ReadIsCurrent, ConfirmUpdate, CancelCommit, CompleteCommit, DisputeCommit, ActiveStatus
<1>3. ActiveOn(l) = {b}
  BY <1>1, <1>2 DEF IInv, UniqueActive, ActiveOn
<1>4. listingStatus[l] = "VERIFIED" => b \in revived
  BY <1>1, <1>3 DEF HomesMatchBookings, OfferedMeansRevived
<1>r. revived' = revived
  BY DEF payVars
<1>5. bookingListing' = [bookingListing EXCEPT ![b] = l]
  BY <1>1 DEF IInv, TypeOK, ConfirmUpdate, CancelCommit, CompleteCommit, DisputeCommit
<1>6. CASE CancelCommit(h)
  <2>1. /\ bookingStatus' = [bookingStatus EXCEPT ![b] = "CANCELLED"]
        /\ listingStatus' = [listingStatus EXCEPT ![l] = "VERIFIED"]
    BY <1>6 DEF CancelCommit
  <2>2. listingStatus'[l] = "VERIFIED" /\ \A k \in Listings : k # l => listingStatus'[k] = listingStatus[k]
    BY <1>1, <2>1 DEF IInv, TypeOK
  <2>3. "CANCELLED" \in BookingStatus /\ "CANCELLED" \notin ActiveStatus
    BY DEF BookingStatus, ActiveStatus
  <2> HIDE DEF b, l
  <2> QED BY <1>1, <1>3, <1>5, <1>r, <2>1, <2>2, <2>3, WriteAgrees
<1>7. ASSUME NEW s \in {"BOOKED", "COMPLETED", "DISPUTED"},
             bookingStatus' = [bookingStatus EXCEPT ![b] = s], listingStatus' = listingStatus
      PROVE  HomesMatchBookings'
  <2>1. s \in BookingStatus
    BY DEF BookingStatus
  <2> HIDE DEF b, l
  <2> QED BY <1>1, <1>3, <1>4, <1>5, <1>7, <1>r, <2>1, WriteAgrees
<1>8. CASE ConfirmUpdate(h)
  BY <1>7, <1>8 DEF ConfirmUpdate
<1>9. CASE CompleteCommit(h)
  BY <1>7, <1>9 DEF CompleteCommit
<1>10. CASE DisputeCommit(h)
  BY <1>7, <1>10 DEF DisputeCommit
<1> QED BY <1>6, <1>8, <1>9, <1>10

LEMMA HandlerSerial ==
  ASSUME IInv, MaxInFlight = 1, SerialInv, UNCHANGED payVars, NEW h \in Handlers,
         HandlerBegin(h) \/ HandlerStep(h) \/ Abort(h)
  PROVE  SerialInv'
<1>s. Alone /\ ReadIsCurrent /\ HomesMatchBookings /\ revived' = revived
  BY DEF SerialInv, payVars
<1>1. ASSUME NEW pc, NEW l, NEW b, Goto(h, pc, l, b),
             request[h].pc # "idle" \/ CanStart,
             \A c \in BookingIds : expiryJob'[c] = "active" => expiryJob[c] = "active",
             pc \in {"confirmUpdate", "cancelCommit"} => bookingStatus'[b] \in ActiveStatus,
             pc \in {"confirmListing", "completeCommit", "disputeCommit"} => bookingStatus'[b] = "BOOKED"
      PROVE  Alone' /\ ReadIsCurrent'
  <2>1. PICK r : r = [pc |-> pc, listing |-> l, booking |-> b]
    OBVIOUS
  <2>2. request' = [request EXCEPT ![h] = r]
    BY <1>1, <2>1 DEF Goto
  <2>3. /\ Alone' /\ request'[h] = r
        /\ \A g \in Handlers : g # h => request'[g].pc = "idle"
    BY <1>1, <1>s, <2>2, HandlerAlone
  <2>4. r.pc = pc /\ r.booking = b
    BY <2>1
  <2> QED BY <1>1, <2>3, <2>4 DEF ReadIsCurrent
<1>2. ASSUME Finish(h), request[h].pc # "idle",
             \A c \in BookingIds : expiryJob'[c] = "active" => expiryJob[c] = "active"
      PROVE  Alone' /\ ReadIsCurrent'
  <2>1. PICK r : r = Idle
    OBVIOUS
  <2>2. request' = [request EXCEPT ![h] = r]
    BY <1>2, <2>1 DEF Finish
  <2>3. /\ Alone' /\ request'[h] = r
        /\ \A g \in Handlers : g # h => request'[g].pc = "idle"
    BY <1>2, <1>s, <2>2, HandlerAlone
  <2>4. r.pc = "idle"
    BY <2>1 DEF Idle
  <2> QED BY <2>3, <2>4 DEF ReadIsCurrent
<1>3. ASSUME UNCHANGED <<listingStatus, bookingStatus, bookingListing>> PROVE HomesMatchBookings'
  BY <1>3, <1>s DEF HomesMatchBookings, OfferedMeansRevived, SoldMeansSecured, ActiveOn
<1>4. ASSUME NEW l \in Listings, CreateReadListing(h, l) PROVE SerialInv'
  BY <1>1, <1>3, <1>4 DEF CreateReadListing, SerialInv
<1>5. CASE CreateCheckActive(h)
  BY <1>1, <1>2, <1>3, <1>5 DEF CreateCheckActive, SerialInv
<1>6. CASE CreateCommit(h)
  <2> DEFINE l == request[h].listing
  <2>1. PICK b \in BookingIds :
          /\ bookingStatus[b] = "AVAILABLE"
          /\ bookingStatus' = [bookingStatus EXCEPT ![b] = "HELD"]
          /\ bookingListing' = [bookingListing EXCEPT ![b] = l]
          /\ listingStatus' = [listingStatus EXCEPT ![l] = "INACTIVE"]
          /\ Goto(h, "createEnqueue", l, b)
    BY <1>6 DEF CreateCommit
  <2>2. l \in Listings /\ request[h].pc # "idle" /\ expiryJob' = expiryJob
    BY <1>6 DEF CreateCommit, IInv, RequestsOK
  <2>3. Alone' /\ ReadIsCurrent'
    BY <1>1, <2>1, <2>2
  <2>4. listingStatus'[l] = "INACTIVE" /\ \A k \in Listings : k # l => listingStatus'[k] = listingStatus[k]
    BY <2>1, <2>2 DEF IInv, TypeOK
  <2>5. "HELD" \in BookingStatus
    BY DEF BookingStatus
  <2>6. HomesMatchBookings'
    <3> HIDE DEF l
    <3> QED BY <1>s, <2>1, <2>2, <2>4, <2>5, WriteAgrees
  <2> QED BY <2>3, <2>6 DEF SerialInv
<1>7. CASE CreateConflict(h) \/ ConfirmConflict(h) \/ ConfirmSecure(h) \/ Abort(h)
  BY <1>2, <1>3, <1>7 DEF CreateConflict, ConfirmConflict, ConfirmSecure, Abort, SerialInv
<1>8. CASE CreateEnqueue(h)
  <2>1. \A c \in BookingIds : expiryJob'[c] = "active" => expiryJob[c] = "active"
    BY <1>8 DEF CreateEnqueue, IInv, TypeOK
  <2> QED BY <1>2, <1>3, <1>8, <2>1 DEF CreateEnqueue, SerialInv
<1>9. ASSUME NEW b \in BookingIds,
             ConfirmRead(h, b) \/ CancelRead(h, b) \/ CompleteRead(h, b) \/ DisputeRead(h, b)
      PROVE  SerialInv'
  <2>1. PICK pc \in {"confirmUpdate", "cancelCommit", "completeCommit", "disputeCommit"} :
          /\ Goto(h, pc, bookingListing[b], b) /\ CanStart
          /\ pc \in {"confirmUpdate", "cancelCommit"} => bookingStatus[b] \in ActiveStatus
          /\ pc \in {"completeCommit", "disputeCommit"} => bookingStatus[b] = "BOOKED"
          /\ UNCHANGED <<listingStatus, bookingVars, expiryJob, ledgerVars>>
    BY <1>9, OnlyHeldConfirms DEF ConfirmRead, CancelRead, CompleteRead, DisputeRead, ReadBooking, ActiveStatus
  <2> QED BY <1>1, <1>3, <2>1 DEF SerialInv
<1>10. CASE ConfirmUpdate(h)
  <2>1. /\ Goto(h, "confirmListing", request[h].listing, request[h].booking)
        /\ request[h].pc # "idle" /\ expiryJob' = expiryJob
        /\ bookingStatus'[request[h].booking] = "BOOKED"
    BY <1>10 DEF ConfirmUpdate, IInv, TypeOK, RequestsOK
  <2>2. Alone' /\ ReadIsCurrent'
    BY <1>1, <2>1
  <2> QED BY <1>10, <1>s, <2>2, RequestAgrees DEF SerialInv
<1>11. CASE CancelCommit(h) \/ CompleteCommit(h) \/ DisputeCommit(h)
  <2>1. Finish(h) /\ request[h].pc # "idle" /\ expiryJob' = expiryJob
    BY <1>11 DEF CancelCommit, CompleteCommit, DisputeCommit
  <2> QED BY <1>2, <1>11, <1>s, <2>1, RequestAgrees DEF SerialInv
<1>12. CASE ConfirmListing(h)
  <2> DEFINE b == request[h].booking
             l == request[h].listing
  <2>1. /\ Goto(h, "confirmSecure", l, b) /\ request[h].pc = "confirmListing"
        /\ listingStatus' = [listingStatus EXCEPT ![l] = "SOLD"]
        /\ UNCHANGED <<bookingStatus, bookingListing, expiryJob>>
    BY <1>12 DEF ConfirmListing
  <2>2. b \in BookingIds /\ l \in Listings /\ bookingListing[b] = l /\ bookingStatus[b] = "BOOKED"
    BY <1>s, <2>1 DEF IInv, RequestsOK, ReadIsCurrent
  <2>3. Alone' /\ ReadIsCurrent'
    BY <1>1, <2>1
  <2>4. listingStatus'[l] = "SOLD" /\ \A k \in Listings : k # l => listingStatus'[k] = listingStatus[k]
    BY <2>1, <2>2 DEF IInv, TypeOK
  <2>5. HomesMatchBookings'
    <3> HIDE DEF b, l
    <3>1. OfferedMeansRevived'
      BY <1>s, <2>1, <2>4 DEF HomesMatchBookings, OfferedMeansRevived, ActiveOn
    <3>2. SoldMeansSecured'
      BY <1>s, <2>1, <2>2, <2>4 DEF HomesMatchBookings, SoldMeansSecured
    <3> QED BY <3>1, <3>2 DEF HomesMatchBookings
  <2> QED BY <2>3, <2>5 DEF SerialInv
<1> QED BY <1>4, <1>5, <1>6, <1>7, <1>8, <1>9, <1>10, <1>11, <1>12 DEF HandlerBegin, HandlerStep

LEMMA WorkerSerial ==
  ASSUME IInv, MaxInFlight = 1, SerialInv, UNCHANGED payVars,
         NEW b \in BookingIds, Worker(b) \/ Lapse(b)
  PROVE  SerialInv'
<1>s. Alone /\ ReadIsCurrent /\ HomesMatchBookings /\ revived' = revived
  BY DEF SerialInv, payVars
<1>j. expiryJob \in [BookingIds -> JobState]
  BY DEF IInv, TypeOK
<1>1. ASSUME UNCHANGED <<listingStatus, bookingStatus, bookingListing, request>>, Alone'
      PROVE  SerialInv'
  BY <1>1, <1>s DEF SerialInv, ReadIsCurrent, HomesMatchBookings, OfferedMeansRevived, SoldMeansSecured, ActiveOn
<1>2. CASE ExpiryStart(b)
  <2>1. InFlight = {} /\ ActiveJobs = {}
    BY <1>2, <1>s, StartsAlone DEF ExpiryStart
  <2>2. InFlight' = {} /\ ActiveJobs' \subseteq {b}
    BY <1>2, <1>j, <2>1 DEF ExpiryStart, InFlight, ActiveJobs
  <2>3. Alone'
    BY <2>2 DEF Alone
  <2> QED BY <1>1, <1>2, <2>3 DEF ExpiryStart
<1>3. CASE ExpiryFail(b)
  <2>1. InFlight' = InFlight /\ ActiveJobs' = ActiveJobs \ {b}
    BY <1>3, <1>j DEF ExpiryFail, InFlight, ActiveJobs
  <2>2. Alone'
    BY <1>s, <2>1 DEF Alone
  <2> QED BY <1>1, <1>3, <2>2 DEF ExpiryFail
<1>4. CASE Lapse(b)
  <2>1. Alone'
    BY <1>4, <1>s DEF Lapse, Alone, InFlight, ActiveJobs
  <2> QED BY <1>1, <1>4, <2>1 DEF Lapse
<1>5. CASE ExpiryCommit(b)
  <2>1. InFlight = {} /\ ActiveJobs = {b}
    BY <1>5, <1>s DEF ExpiryCommit, Alone, ActiveJobs
  <2>2. InFlight' = {} /\ ActiveJobs' = {}
    BY <1>5, <1>j, <2>1 DEF ExpiryCommit, InFlight, ActiveJobs
  <2>3. ReadIsCurrent'
    BY <2>2 DEF InFlight, ReadIsCurrent
  <2> DEFINE l == bookingListing[b]
  <2>4. l \in Listings
    BY <1>5 DEF ExpiryCommit, IInv, TypeOK, RowsOK
  <2>5. /\ bookingStatus' = [bookingStatus EXCEPT ![b] = "CANCELLED"]
        /\ bookingListing' = [bookingListing EXCEPT ![b] = l]
        /\ listingStatus' = [listingStatus EXCEPT ![l] = "ACTIVE"]
    BY <1>5 DEF ExpiryCommit, IInv, TypeOK
  <2>6. listingStatus'[l] = "ACTIVE" /\ \A k \in Listings : k # l => listingStatus'[k] = listingStatus[k]
    BY <2>4, <2>5 DEF IInv, TypeOK
  <2>7. "CANCELLED" \in BookingStatus
    BY DEF BookingStatus
  <2>8. HomesMatchBookings'
    <3>1. PICK k \in Listings : k = l
      BY <2>4
    <3> HIDE DEF l
    <3>2. bookingListing[b] = k
      BY <3>1 DEF l
    <3> QED BY <1>s, <2>5, <2>6, <2>7, <3>1, <3>2, WriteAgrees
  <2> QED BY <2>2, <2>3, <2>8 DEF SerialInv, Alone
<1> QED BY <1>2, <1>3, <1>4, <1>5 DEF Worker

(* Payment requests leave homes, requests and jobs alone; only the webhook's *)
(* commit writes a booking, and it notes one that had ended.                 *)
LEMMA CallSerial ==
  ASSUME PayInv, SerialInv, NEW c \in Callers, CallBegin(c) \/ CallStep(c) \/ CallAbort(c)
  PROVE  SerialInv'
<1>s. Alone /\ ReadIsCurrent /\ HomesMatchBookings /\ IInv
  BY DEF SerialInv, PayInv
<1>1. CASE UNCHANGED <<vars, revived>>
  BY <1>1, <1>s DEF vars, SerialInv, Alone, ReadIsCurrent, InFlight, ActiveJobs, HomesMatchBookings,
     OfferedMeansRevived, SoldMeansSecured, ActiveOn
<1>2. ASSUME NEW b \in BookingIds, b = call[c].booking, HookCommit(c),
             bookingListing[b] \in Listings, WritesRow(b, bookingListing[b], "BOOKED"),
             UNCHANGED <<listingStatus, bookingListing, expiryJob, request>>,
             IndexAllows(b, bookingListing[b])
      PROVE  SerialInv'
  <2> DEFINE l == bookingListing[b]
  <2>1. /\ bookingStatus' = [bookingStatus EXCEPT ![b] = "BOOKED"]
        /\ bookingListing' = [bookingListing EXCEPT ![b] = l]
    BY <1>2 DEF WritesRow
  <2>2. revived' = IF bookingStatus[b] \in ActiveStatus THEN revived ELSE revived \cup {b}
    BY <1>2 DEF HookCommit
  <2>3. ActiveOn(l) \subseteq {b}
    BY <1>2 DEF IndexAllows
  <2>4. listingStatus[l] = "VERIFIED" => b \in revived'
    <3>1. CASE bookingStatus[b] \in ActiveStatus
      <4>1. b \in ActiveOn(l)
        BY <3>1 DEF ActiveOn
      <4> QED BY <1>2, <1>s, <2>2, <3>1, <4>1 DEF HomesMatchBookings, OfferedMeansRevived
    <3>2. CASE bookingStatus[b] \notin ActiveStatus
      BY <2>2, <3>2
    <3> QED BY <3>1, <3>2
  <2>5. HomesMatchBookings'
    <3>1. "BOOKED" \in BookingStatus
      BY DEF BookingStatus
    <3>2. revived \subseteq revived'
      BY <2>2
    <3>3. PICK k \in Listings : k = l
      BY <1>2
    <3> HIDE DEF l
    <3>4. bookingListing[b] = k
      BY <3>3 DEF l
    <3>5. \A j \in Listings : listingStatus'[j] = listingStatus[j]
      BY <1>2
    <3> QED BY <1>s, <2>1, <2>3, <2>4, <3>1, <3>2, <3>3, <3>4, <3>5, WriteAgrees
  <2>6. Alone'
    BY <1>2, <1>s DEF Alone, InFlight, ActiveJobs
  <2>7. ReadIsCurrent'
    <3>1. \A a \in BookingIds : bookingStatus'[a] \in {bookingStatus[a], "BOOKED"}
      BY <1>s, <2>1 DEF IInv, TypeOK
    <3>2. \A h \in Handlers :
            request[h].pc \in {"confirmUpdate", "cancelCommit", "confirmListing", "completeCommit",
                              "disputeCommit"} => request[h].booking \in BookingIds
      BY <1>s DEF IInv, RequestsOK
    <3> QED BY <1>2, <1>s, <3>1, <3>2 DEF ReadIsCurrent, ActiveStatus
  <2> QED BY <2>5, <2>6, <2>7 DEF SerialInv
<1>3. ASSUME HookCommit(c) PROVE SerialInv'
  <2>1. CASE UNCHANGED <<vars, payVars>>
    BY <1>1, <2>1 DEF payVars
  <2>2. ASSUME NEW b \in BookingIds, b = call[c].booking, bookingListing[b] \in Listings,
               WritesRow(b, bookingListing[b], "BOOKED"),
               UNCHANGED <<listingStatus, bookingListing, expiryJob, request>>
        PROVE  SerialInv'
    <3>1. IndexAllows(b, bookingListing[b])
      BY <2>2 DEF WritesRow, ActiveStatus
    <3> QED BY <1>2, <1>3, <2>2, <3>1
  <2> QED BY <1>3, <2>1, <2>2, HookCommitRow
<1>4. UNCHANGED <<vars, revived>> \/ HookCommit(c)
  BY DEF payVars, CallBegin, CallStep, CallAbort, StartRead, VerifyRead, HookRead, StartCreate,
         StartInit, VerifyAsk, VerifyWrite, HookFailed, HookLock, HookEscrow, HookReceipt
<1> QED BY <1>1, <1>3, <1>4

(* While one request or job of the bookings runs at a time, a home that      *)
(* createBooking accepts has no active booking but one that the payment      *)
(* webhook booked after it had ended (payments.webhook.controller.ts), and a *)
(* SOLD one has a confirmed booking: also after requests and jobs that died  *)
(* between two of their writes, with any number of payment requests and      *)
(* webhooks between any two steps, for any numbers of homes and bookings and *)
(* however the workers' clocks go.                                           *)
THEOREM HomesAgreeWithBookings ==
  ASSUME MaxInFlight = 1
  PROVE  PaySpec => []HomesMatchBookings
<1>1. PayInit => SerialInv
  <2> SUFFICES ASSUME PayInit PROVE SerialInv
    OBVIOUS
  <2>1. Alone /\ ReadIsCurrent
    BY DEF PayInit, Init, Alone, ReadIsCurrent, InFlight, ActiveJobs, Idle
  <2>2. HomesMatchBookings
    BY DEF PayInit, Init, HomesMatchBookings, OfferedMeansRevived, SoldMeansSecured, ActiveOn,
           ActiveStatus
  <2> QED BY <2>1, <2>2 DEF SerialInv
<1>2. PayInv /\ SerialInv /\ [PayNext]_allVars => SerialInv'
  <2> SUFFICES ASSUME PayInv, SerialInv, [PayNext]_allVars PROVE SerialInv'
    OBVIOUS
  <2>i. IInv
    BY DEF PayInv
  <2>1. CASE UNCHANGED <<vars, revived>>
    BY <2>1 DEF vars, SerialInv, Alone, ReadIsCurrent, InFlight, ActiveJobs, HomesMatchBookings,
       OfferedMeansRevived, SoldMeansSecured, ActiveOn
  <2>2. ASSUME NEW l \in Listings, FlagListing(l), UNCHANGED payVars PROVE SerialInv'
    <3>1. UNCHANGED <<bookingVars, expiryJob, request, revived>>
          /\ listingStatus' = [listingStatus EXCEPT ![l] = "FLAGGED"]
      BY <2>2 DEF FlagListing, payVars
    <3>2. \A k \in Listings : listingStatus'[k] \in {listingStatus[k], "FLAGGED"}
      BY <2>i, <3>1 DEF IInv, TypeOK
    <3>3. HomesMatchBookings'
      BY <3>1, <3>2 DEF SerialInv, HomesMatchBookings, OfferedMeansRevived, SoldMeansSecured,
         ActiveOn, bookingVars
    <3> QED BY <3>1, <3>3 DEF SerialInv, Alone, ReadIsCurrent, InFlight, ActiveJobs, bookingVars
  <2>3. CASE Next /\ UNCHANGED payVars
    BY <2>i, <2>2, <2>3, HandlerSerial, WorkerSerial DEF Next
  <2>4. ASSUME NEW p \in PaymentIds, Charge(p, "success") \/ Charge(p, "failed") PROVE SerialInv'
    BY <2>1, <2>4 DEF Charge
  <2>5. CASE UNCHANGED allVars
    BY <2>1, <2>5 DEF allVars, payVars
  <2> QED BY <2>3, <2>4, <2>5, CallSerial DEF PayNext
<1>3. SerialInv => HomesMatchBookings
  BY DEF SerialInv
<1> QED BY <1>1, <1>2, <1>3, PayInvariance, PTL DEF PaySpec

=============================================================================
