------------------------------ MODULE Payments ------------------------------
(***************************************************************************)
(* Deposits: BookingsService.startPayment, PaymentsController.verify and   *)
(* the Paystack webhook, composed with the bookings they pay for.          *)
(*                                                                         *)
(* Paystack is external.  It is what the code can see of it: the charges   *)
(* a reference has had, an answer to verify that may be old when it is     *)
(* used, and webhook events that come late, in any order, many times or    *)
(* never.                                                                  *)
(***************************************************************************)
EXTENDS Bookings

CONSTANTS
  PaymentIds,   \* ids (and references) available to rows of payments
  Callers,      \* request slots for the payment endpoints
  MaxCalls,     \* bound: payment requests between two of their steps
  NoPayment

ASSUME PaymentsAssumption ==
  /\ MaxCalls \in Nat
  /\ NoPayment \notin PaymentIds

VARIABLES
  paymentStatus,    \* payments.status, "none" while no row has the id
  paymentBooking,   \* payments.booking_id
  checkout,         \* Paystack knows the reference and its customer can pay
  charges,          \* outcomes of the attempts to charge, at Paystack
  escrow,           \* an escrows row for the payment is committed
  receipt,          \* a receipts row for the payment is committed
  revived,          \* history: bookings the webhook booked after they had ended
  call              \* what each payment request has read

payVars == <<paymentStatus, paymentBooking, checkout, charges, escrow, receipt, revived>>
allVars == <<vars, payVars, call>>

PaymentStatus == {"none", "INITIATED", "SUCCESS", "FAILED"}
CallPc == {"idle", "startCreate", "startInit", "verifyAsk", "verifySuccess",
           "verifyFailed", "hookFailed", "hookLock", "hookEscrow",
           "hookReceipt", "hookCommit"}
Call == [pc : CallPc, payment : PaymentIds \cup {NoPayment},
         booking : BookingIds \cup {NoBooking}]
NoCall == [pc |-> "idle", payment |-> NoPayment, booking |-> NoBooking]

-----------------------------------------------------------------------------
CallsInFlight == {c \in Callers : call[c].pc # "idle"}

Step(c, pc, p, b) ==
  call' = [call EXCEPT ![c] = [pc |-> pc, payment |-> p, booking |-> b]]
Return(c) == call' = [call EXCEPT ![c] = NoCall]

Begin(c) == /\ call[c].pc = "idle"
            /\ Cardinality(CallsInFlight) < MaxCalls

PaymentsOf(b) == {p \in PaymentIds : paymentBooking[p] = b}

(* The payments whose row a webhook transaction has updated and not yet     *)
(* committed, and those whose escrow row it has inserted as well.           *)
Locked    == {p \in PaymentIds : \E c \in Callers : call[c].payment = p /\
                call[c].pc \in {"hookEscrow", "hookReceipt", "hookCommit"}}
Inserting == {p \in PaymentIds : \E c \in Callers : call[c].payment = p /\
                call[c].pc \in {"hookReceipt", "hookCommit"}}

SetPayment(p, s) == paymentStatus' = [paymentStatus EXCEPT ![p] = s]

-----------------------------------------------------------------------------
(* startPayment *)

(* A mutant: a payment that failed may be started anew. *)
StartReadAgain(c, b) ==
  /\ Begin(c)
  /\ bookingStatus[b] # "AVAILABLE"
  /\ \A p \in PaymentsOf(b) : paymentStatus[p] = "FAILED"
  /\ Step(c, "startCreate", NoPayment, b)
  /\ UNCHANGED <<vars, payVars>>

(* Any earlier payment of the booking, of any status, is returned as it is. *)
(* The status of the booking is not looked at.                              *)
StartRead(c, b) ==
  /\ Begin(c)
  /\ bookingStatus[b] # "AVAILABLE"
  /\ PaymentsOf(b) = {}
  /\ Step(c, "startCreate", NoPayment, b)
  /\ UNCHANGED <<vars, payVars>>

StartCreate(c) ==
  /\ call[c].pc = "startCreate"
  /\ \E p \in PaymentIds :
       /\ paymentStatus[p] = "none"
       /\ SetPayment(p, "INITIATED")
       /\ paymentBooking' = [paymentBooking EXCEPT ![p] = call[c].booking]
       /\ Step(c, "startInit", p, call[c].booking)
  /\ UNCHANGED <<vars, checkout, charges, escrow, receipt, revived>>

(* paystack.initialize succeeds, or it throws and the payment is FAILED. *)
StartInit(c) ==
  LET p == call[c].payment IN
  /\ call[c].pc = "startInit"
  /\ \/ checkout' = [checkout EXCEPT ![p] = TRUE] /\ UNCHANGED paymentStatus
     \/ SetPayment(p, "FAILED") /\ UNCHANGED checkout
  /\ Return(c)
  /\ UNCHANGED <<vars, paymentBooking, charges, escrow, receipt, revived>>

-----------------------------------------------------------------------------
(* Paystack: a customer may fail to pay and try again with the reference. *)

Charge(p, outcome) ==
  /\ checkout[p]
  /\ "success" \notin charges[p]
  /\ charges' = [charges EXCEPT ![p] = @ \cup {outcome}]
  /\ UNCHANGED <<vars, paymentStatus, paymentBooking, checkout, escrow,
                 receipt, revived, call>>

-----------------------------------------------------------------------------
(* GET /payments/verify *)

VerifyRead(c, p) ==
  /\ Begin(c)
  /\ paymentStatus[p] \in {"INITIATED", "FAILED"}
  /\ Step(c, "verifyAsk", p, NoBooking)
  /\ UNCHANGED <<vars, payVars>>

(* A mutant: an answer that is not a failure is taken for a success. *)
VerifyAskOptimistic(c) ==
  LET p == call[c].payment IN
  /\ call[c].pc = "verifyAsk"
  /\ IF charges[p] = {"failed"} THEN Step(c, "verifyFailed", p, NoBooking)
                                ELSE Step(c, "verifySuccess", p, NoBooking)
  /\ UNCHANGED <<vars, payVars>>

(* Paystack says success, failed, abandoned (as it does of a checkout that   *)
(* nobody has paid yet) or that the payment is still going on.               *)
VerifyAsk(c) ==
  LET p == call[c].payment IN
  /\ call[c].pc = "verifyAsk"
  /\ \/ "success" \in charges[p] /\ Step(c, "verifySuccess", p, NoBooking)
     \/ "success" \notin charges[p] /\ Step(c, "verifyFailed", p, NoBooking)
     \/ "success" \notin charges[p] /\ Return(c)
  /\ UNCHANGED <<vars, payVars>>

(* The payment alone is updated: no escrow, no receipt, no booking. *)
VerifyWrite(c) ==
  LET p == call[c].payment IN
  /\ p \notin Locked
  /\ \/ call[c].pc = "verifySuccess" /\ SetPayment(p, "SUCCESS")
     \/ call[c].pc = "verifyFailed" /\ SetPayment(p, "FAILED")
  /\ Return(c)
  /\ UNCHANGED <<vars, paymentBooking, checkout, charges, escrow, receipt, revived>>

-----------------------------------------------------------------------------
(* POST /payments/webhook: one delivery of an event that has happened. *)

(* A mutant: the check for a recorded success is missing. *)
HookReadAny(c, p) ==
  /\ Begin(c)
  /\ paymentStatus[p] # "none"
  /\ \/ "success" \in charges[p] /\ Step(c, "hookLock", p, paymentBooking[p])
     \/ "failed" \in charges[p] /\ Step(c, "hookFailed", p, NoBooking)
  /\ UNCHANGED <<vars, payVars>>

HookRead(c, p) ==
  /\ Begin(c)
  /\ paymentStatus[p] \in {"INITIATED", "FAILED"}
  /\ \/ "success" \in charges[p] /\ Step(c, "hookLock", p, paymentBooking[p])
     \/ "failed" \in charges[p] /\ Step(c, "hookFailed", p, NoBooking)
  /\ UNCHANGED <<vars, payVars>>

(* A mutant: the status is one that only the database enum has. *)
HookFailedAbandoned(c) ==
  LET p == call[c].payment IN
  /\ call[c].pc = "hookFailed"
  /\ p \notin Locked
  /\ SetPayment(p, "ABANDONED")
  /\ Return(c)
  /\ UNCHANGED <<vars, paymentBooking, checkout, charges, escrow, receipt, revived>>

HookFailed(c) ==
  LET p == call[c].payment IN
  /\ call[c].pc = "hookFailed"
  /\ p \notin Locked
  /\ SetPayment(p, "FAILED")
  /\ Return(c)
  /\ UNCHANGED <<vars, paymentBooking, checkout, charges, escrow, receipt, revived>>

(* handleSuccess, one transaction: update the payment (and keep its row      *)
(* locked), insert the escrow, insert the receipt, update the booking.       *)
HookLock(c) ==
  LET p == call[c].payment IN
  /\ call[c].pc = "hookLock"
  /\ p \notin Locked
  /\ Step(c, "hookEscrow", p, call[c].booking)
  /\ UNCHANGED <<vars, payVars>>

(* A mutant: escrows has no unique index over payer and booking. *)
EscrowExistsPayment(p, b) == escrow[p]

(* Unique indexes: one escrow for a payment, one for a payer and booking. *)
EscrowExists(p, b) == \E q \in PaymentsOf(b) : escrow[q]

(* A mutant: the receipt is left for later. *)
HookEscrowNoReceipt(c) ==
  LET p == call[c].payment
      b == call[c].booking IN
  /\ call[c].pc = "hookEscrow"
  /\ PaymentsOf(b) \cap Inserting = {}
  /\ IF EscrowExists(p, b) THEN Return(c) ELSE Step(c, "hookCommit", p, b)
  /\ UNCHANGED <<vars, payVars>>

(* The insert waits for a transaction that inserts the same key, and fails   *)
(* when the key is there.                                                    *)
HookEscrow(c) ==
  LET p == call[c].payment
      b == call[c].booking IN
  /\ call[c].pc = "hookEscrow"
  /\ PaymentsOf(b) \cap Inserting = {}
  /\ IF EscrowExists(p, b) THEN Return(c) ELSE Step(c, "hookReceipt", p, b)
  /\ UNCHANGED <<vars, payVars>>

(* ReceiptService has a PrismaService of its own and not the transaction:    *)
(* its insert is committed at once and stays when the transaction does not.  *)
HookReceipt(c) ==
  LET p == call[c].payment IN
  /\ call[c].pc = "hookReceipt"
  /\ IF receipt[p]
     THEN Return(c) /\ UNCHANGED receipt
     ELSE /\ Step(c, "hookCommit", p, call[c].booking)
          /\ receipt' = [receipt EXCEPT ![p] = TRUE]
  /\ UNCHANGED <<vars, paymentStatus, paymentBooking, checkout, charges, escrow,
                 revived>>

(* The booking becomes BOOKED whatever it is by now, unless another booking  *)
(* of the home is active: then the transaction rolls back.                   *)
HookCommit(c) ==
  LET p == call[c].payment
      b == call[c].booking IN
  /\ call[c].pc = "hookCommit"
  /\ IF IndexAllows(b, bookingListing[b])
     THEN /\ SetPayment(p, "SUCCESS")
          /\ escrow' = [escrow EXCEPT ![p] = TRUE]
          /\ bookingStatus' = [bookingStatus EXCEPT ![b] = "BOOKED"]
          /\ hold' = [hold EXCEPT ![b] = "none"]
          /\ revived' = IF bookingStatus[b] \in ActiveStatus THEN revived
                                                             ELSE revived \cup {b}
     ELSE UNCHANGED <<paymentStatus, escrow, bookingStatus, hold, revived>>
  /\ Return(c)
  /\ UNCHANGED <<listingStatus, bookingListing, expiryJob, request, ledgerVars,
                 paymentBooking, checkout, charges, receipt>>

(* The request dies: its open transaction, if any, is rolled back.  So does  *)
(* a transaction that is not done in five seconds.                           *)
CallAbort(c) ==
  /\ call[c].pc # "idle"
  /\ Return(c)
  /\ UNCHANGED <<vars, payVars>>

-----------------------------------------------------------------------------
PayInit ==
  /\ Init
  /\ paymentStatus = [p \in PaymentIds |-> "none"]
  /\ paymentBooking = [p \in PaymentIds |-> NoBooking]
  /\ checkout = [p \in PaymentIds |-> FALSE]
  /\ charges = [p \in PaymentIds |-> {}]
  /\ escrow = [p \in PaymentIds |-> FALSE]
  /\ receipt = [p \in PaymentIds |-> FALSE]
  /\ revived = {}
  /\ call = [c \in Callers |-> NoCall]

CallBegin(c) ==
  \/ \E b \in BookingIds : StartRead(c, b)
  \/ \E p \in PaymentIds : VerifyRead(c, p) \/ HookRead(c, p)

CallStep(c) ==
  \/ StartCreate(c) \/ StartInit(c)
  \/ VerifyAsk(c) \/ VerifyWrite(c)
  \/ HookFailed(c) \/ HookLock(c) \/ HookEscrow(c) \/ HookReceipt(c)
  \/ HookCommit(c)

PayNext ==
  \/ Next /\ UNCHANGED <<payVars, call>>
  \/ \E c \in Callers : CallBegin(c) \/ CallStep(c) \/ CallAbort(c)
  \/ \E p \in PaymentIds : Charge(p, "success") \/ Charge(p, "failed")

PaySpec == PayInit /\ [][PayNext]_allVars

(* A request goes on or dies, and Paystack repeats its events while they are *)
(* not answered with 200.                                                    *)
PayFairness ==
  /\ \A c \in Callers : WF_allVars(CallStep(c) \/ CallAbort(c))
  /\ \A p \in PaymentIds : SF_allVars(\E c \in Callers : HookRead(c, p))

PayFairSpec == PaySpec /\ PayFairness

-----------------------------------------------------------------------------
PayTypeOK ==
  /\ TypeOK
  /\ paymentStatus \in [PaymentIds -> PaymentStatus]
  /\ paymentBooking \in [PaymentIds -> BookingIds \cup {NoBooking}]
  /\ checkout \in [PaymentIds -> BOOLEAN]
  /\ charges \in [PaymentIds -> SUBSET {"success", "failed"}]
  /\ escrow \in [PaymentIds -> BOOLEAN]
  /\ receipt \in [PaymentIds -> BOOLEAN]
  /\ revived \subseteq BookingIds
  /\ call \in [Callers -> Call]

(* While one handler or job runs at a time, homes and bookings agree, also   *)
(* after a handler that died half-way: a home that createBooking accepts has *)
(* no active booking but one that the webhook booked although it had ended.  *)
(* Payment requests and webhooks come between any two steps.                 *)
OfferedMeansRevived ==
  \A l \in Listings : listingStatus[l] = "VERIFIED" => ActiveOn(l) \subseteq revived

HomesMatchBookings == OfferedMeansRevived /\ SoldMeansSecured

(* Money held in escrow always has its receipt, although the two rows are    *)
(* written over two connections and either write can fail.                   *)
EscrowHasReceipt == \A p \in PaymentIds : escrow[p] => receipt[p]

(* A booking that was paid twice still has one escrow. *)
OneEscrowPerBooking ==
  \A p, q \in PaymentIds :
    escrow[p] /\ escrow[q] /\ paymentBooking[p] = paymentBooking[q] => p = q

(* Nothing is recorded as paid, escrowed or receipted that was not charged,  *)
(* whatever order answers and events arrive in.                              *)
RecordedMeansCharged ==
  \A p \in PaymentIds :
    paymentStatus[p] = "SUCCESS" \/ escrow[p] \/ receipt[p]
      => "success" \in charges[p]

(* One booking is charged once.  It holds while payment requests do not      *)
(* overlap: startPayment looks for a payment before it creates one.          *)
ChargedOnce ==
  \A p, q \in PaymentIds :
    /\ paymentBooking[p] = paymentBooking[q]
    /\ "success" \in charges[p]
    /\ "success" \in charges[q]
    => p = q

(* "If we already recorded success, return it directly" (verify): a recorded *)
(* success is final.  A verify or a charge.failed event that read the        *)
(* payment before the success writes FAILED over it.                         *)
RecordedSuccessStays ==
  [][\A p \in PaymentIds : paymentStatus[p] = "SUCCESS" =>
       paymentStatus'[p] = "SUCCESS"]_allVars

(* verify asks "for the latest state and reconcile[s]": a payment that is    *)
(* recorded as paid gets its escrow.  When verify is first to record it, the *)
(* webhook finds SUCCESS and does nothing.                                   *)
RecordedSuccessGetsEscrow ==
  \A p \in PaymentIds : paymentStatus[p] = "SUCCESS" ~> escrow[p]

=============================================================================
