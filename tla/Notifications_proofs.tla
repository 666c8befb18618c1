------------------------ MODULE Notifications_proofs ------------------------
(***************************************************************************)
(* Theorems about notifications and conversations: Delivery, for any       *)
(* messages, attempts, requests, crashes and any finite number of          *)
(* handlers; Push, for any users, phones and limits; Support, for any      *)
(* number of texts; Inbox. The modules share no variables: each theorem is *)
(* about the specification of one.                                         *)
(***************************************************************************)
EXTENDS Delivery, Push, Support, Inbox, FiniteSetTheorems, TLAPS

-----------------------------------------------------------------------------
(* Delivery.                                                                 *)

(* A handler works on a message of the kind its step is for. *)
HandlersFit ==
  \A w \in Workers :
    /\ worker[w].pc \in {"create", "load"} => worker[w].for \in Notes
    /\ worker[w].pc = "mail" => worker[w].for \in Mails
    /\ worker[w].pc = "end" \/ worker[w].mine => worker[w].for \in Messages

(* A job that waits has an attempt left. *)
TriesLeft == \A k \in Messages : job[k].state = "waiting" => job[k].tries <= RetryLimit(k)

(* A handler past its write has left a trace of the message. *)
TraceLeft ==
  \A w \in Workers :
    /\ worker[w].pc \in {"load", "end"} /\ worker[w].for \in Notes => row[worker[w].for] # "none"
    /\ worker[w].pc = "end" /\ worker[w].for \in Mails => mailed[worker[w].for] > 0

(* The handlers that have stored a row and have not announced it: each row   *)
(* the user has now or has deleted pays for one event, sent or still due.    *)
Due(k) == {w \in Workers : worker[w].pc = "load" /\ worker[w].for = k /\ worker[w].fresh}
Paid(k) == emitted[k] + Cardinality(Due(k)) <= deletes[k] + IF Stored(k) THEN 1 ELSE 0
RowsPayForEvents == \A k \in Notes : Paid(k)

(* The inductive invariant, in the parts the lemmas below preserve. *)
IInv == /\ DeliveryTypeOK /\ HandlersFit /\ TriesLeft /\ OneHandlerPerJob
        /\ TraceLeft /\ EndedWithoutTraceIsDead
        /\ RowsPayForEvents

-----------------------------------------------------------------------------
(* Messages and jobs. *)

LEMMA Kinds ==
  /\ \A k \in Messages : (k \in Notes) # (k \in Mails)
  /\ AdminNotes \subseteq Notes /\ Notes \subseteq Messages /\ Mails \subseteq Messages
  /\ \A k \in Messages : /\ Attempts[k] \in Nat \ {0} /\ MaxAsks[k] \in Nat
                         /\ RetryLimit(k) = Attempts[k] - 1
BY DeliveryAssumption DEF DeliveryAssumption, Messages, RetryLimit

JobRow == [state : JobState, tries : Nat]

(* What has failed waits with an attempt left, or is dead. *)
LEMMA FailureEnds ==
  ASSUME NEW k \in Messages, NEW j \in JobRow
  PROVE  /\ AfterFailure(j, k) \in JobRow
         /\ AfterFailure(j, k).tries = j.tries
         /\ AfterFailure(j, k).state \in {"waiting", "dead"}
         /\ AfterFailure(j, k).state = "waiting" => j.tries <= RetryLimit(k)
BY DEF AfterFailure, JobRow, JobState

(* A job's row is replaced by one that has not used up its attempts. *)
LEMMA RowReplaced ==
  ASSUME DeliveryTypeOK, TriesLeft, NEW k \in Messages, NEW j \in JobRow,
         j.tries <= Attempts[k], j.state = "waiting" => j.tries <= RetryLimit(k),
         job' = [job EXCEPT ![k] = j]
  PROVE  /\ job' \in [Messages -> JobRow] /\ job'[k] = j
         /\ \A i \in Messages : job'[i].tries <= Attempts[i]
         /\ TriesLeft'
         /\ \A i \in Messages : i # k => job'[i] = job[i]
<1>1. job \in [Messages -> JobRow] /\ \A i \in Messages : job[i].tries <= Attempts[i]
  BY DEF DeliveryTypeOK, JobRow
<1>2. \A i \in Messages : job'[i] = IF i = k THEN j ELSE job[i]
  BY <1>1
<1>3. TriesLeft'
  BY <1>2 DEF TriesLeft, RetryLimit
<1> QED BY <1>1, <1>2, <1>3

LEMMA SendKeeps ==
  ASSUME DeliveryTypeOK, TriesLeft, NEW k \in Messages, Send(k)
  PROVE  /\ job' \in [Messages -> JobRow]
         /\ \A i \in Messages : job'[i].tries <= Attempts[i]
         /\ TriesLeft'
         /\ \A i \in Messages : /\ job[i].state = "active" <=> job'[i].state = "active"
                                /\ job[i].state = "done" <=> job'[i].state = "done"
<1> DEFINE fresh == [state |-> "waiting", tries |-> 0]
<1>1. CASE job[k].state = "none"
  <2>1. fresh \in JobRow /\ fresh.state = "waiting" /\ fresh.tries = 0
    BY DEF JobRow, JobState
  <2>2. fresh.tries <= Attempts[k] /\ fresh.tries <= RetryLimit(k)
    BY <2>1, Kinds
  <2>3. job' = [job EXCEPT ![k] = fresh]
    BY <1>1 DEF Send
  <2> HIDE DEF fresh
  <2> QED BY <1>1, <2>1, <2>2, <2>3, RowReplaced
<1>2. CASE UNCHANGED job
  BY <1>2 DEF DeliveryTypeOK, TriesLeft, JobRow, RetryLimit
<1> QED BY <1>1, <1>2 DEF Send

-----------------------------------------------------------------------------
(* Requests. *)

LEMMA EnqueueStep ==
  ASSUME IInv, NEW k \in Messages, Enqueue(k), UNCHANGED <<row, deletes>>,
         written' \in [Notes -> BOOLEAN]
  PROVE  IInv'
<1>1. /\ job' \in [Messages -> JobRow]
      /\ \A i \in Messages : job'[i].tries <= Attempts[i]
      /\ TriesLeft'
      /\ \A i \in Messages : /\ job[i].state = "active" <=> job'[i].state = "active"
                             /\ job[i].state = "done" <=> job'[i].state = "done"
  <2>1. CASE Send(k)
    BY <2>1, SendKeeps DEF IInv
  <2>2. CASE UNCHANGED job
    BY <2>2 DEF IInv, DeliveryTypeOK, TriesLeft, JobRow, RetryLimit
  <2> QED BY <2>1, <2>2 DEF Enqueue
<1>2. DeliveryTypeOK'
  <2>1. asked' \in [Messages -> Nat] /\ \A i \in Messages : asked'[i] <= MaxAsks[i]
    BY Kinds DEF IInv, Enqueue, DeliveryTypeOK
  <2> QED BY <1>1, <2>1 DEF IInv, Enqueue, DeliveryTypeOK, JobRow, out
<1>3. HandlersFit'
  BY DEF IInv, Enqueue, HandlersFit
<1>4. OneHandlerPerJob'
  <2>1. worker' = worker
    BY DEF Enqueue
  <2>2. ASSUME NEW w \in Workers, worker[w].mine
        PROVE  job'[worker[w].for].state = "active"
    <3>1. worker[w].for \in Messages
      BY <2>2 DEF IInv, HandlersFit
    <3>2. job[worker[w].for].state = "active"
      BY <2>2 DEF IInv, OneHandlerPerJob
    <3>3. \A i \in Messages : job[i].state = "active" => job'[i].state = "active"
      BY <1>1
    <3> QED BY <3>1, <3>2, <3>3
  <2> QED BY <2>1, <2>2 DEF IInv, OneHandlerPerJob
<1>5. TraceLeft'
  BY DEF IInv, Enqueue, TraceLeft, out
<1>6. EndedWithoutTraceIsDead'
  BY <1>1, Kinds DEF IInv, Enqueue, EndedWithoutTraceIsDead, out
<1>7. RowsPayForEvents'
  BY DEF IInv, Enqueue, RowsPayForEvents, Paid, Due, Stored, out
<1> QED BY <1>1, <1>2, <1>3, <1>4, <1>5, <1>6, <1>7 DEF IInv

-----------------------------------------------------------------------------
(* Handlers. *)

LEMMA IdleIsHandler ==
  /\ Idle \in Handler
  /\ Idle.pc = "idle" /\ Idle.mine = FALSE /\ Idle.fresh = FALSE
BY DEF Idle, Handler, Pc

LEMMA HandlerReplaced ==
  ASSUME worker \in [Workers -> Handler], NEW w \in Workers, NEW h \in Handler,
         worker' = [worker EXCEPT ![w] = h]
  PROVE  /\ worker' \in [Workers -> Handler] /\ worker'[w] = h
         /\ \A v \in Workers : v # w => worker'[v] = worker[v]
OBVIOUS

(* What stands of the invariant about the handlers when one is replaced. *)
LEMMA OtherHandlersFit ==
  ASSUME HandlersFit, NEW w \in Workers,
         \A v \in Workers : v # w => worker'[v] = worker[v],
         /\ worker'[w].pc \in {"create", "load"} => worker'[w].for \in Notes
         /\ worker'[w].pc = "mail" => worker'[w].for \in Mails
         /\ worker'[w].pc = "end" \/ worker'[w].mine => worker'[w].for \in Messages
  PROVE  HandlersFit'
BY DEF HandlersFit

(* A handler that has ended takes its job with it, and no other's. *)
LEMMA HandlerLeaves ==
  ASSUME DeliveryTypeOK, HandlersFit, OneHandlerPerJob, NEW w \in Workers,
         ~worker'[w].mine,
         \A v \in Workers : v # w => worker'[v] = worker[v],
         \A i \in Messages : (worker[w].mine /\ i = worker[w].for) \/ job'[i] = job[i]
  PROVE  OneHandlerPerJob'
<1>1. ASSUME NEW v \in Workers, worker'[v].mine
      PROVE  /\ v # w /\ worker'[v] = worker[v] /\ worker[v].mine
             /\ job'[worker'[v].for].state = "active"
  <2>1. v # w /\ worker'[v] = worker[v] /\ worker[v].mine
    BY <1>1
  <2>2. worker[v].for \in Messages /\ job[worker[v].for].state = "active"
    BY <2>1 DEF HandlersFit, OneHandlerPerJob
  <2>3. ~(worker[w].mine /\ worker[v].for = worker[w].for)
    BY <2>1 DEF OneHandlerPerJob
  <2> QED BY <2>1, <2>2, <2>3
<1>2. ASSUME NEW u \in Workers, NEW v \in Workers, worker'[u].mine, worker'[v].mine,
             worker'[u].for = worker'[v].for
      PROVE  u = v
  BY <1>1, <1>2 DEF OneHandlerPerJob
<1> QED BY <1>1, <1>2 DEF OneHandlerPerJob

(* When a row comes or is announced, the count of Due changes by one. *)
LEMMA DueIsFinite ==
  ASSUME NEW k PROVE IsFiniteSet(Due(k)) /\ Cardinality(Due(k)) \in Nat
BY DeliveryAssumption, FS_Subset, FS_CardinalityType DEF DeliveryAssumption, Due

LEMMA DueShrinks ==
  ASSUME NEW k, NEW D \in SUBSET Due(k)
  PROVE  Cardinality(D) \in Nat /\ Cardinality(D) <= Cardinality(Due(k))
BY DueIsFinite, FS_Subset, FS_CardinalityType

LEMMA PaidStays ==
  ASSUME DeliveryTypeOK, NEW k \in Notes, Paid(k), Due(k)' \in SUBSET Due(k),
         emitted'[k] = emitted[k], deletes'[k] = deletes[k], Stored(k) => Stored(k)'
  PROVE  Paid(k)'
<1>1. /\ Cardinality(Due(k)) \in Nat /\ Cardinality(Due(k)') \in Nat
      /\ Cardinality(Due(k)') <= Cardinality(Due(k))
  BY DueIsFinite, DueShrinks
<1> QED BY <1>1 DEF Paid, DeliveryTypeOK

-----------------------------------------------------------------------------
(* A handler ends, as Fails and End have it. *)

LEMMA ReportStep ==
  ASSUME IInv, NEW w \in Workers, worker[w].for \in Messages,
         NEW j \in JobRow, j.tries <= Attempts[worker[w].for],
         j.state \in {"waiting", "done", "dead"},
         j.state = "waiting" => j.tries <= RetryLimit(worker[w].for),
         j.state = "done" => worker[w].pc = "end",
         Report(w, j), UNCHANGED <<user, asked, out, crashes>>
  PROVE  IInv'
<1> DEFINE k == worker[w].for
<1>1. /\ worker' \in [Workers -> Handler] /\ worker'[w] = Idle
      /\ \A v \in Workers : v # w => worker'[v] = worker[v]
  BY HandlerReplaced, IdleIsHandler DEF IInv, DeliveryTypeOK, Report
<1>2. /\ job' \in [Messages -> JobRow] /\ \A i \in Messages : job'[i].tries <= Attempts[i]
      /\ TriesLeft'
      /\ \A i \in Messages : (worker[w].mine /\ i = k) \/ job'[i] = job[i]
      /\ job'[k] = j \/ job'[k] = job[k]
  <2>1. CASE worker[w].mine
    BY <2>1, RowReplaced DEF IInv, Report
  <2>2. CASE ~worker[w].mine
    BY <2>2 DEF IInv, Report, DeliveryTypeOK, TriesLeft, JobRow, RetryLimit
  <2> QED BY <2>1, <2>2
<1>3. DeliveryTypeOK'
  BY <1>1, <1>2 DEF IInv, DeliveryTypeOK, JobRow, user, out
<1>4. HandlersFit' /\ OneHandlerPerJob'
  BY <1>1, <1>2, IdleIsHandler, OtherHandlersFit, HandlerLeaves DEF IInv
<1>5. TraceLeft'
  BY <1>1, IdleIsHandler DEF IInv, TraceLeft, user, out
<1>6. EndedWithoutTraceIsDead'
  <2>1. ASSUME NEW i \in Messages, job'[i].state = "done"
        PROVE  job[i].state = "done" \/ (i = k /\ worker[w].pc = "end")
    BY <1>2, <2>1
  <2>2. /\ worker[w].pc = "end" /\ k \in Notes => row[k] # "none"
        /\ worker[w].pc = "end" /\ k \in Mails => mailed[k] > 0
    BY DEF IInv, TraceLeft
  <2> QED BY <2>1, <2>2, Kinds DEF IInv, EndedWithoutTraceIsDead, user, out
<1>7. RowsPayForEvents'
  <2>1. ASSUME NEW i \in Notes PROVE Due(i)' \in SUBSET Due(i)
    BY <1>1, IdleIsHandler DEF Due
  <2> QED
    BY <2>1, PaidStays DEF IInv, RowsPayForEvents, Stored, user, out
<1> QED BY <1>2, <1>3, <1>4, <1>5, <1>6, <1>7 DEF IInv

LEMMA FailsStep ==
  ASSUME IInv, NEW w \in Workers, worker[w].for \in Messages, Fails(w)
  PROVE  IInv'
<1> DEFINE j == AfterFailure(job[worker[w].for], worker[w].for)
<1>1. job[worker[w].for] \in JobRow /\ job[worker[w].for].tries <= Attempts[worker[w].for]
  BY DEF IInv, DeliveryTypeOK, JobRow
<1>2. /\ j \in JobRow /\ j.tries <= Attempts[worker[w].for]
      /\ j.state \in {"waiting", "dead"}
      /\ j.state = "waiting" => j.tries <= RetryLimit(worker[w].for)
  BY <1>1, FailureEnds
<1>3. Report(w, j) /\ UNCHANGED <<user, asked, out, crashes>>
  BY DEF Fails
<1> HIDE DEF j
<1> QED BY <1>2, <1>3, ReportStep

LEMMA EndStep == ASSUME IInv, NEW w \in Workers, End(w) PROVE IInv'
<1> DEFINE j == [job[worker[w].for] EXCEPT !.state = "done"]
<1>1. worker[w].for \in Messages /\ worker[w].pc = "end"
  BY DEF End, IInv, HandlersFit
<1>2. job[worker[w].for] \in JobRow /\ job[worker[w].for].tries <= Attempts[worker[w].for]
  BY <1>1 DEF IInv, DeliveryTypeOK, JobRow
<1>3. j \in JobRow /\ j.tries <= Attempts[worker[w].for] /\ j.state = "done"
  BY <1>2 DEF JobRow, JobState
<1>4. Report(w, j) /\ UNCHANGED <<user, asked, out, crashes>>
  BY DEF End
<1> HIDE DEF j
<1> QED BY <1>1, <1>3, <1>4, ReportStep

-----------------------------------------------------------------------------
(* A handler goes on. *)

LEMMA HandlerMoves ==
  ASSUME OneHandlerPerJob, NEW w \in Workers, UNCHANGED job,
         worker'[w].for = worker[w].for, worker'[w].mine = worker[w].mine,
         \A v \in Workers : v # w => worker'[v] = worker[v]
  PROVE  OneHandlerPerJob'
<1>1. \A v \in Workers : worker'[v].for = worker[v].for /\ worker'[v].mine = worker[v].mine
  OBVIOUS
<1> QED BY <1>1 DEF OneHandlerPerJob

(* A new value of a handler's pc and fresh is a handler of the same job. *)
LEMMA Moved ==
  ASSUME NEW h \in Handler, NEW pc \in Pc, NEW f \in BOOLEAN
  PROVE  /\ [h EXCEPT !.pc = pc] \in Handler
         /\ [h EXCEPT !.pc = pc, !.fresh = f] \in Handler
BY DEF Handler

LEMMA CreateStep == ASSUME IInv, NEW w \in Workers, Create(w) PROVE IInv'
<1>k. PICK k \in Notes : worker[w].for = k
  BY DEF Create, IInv, HandlersFit
<1> DEFINE h == [worker[w] EXCEPT !.pc = "load", !.fresh = ~Stored(k)]
<1>1. k \in Messages /\ worker[w] \in Handler
  BY Kinds DEF IInv, DeliveryTypeOK
<1>2. /\ h \in Handler /\ h.pc = "load" /\ h.for = k
      /\ h.fresh = ~Stored(k) /\ h.mine = worker[w].mine
  <2>1. Stored(k) \in BOOLEAN /\ "load" \in Pc
    BY DEF Stored, Pc
  <2>2. h \in Handler
    BY <1>1, <2>1, Moved
  <2> QED BY <1>1, <1>k, <2>1, <2>2 DEF Handler
<1>3. worker' = [worker EXCEPT ![w] = h]
  BY <1>k DEF Create
<1> HIDE DEF h
<1>4. /\ worker' \in [Workers -> Handler] /\ worker'[w] = h
      /\ \A v \in Workers : v # w => worker'[v] = worker[v]
  BY <1>2, <1>3, HandlerReplaced DEF IInv, DeliveryTypeOK
<1>5. /\ row' \in [Notes -> {"none", "unread", "read", "deleted"}]
      /\ Stored(k)' /\ \A i \in Notes : i # k => row'[i] = row[i]
      /\ \A i \in Notes : row[i] # "none" => row'[i] # "none"
  BY <1>k DEF Create, IInv, DeliveryTypeOK, Stored
<1>6. DeliveryTypeOK' /\ TriesLeft'
  BY <1>4, <1>5 DEF Create, IInv, DeliveryTypeOK, TriesLeft, RetryLimit, out
<1>7. HandlersFit' /\ OneHandlerPerJob'
  BY <1>k, <1>1, <1>2, <1>4, OtherHandlersFit, HandlerMoves DEF Create, IInv
<1>8. TraceLeft'
  BY <1>k, <1>1, <1>2, <1>4, <1>5, Kinds DEF Create, IInv, TraceLeft, Stored, out
<1>9. EndedWithoutTraceIsDead'
  BY <1>5 DEF Create, IInv, EndedWithoutTraceIsDead, out
<1>10. RowsPayForEvents'
  <2>1. ASSUME NEW i \in Notes, i # k PROVE Due(i)' \in SUBSET Due(i)
    BY <1>2, <1>4, <2>1 DEF Due
  <2>2. ASSUME NEW i \in Notes, i # k PROVE Paid(i)'
    BY <1>5, <2>1, <2>2, PaidStays DEF Create, IInv, RowsPayForEvents, Stored, out
  <2>3. ASSUME Stored(k) PROVE Paid(k)'
    <3>1. Due(k)' \in SUBSET Due(k)
      BY <1>2, <1>4, <2>3 DEF Due
    <3> QED
      BY <1>5, <3>1, PaidStays DEF Create, IInv, RowsPayForEvents, out
  <2>4. ASSUME ~Stored(k) PROVE Paid(k)'
    <3>1. Due(k)' = Due(k) \cup {w} /\ w \notin Due(k)
      BY <1>2, <1>4, <2>4 DEF Due, Create
    <3>2. Cardinality(Due(k)') = Cardinality(Due(k)) + 1 /\ Cardinality(Due(k)) \in Nat
      BY <3>1, DueIsFinite, FS_AddElement
    <3>3. emitted[k] \in Nat /\ deletes[k] \in Nat /\ Paid(k)
      BY DEF IInv, DeliveryTypeOK, RowsPayForEvents
    <3> QED
      BY <1>5, <2>4, <3>2, <3>3 DEF Create, Paid, out
  <2> QED BY <2>2, <2>3, <2>4 DEF RowsPayForEvents
<1> QED BY <1>6, <1>7, <1>8, <1>9, <1>10 DEF IInv

(* The row is there: an event that was due is sent. *)
LEMMA LoadStep == ASSUME IInv, NEW w \in Workers, Load(w) PROVE IInv'
<1>1. PICK k \in Notes : worker[w].for = k
  BY DEF Load, IInv, HandlersFit
<1>2. CASE ~Stored(k)
  BY <1>1, <1>2, FailsStep, Kinds DEF Load
<1>3. CASE Stored(k)
  <2> DEFINE h == [worker[w] EXCEPT !.pc = "end"]
  <2>1. /\ h \in Handler /\ h.pc = "end" /\ h.for = k
        /\ h.fresh = worker[w].fresh /\ h.mine = worker[w].mine
    <3>1. worker[w] \in Handler /\ "end" \in Pc
      BY DEF IInv, DeliveryTypeOK, Pc
    <3> QED BY <1>1, <3>1, Moved DEF Handler
  <2>2. /\ worker' = [worker EXCEPT ![w] = h]
        /\ UNCHANGED <<job, asked, crashes, row, written, deletes, mailed>>
    BY <1>1, <1>3 DEF Load, Goto, user
  <2> HIDE DEF h
  <2>3. /\ worker' \in [Workers -> Handler] /\ worker'[w] = h
        /\ \A v \in Workers : v # w => worker'[v] = worker[v]
    BY <2>1, <2>2, HandlerReplaced DEF IInv, DeliveryTypeOK
  <2>4. /\ emitted' \in [Notes -> Nat]
        /\ emitted'[k] = IF worker[w].fresh THEN emitted[k] + 1 ELSE emitted[k]
        /\ \A i \in Notes : i # k => emitted'[i] = emitted[i]
    BY <1>1, <1>3 DEF Load, IInv, DeliveryTypeOK
  <2>5. DeliveryTypeOK' /\ TriesLeft'
    BY <2>2, <2>3, <2>4 DEF IInv, DeliveryTypeOK, TriesLeft, RetryLimit
  <2>6. HandlersFit' /\ OneHandlerPerJob'
    BY <1>1, <2>1, <2>2, <2>3, Kinds, OtherHandlersFit, HandlerMoves DEF IInv
  <2>7. TraceLeft'
    BY <1>1, <1>3, <2>1, <2>2, <2>3, Kinds DEF IInv, TraceLeft, Stored
  <2>8. EndedWithoutTraceIsDead'
    BY <2>2 DEF IInv, EndedWithoutTraceIsDead
  <2>9. ASSUME NEW i \in Notes, i # k PROVE Paid(i)'
    <3>1. Due(i)' \in SUBSET Due(i)
      BY <2>1, <2>3, <2>9 DEF Due
    <3> QED
      BY <2>2, <2>4, <2>9, <3>1, PaidStays DEF IInv, RowsPayForEvents, Stored
  <2>10. ASSUME ~worker[w].fresh PROVE Paid(k)'
    <3>1. Due(k)' \in SUBSET Due(k)
      BY <2>1, <2>3 DEF Due
    <3> QED
      BY <2>2, <2>4, <2>10, <3>1, PaidStays DEF IInv, RowsPayForEvents, Stored
  <2>11. ASSUME worker[w].fresh PROVE Paid(k)'
    <3>1. Due(k)' = Due(k) \ {w} /\ w \in Due(k)
      BY <1>1, <2>1, <2>3, <2>11 DEF Due, Load
    <3>2. Cardinality(Due(k)') = Cardinality(Due(k)) - 1 /\ Cardinality(Due(k)) \in Nat
      BY <3>1, DueIsFinite, FS_RemoveElement
    <3>3. emitted[k] \in Nat /\ deletes[k] \in Nat /\ Paid(k)
      BY DEF IInv, DeliveryTypeOK, RowsPayForEvents
    <3> QED
      BY <2>2, <2>4, <2>11, <3>2, <3>3 DEF Paid, Stored
  <2> QED BY <2>5, <2>6, <2>7, <2>8, <2>9, <2>10, <2>11 DEF IInv, RowsPayForEvents
<1> QED BY <1>2, <1>3

LEMMA MailStep == ASSUME IInv, NEW w \in Workers, Mail(w) PROVE IInv'
<1>1. PICK k \in Mails : worker[w].for = k
  BY DEF Mail, IInv, HandlersFit
<1> DEFINE h == [worker[w] EXCEPT !.pc = "end"]
<1>2. /\ h \in Handler /\ h.pc = "end" /\ h.for = k /\ h.mine = worker[w].mine
  <2>1. worker[w] \in Handler /\ "end" \in Pc
    BY DEF IInv, DeliveryTypeOK, Pc
  <2> QED BY <1>1, <2>1, Moved DEF Handler
<1>3. /\ worker' = [worker EXCEPT ![w] = h]
      /\ UNCHANGED <<job, asked, crashes, row, written, deletes, emitted>>
  BY DEF Mail, Goto, user
<1> HIDE DEF h
<1>4. /\ worker' \in [Workers -> Handler] /\ worker'[w] = h
      /\ \A v \in Workers : v # w => worker'[v] = worker[v]
  BY <1>2, <1>3, HandlerReplaced DEF IInv, DeliveryTypeOK
<1>5. /\ mailed' \in [Mails -> Nat] /\ mailed'[k] > 0
      /\ \A i \in Mails : mailed[i] > 0 => mailed'[i] > 0
  BY <1>1 DEF Mail, IInv, DeliveryTypeOK
<1>6. DeliveryTypeOK' /\ TriesLeft'
  BY <1>3, <1>4, <1>5 DEF IInv, DeliveryTypeOK, TriesLeft, RetryLimit
<1>7. HandlersFit' /\ OneHandlerPerJob'
  BY <1>1, <1>2, <1>3, <1>4, Kinds, OtherHandlersFit, HandlerMoves DEF IInv
<1>8. TraceLeft'
  <2>1. k \notin Notes
    BY Kinds
  <2> QED BY <1>2, <1>3, <1>4, <1>5, <2>1 DEF IInv, TraceLeft
<1>9. EndedWithoutTraceIsDead'
  BY <1>3, <1>5 DEF IInv, EndedWithoutTraceIsDead
<1>10. RowsPayForEvents'
  <2>1. ASSUME NEW i \in Notes PROVE Due(i)' \in SUBSET Due(i)
    BY <1>2, <1>4 DEF Due
  <2> QED BY <1>3, <2>1, PaidStays DEF IInv, RowsPayForEvents, Stored
<1> QED BY <1>6, <1>7, <1>8, <1>9, <1>10 DEF IInv

LEMMA FetchStep == ASSUME IInv, NEW w \in Workers, Fetch(w) PROVE IInv'
<1>1. PICK k \in Messages :
        /\ job[k].state = "waiting"
        /\ job' = [job EXCEPT ![k] = [state |-> "active", tries |-> @.tries + 1]]
        /\ worker' = [worker EXCEPT ![w] =
             [Idle EXCEPT !.pc = IF Note(k) THEN "create" ELSE "mail",
                          !.for = k, !.mine = TRUE]]
  BY DEF Fetch
<1> DEFINE h == [Idle EXCEPT !.pc = IF Note(k) THEN "create" ELSE "mail",
                             !.for = k, !.mine = TRUE]
           j == [state |-> "active", tries |-> job[k].tries + 1]
<1>2. /\ h \in Handler /\ h.pc \in {"create", "mail"} /\ h.for = k /\ h.mine = TRUE
      /\ h.pc = "create" => k \in Notes
      /\ h.pc = "mail" => k \in Mails
  <2>1. {"create", "mail"} \subseteq Pc /\ k \in Messages \cup {"none"}
    BY DEF Pc
  <2>2. Idle = [pc |-> "idle", for |-> "none", fresh |-> FALSE, mine |-> FALSE]
    BY DEF Idle
  <2>3. k \in Notes \/ k \in Mails
    BY Kinds
  <2>4. CASE Note(k)
    BY <2>1, <2>2, <2>4 DEF Handler, Note
  <2>5. CASE ~Note(k)
    BY <2>1, <2>2, <2>3, <2>5 DEF Handler, Note
  <2> QED BY <2>4, <2>5
<1>3. /\ j \in JobRow /\ j.tries <= Attempts[k] /\ j.state = "active"
  <2>1. job[k].tries \in Nat /\ job[k].tries <= Attempts[k] - 1
    BY <1>1, Kinds DEF IInv, DeliveryTypeOK, TriesLeft
  <2> QED BY <2>1, Kinds DEF JobRow, JobState
<1>4. job' = [job EXCEPT ![k] = j] /\ worker' = [worker EXCEPT ![w] = h]
  BY <1>1
<1> HIDE DEF h, j
<1>5. /\ worker' \in [Workers -> Handler] /\ worker'[w] = h
      /\ \A v \in Workers : v # w => worker'[v] = worker[v]
  BY <1>2, <1>4, HandlerReplaced DEF IInv, DeliveryTypeOK
<1>6. /\ job' \in [Messages -> JobRow] /\ job'[k] = j
      /\ \A i \in Messages : job'[i].tries <= Attempts[i]
      /\ TriesLeft'
      /\ \A i \in Messages : i # k => job'[i] = job[i]
  BY <1>3, <1>4, RowReplaced DEF IInv
<1>7. DeliveryTypeOK'
  BY <1>5, <1>6 DEF Fetch, IInv, DeliveryTypeOK, JobRow, user, out
<1>8. HandlersFit'
  BY <1>2, <1>5, OtherHandlersFit DEF IInv
<1>9. OneHandlerPerJob'
  <2>1. ASSUME NEW v \in Workers, v # w, worker'[v].mine
        PROVE  worker'[v].for # k /\ job'[worker'[v].for].state = "active"
    <3>1. worker'[v] = worker[v] /\ worker[v].for \in Messages
          /\ job[worker[v].for].state = "active"
      BY <1>5, <2>1 DEF IInv, HandlersFit, OneHandlerPerJob
    <3> QED BY <1>1, <1>6, <3>1
  <2>2. ASSUME NEW u \in Workers, NEW v \in Workers, worker'[u].mine, worker'[v].mine,
               worker'[u].for = worker'[v].for
        PROVE  u = v
    <3>1. CASE u # w /\ v # w
      BY <1>5, <2>2, <3>1 DEF IInv, OneHandlerPerJob
    <3>2. CASE u = w \/ v = w
      BY <1>2, <1>5, <2>1, <2>2, <3>2
    <3> QED BY <3>1, <3>2
  <2>3. job'[worker'[w].for].state = "active"
    BY <1>2, <1>3, <1>5, <1>6
  <2> QED BY <2>1, <2>2, <2>3 DEF OneHandlerPerJob
<1>10. TraceLeft'
  BY <1>2, <1>5 DEF Fetch, IInv, TraceLeft, user, out
<1>11. EndedWithoutTraceIsDead'
  BY <1>3, <1>6, Kinds DEF Fetch, IInv, EndedWithoutTraceIsDead, user, out
<1>12. RowsPayForEvents'
  <2>1. ASSUME NEW i \in Notes PROVE Due(i)' \in SUBSET Due(i)
    BY <1>2, <1>5 DEF Due
  <2> QED BY <2>1, PaidStays DEF Fetch, IInv, RowsPayForEvents, Stored, user, out
<1> QED BY <1>6, <1>7, <1>8, <1>9, <1>10, <1>11, <1>12 DEF IInv

-----------------------------------------------------------------------------
(* Handlers that do not report, and jobs nobody handles. *)

LEMMA CrashStep == ASSUME IInv, NEW w \in Workers, Crash(w) PROVE IInv'
<1>1. /\ worker' \in [Workers -> Handler] /\ worker'[w] = Idle
      /\ \A v \in Workers : v # w => worker'[v] = worker[v]
  BY HandlerReplaced, IdleIsHandler DEF IInv, DeliveryTypeOK, Crash
<1>2. crashes' \in 0..MaxCrashes
  BY DeliveryAssumption DEF DeliveryAssumption, Crash, IInv, DeliveryTypeOK
<1>3. DeliveryTypeOK' /\ TriesLeft'
  BY <1>1, <1>2 DEF Crash, IInv, DeliveryTypeOK, TriesLeft, RetryLimit, user, out
<1>4. HandlersFit' /\ OneHandlerPerJob'
  BY <1>1, IdleIsHandler, OtherHandlersFit, HandlerLeaves DEF Crash, IInv
<1>5. TraceLeft' /\ EndedWithoutTraceIsDead'
  BY <1>1, IdleIsHandler DEF Crash, IInv, TraceLeft, EndedWithoutTraceIsDead, user, out
<1>6. RowsPayForEvents'
  <2>1. ASSUME NEW i \in Notes PROVE Due(i)' \in SUBSET Due(i)
    BY <1>1, IdleIsHandler DEF Due
  <2> QED BY <2>1, PaidStays DEF Crash, IInv, RowsPayForEvents, Stored, user, out
<1> QED BY <1>3, <1>4, <1>5, <1>6 DEF IInv

LEMMA OutliveStep == ASSUME IInv, NEW w \in Workers, Outlive(w) PROVE IInv'
<1> DEFINE k == worker[w].for
           j == AfterFailure(job[k], k)
           h == [worker[w] EXCEPT !.mine = FALSE]
<1>1. k \in Messages
  BY DEF Outlive, IInv, HandlersFit
<1>2. /\ j \in JobRow /\ j.tries <= Attempts[k]
      /\ j.state \in {"waiting", "dead"}
      /\ j.state = "waiting" => j.tries <= RetryLimit(k)
  <2>1. job[k] \in JobRow /\ job[k].tries <= Attempts[k]
    BY <1>1 DEF IInv, DeliveryTypeOK, JobRow
  <2> QED BY <1>1, <2>1, FailureEnds
<1>3. /\ h \in Handler /\ h.pc = worker[w].pc /\ h.for = k
      /\ h.fresh = worker[w].fresh /\ h.mine = FALSE
  BY DEF IInv, DeliveryTypeOK, Handler
<1>4. worker' = [worker EXCEPT ![w] = h] /\ job' = [job EXCEPT ![k] = j]
  BY DEF Outlive
<1> HIDE DEF h, j
<1>5. /\ worker' \in [Workers -> Handler] /\ worker'[w] = h
      /\ \A v \in Workers : v # w => worker'[v] = worker[v]
  BY <1>3, <1>4, HandlerReplaced DEF IInv, DeliveryTypeOK
<1>6. /\ job' \in [Messages -> JobRow] /\ job'[k] = j
      /\ \A i \in Messages : job'[i].tries <= Attempts[i]
      /\ TriesLeft'
      /\ \A i \in Messages : i # k => job'[i] = job[i]
  BY <1>1, <1>2, <1>4, RowReplaced DEF IInv
<1>7. DeliveryTypeOK'
  <2>1. crashes' \in 0..MaxCrashes
    BY DeliveryAssumption DEF DeliveryAssumption, Outlive, IInv, DeliveryTypeOK
  <2> QED BY <1>5, <1>6, <2>1 DEF Outlive, IInv, DeliveryTypeOK, JobRow, user, out
<1>8. HandlersFit'
  BY <1>3, <1>5, OtherHandlersFit DEF IInv, HandlersFit
<1>9. OneHandlerPerJob'
  BY <1>3, <1>5, <1>6, HandlerLeaves DEF Outlive, IInv
<1>10. TraceLeft'
  BY <1>3, <1>5 DEF Outlive, IInv, TraceLeft, user, out
<1>11. EndedWithoutTraceIsDead'
  <2>1. \A i \in Messages : job'[i].state = "done" => job[i].state = "done"
    BY <1>2, <1>6
  <2> QED BY <2>1, Kinds DEF Outlive, IInv, EndedWithoutTraceIsDead, user, out
<1>12. RowsPayForEvents'
  <2>1. ASSUME NEW i \in Notes PROVE Due(i)' \in SUBSET Due(i)
    BY <1>3, <1>5 DEF Due
  <2> QED BY <2>1, PaidStays DEF Outlive, IInv, RowsPayForEvents, Stored, user, out
<1> QED BY <1>6, <1>7, <1>8, <1>9, <1>10, <1>11, <1>12 DEF IInv

(* The job of a message changes that no handler holds. *)
LEMMA UnheldJobStep ==
  ASSUME IInv, NEW k \in Messages, ~Held(k), NEW j \in JobRow,
         j.tries <= Attempts[k], j.state # "done",
         j.state = "waiting" => j.tries <= RetryLimit(k),
         job' = [job EXCEPT ![k] = j],
         UNCHANGED <<worker, user, asked, out, crashes>>
  PROVE  IInv'
<1>1. /\ job' \in [Messages -> JobRow] /\ job'[k] = j
      /\ \A i \in Messages : job'[i].tries <= Attempts[i]
      /\ TriesLeft'
      /\ \A i \in Messages : i # k => job'[i] = job[i]
  BY RowReplaced DEF IInv
<1>2. DeliveryTypeOK'
  BY <1>1 DEF IInv, DeliveryTypeOK, JobRow, user, out
<1>3. HandlersFit' /\ TraceLeft'
  BY DEF IInv, HandlersFit, TraceLeft, user, out
<1>4. OneHandlerPerJob'
  <2>1. ASSUME NEW w \in Workers, worker[w].mine
        PROVE  job'[worker[w].for].state = "active"
    <3>1. worker[w].for \in Messages /\ worker[w].for # k /\ job[worker[w].for].state = "active"
      BY <2>1 DEF IInv, HandlersFit, OneHandlerPerJob, Held
    <3> QED BY <1>1, <3>1
  <2> QED BY <2>1 DEF IInv, OneHandlerPerJob
<1>5. EndedWithoutTraceIsDead'
  BY <1>1, Kinds DEF IInv, EndedWithoutTraceIsDead, user, out
<1>6. RowsPayForEvents'
  BY DEF IInv, RowsPayForEvents, Paid, Due, Stored, user, out
<1> QED BY <1>1, <1>2, <1>3, <1>4, <1>5, <1>6 DEF IInv

LEMMA ExpireStep == ASSUME IInv, NEW k \in Messages, Expire(k) PROVE IInv'
<1> DEFINE j == AfterFailure(job[k], k)
<1>1. /\ j \in JobRow /\ j.tries <= Attempts[k] /\ j.state # "done"
      /\ j.state = "waiting" => j.tries <= RetryLimit(k)
  <2>1. job[k] \in JobRow /\ job[k].tries <= Attempts[k]
    BY DEF IInv, DeliveryTypeOK, JobRow
  <2> QED BY <2>1, FailureEnds
<1>2. job' = [job EXCEPT ![k] = j]
  BY DEF Expire
<1> HIDE DEF j
<1> QED BY <1>1, <1>2, UnheldJobStep DEF Expire

LEMMA PurgeStep == ASSUME IInv, NEW k \in Messages, Purge(k) PROVE IInv'
<1> DEFINE j == [state |-> "none", tries |-> 0]
<1>1. /\ j \in JobRow /\ j.tries <= Attempts[k] /\ j.state = "none"
  BY Kinds DEF JobRow, JobState
<1>2. ~Held(k)
  BY DEF Purge, Held, IInv, OneHandlerPerJob
<1>3. job' = [job EXCEPT ![k] = j]
  BY DEF Purge
<1> HIDE DEF j
<1> QED BY <1>1, <1>2, <1>3, UnheldJobStep DEF Purge

-----------------------------------------------------------------------------
(* The rows, by the hand of the administrator and of the user. *)

LEMMA RowStep ==
  ASSUME IInv, NEW k \in Notes, AdminWrite(k) \/ Read(k) \/ Delete(k)
  PROVE  IInv'
<1>1. /\ row' \in [Notes -> {"none", "unread", "read", "deleted"}]
      /\ \A i \in Notes : row[i] # "none" => row'[i] # "none"
      /\ deletes' \in [Notes -> Nat] /\ written' \in [Notes -> BOOLEAN]
  <2>1. CASE AdminWrite(k)
    BY <2>1 DEF AdminWrite, IInv, DeliveryTypeOK
  <2>2. CASE Read(k)
    BY <2>2 DEF Read, IInv, DeliveryTypeOK
  <2>3. CASE Delete(k)
    BY <2>3 DEF Delete, IInv, DeliveryTypeOK
  <2> QED BY <2>1, <2>2, <2>3
<1>2. UNCHANGED <<job, worker, asked, emitted, mailed, crashes>>
  BY DEF AdminWrite, Read, Delete, out
<1>3. DeliveryTypeOK' /\ HandlersFit' /\ TriesLeft' /\ OneHandlerPerJob'
  BY <1>1, <1>2 DEF IInv, DeliveryTypeOK, HandlersFit, TriesLeft, RetryLimit, OneHandlerPerJob
<1>4. TraceLeft' /\ EndedWithoutTraceIsDead'
  BY <1>1, <1>2 DEF IInv, TraceLeft, EndedWithoutTraceIsDead
<1>5. \A i \in Notes : Due(i)' = Due(i)
  BY <1>2 DEF Due
<1>6. ASSUME NEW i \in Notes, deletes'[i] = deletes[i], Stored(i) => Stored(i)'
      PROVE  Paid(i)'
  BY <1>2, <1>5, <1>6, PaidStays DEF IInv, RowsPayForEvents
<1>7. CASE AdminWrite(k) \/ Read(k)
  <2>1. deletes' = deletes /\ \A i \in Notes : Stored(i) => Stored(i)'
    BY <1>7 DEF AdminWrite, Read, Stored, IInv, DeliveryTypeOK
  <2> QED BY <1>3, <1>4, <1>6, <2>1 DEF IInv, RowsPayForEvents
<1>8. CASE Delete(k)
  <2>1. ASSUME NEW i \in Notes, i # k PROVE Paid(i)'
    <3>1. deletes'[i] = deletes[i] /\ row'[i] = row[i]
      BY <1>8, <2>1 DEF Delete, IInv, DeliveryTypeOK
    <3> QED BY <1>6, <3>1 DEF Stored
  <2>2. Paid(k)'
    <3>1. Stored(k) /\ ~Stored(k)' /\ deletes'[k] = deletes[k] + 1
      BY <1>8 DEF Delete, Stored, IInv, DeliveryTypeOK
    <3>2. Cardinality(Due(k)) \in Nat /\ Cardinality(Due(k)') = Cardinality(Due(k))
      BY <1>5, DueIsFinite
    <3>3. emitted[k] \in Nat /\ deletes[k] \in Nat /\ Paid(k)
      BY DEF IInv, DeliveryTypeOK, RowsPayForEvents
    <3> QED BY <1>2, <3>1, <3>2, <3>3 DEF Paid
  <2> QED BY <1>3, <1>4, <2>1, <2>2 DEF IInv, RowsPayForEvents
<1> QED BY <1>7, <1>8

-----------------------------------------------------------------------------
(* The theorems. *)

LEMMA InitIInv == Init => IInv
<1> SUFFICES ASSUME Init PROVE IInv
  OBVIOUS
<1>1. DeliveryTypeOK
  <2>1. \A k \in Messages : asked[k] <= MaxAsks[k] /\ job[k].tries <= Attempts[k]
    BY Kinds DEF Init
  <2>2. job \in [Messages -> [state : JobState, tries : Nat]]
    BY DEF Init, JobState
  <2>3. worker \in [Workers -> Handler]
    BY IdleIsHandler DEF Init
  <2>4. crashes \in 0..MaxCrashes
    BY DeliveryAssumption DEF DeliveryAssumption, Init
  <2> QED BY <2>1, <2>2, <2>3, <2>4 DEF Init, DeliveryTypeOK
<1>2. HandlersFit /\ TriesLeft /\ OneHandlerPerJob /\ TraceLeft
  BY IdleIsHandler DEF Init, HandlersFit, TriesLeft, OneHandlerPerJob, TraceLeft
<1>3. EndedWithoutTraceIsDead
  BY Kinds DEF Init, EndedWithoutTraceIsDead
<1>4. RowsPayForEvents
  <2>1. ASSUME NEW k \in Notes PROVE Due(k) = {}
    BY IdleIsHandler DEF Init, Due
  <2>2. ASSUME NEW k \in Notes PROVE emitted[k] = 0 /\ deletes[k] = 0 /\ ~Stored(k)
    BY DEF Init, Stored
  <2> QED BY <2>1, <2>2, FS_EmptySet DEF RowsPayForEvents, Paid
<1> QED BY <1>1, <1>2, <1>3, <1>4 DEF IInv

LEMMA NextIInv == IInv /\ [Next]_vars => IInv'
<1> SUFFICES ASSUME IInv, [Next]_vars PROVE IInv'
  OBVIOUS
<1>1. ASSUME NEW k \in Messages, Ask(k) PROVE IInv'
  BY <1>1, EnqueueStep DEF Ask, user, IInv, DeliveryTypeOK
<1>2. ASSUME NEW k \in Notes, AdminAsk(k) PROVE IInv'
  BY <1>2, EnqueueStep, Kinds DEF AdminAsk, IInv, DeliveryTypeOK
<1>3. ASSUME NEW w \in Workers, Throw(w) PROVE IInv'
  <2>1. worker[w].for \in Messages
    BY <1>3, Kinds DEF Throw, IInv, HandlersFit
  <2> QED BY <1>3, <2>1, FailsStep DEF Throw
<1>4. CASE UNCHANGED vars
  BY <1>4 DEF vars, IInv, DeliveryTypeOK, HandlersFit, TriesLeft, RetryLimit, OneHandlerPerJob,
     TraceLeft, EndedWithoutTraceIsDead, RowsPayForEvents, Paid, Due, Stored
<1>5. CASE Next
  BY <1>1, <1>2, <1>3, <1>5, FetchStep, CreateStep, LoadStep, MailStep, EndStep, CrashStep,
     OutliveStep, ExpireStep, PurgeStep, RowStep
  DEF Next, Handle
<1> QED BY <1>4, <1>5

LEMMA DeliveryInvariance == Spec => []IInv
BY InitIInv, NextIInv, PTL DEF Spec

(* The variables keep their types, and no job runs more often than its       *)
(* attempts, however often it fails, expires or loses its process.           *)
THEOREM DeliveryTypeCorrect == Spec => []DeliveryTypeOK
<1>1. IInv => DeliveryTypeOK
  BY DEF IInv
<1> QED BY <1>1, DeliveryInvariance, PTL

(* Whatever runs beside what, one handler at most counts for a job.          *)
THEOREM JobsHaveOneHandler == Spec => []OneHandlerPerJob
<1>1. IInv => OneHandlerPerJob
  BY DEF IInv
<1> QED BY <1>1, DeliveryInvariance, PTL

(* A job is never done without its row or its mail.                          *)
THEOREM DoneLeavesTrace == Spec => []EndedWithoutTraceIsDead
<1>1. IInv => EndedWithoutTraceIsDead
  BY DEF IInv
<1> QED BY <1>1, DeliveryInvariance, PTL

(* However many handlers deliver a notification at once or again, its user's *)
(* sockets get one event per row that was stored at most.                    *)
THEOREM EventsArePaidFor == Spec => []EmittedOncePerRow
<1>1. IInv => EmittedOncePerRow
  <2> SUFFICES ASSUME IInv, NEW k \in Notes PROVE emitted[k] <= 1 + deletes[k]
    BY DEF EmittedOncePerRow
  <2>1. Cardinality(Due(k)) \in Nat
    BY DueIsFinite
  <2> QED BY <2>1 DEF IInv, DeliveryTypeOK, RowsPayForEvents, Paid
<1> QED BY <1>1, DeliveryInvariance, PTL

(* No delivery, repeated or late, makes a notification the user has read     *)
(* unread.                                                                   *)
THEOREM DeliveryKeepsRead == Spec => ReadStaysRead
<1>1. IInv /\ [Next]_vars =>
        [\A k \in Notes : row[k] = "read" => row'[k] \in {"read", "deleted"}]_vars
  <2> SUFFICES ASSUME IInv, Next, NEW k \in Notes, row[k] = "read"
               PROVE  row'[k] \in {"read", "deleted"}
    BY DEF vars
  <2>1. CASE row' = row
    BY <2>1
  <2>2. ASSUME NEW i \in Notes, AdminWrite(i) \/ Read(i) \/ Delete(i)
        PROVE  row'[k] \in {"read", "deleted"}
    BY <2>2 DEF AdminWrite, Read, Delete, IInv, DeliveryTypeOK
  <2>3. ASSUME NEW w \in Workers, Create(w)
        PROVE  row'[k] \in {"read", "deleted"}
    <3>1. worker[w].for \in Notes
      BY <2>3 DEF Create, IInv, HandlersFit
    <3> QED BY <2>3, <3>1 DEF Create, Stored, IInv, DeliveryTypeOK
  <2> QED
    BY <2>1, <2>2, <2>3 DEF Next, Ask, AdminAsk, Enqueue, Expire, Purge, Handle, Fetch, Load,
       Mail, End, Throw, Fails, Crash, Outlive, user
<1> QED BY <1>1, DeliveryInvariance, PTL DEF Spec, ReadStaysRead

-----------------------------------------------------------------------------
(* Push.                                                                     *)

(* A live subscription has a number.                                         *)
SubscribedAreNumbered == \A p \in subscribed : endpoint[p] > 0

(* A request that is about to insert a row has counted, and nothing was      *)
(* added since, unless the user's limit is known to be passed.               *)
InsertersHaveRoom ==
  \A s \in saving :
    s.pc = "insert" /\ s.user \notin exceeded => Cardinality(RowsOf(s.user)) < MaxPhones

(* The inductive invariant.                                                  *)
PushInv == /\ PushTypeOK /\ SubscribedAreNumbered /\ IsFiniteSet(owned)
           /\ InsertersHaveRoom /\ PhonesWithinLimit

-----------------------------------------------------------------------------
(* Of finitely many rows a user has finitely many.                           *)
LEMMA RowsAreFinite ==
  ASSUME NEW S, IsFiniteSet(S), NEW u
  PROVE  LET R == {r \in S : r.user = u} IN IsFiniteSet(R) /\ Cardinality(R) \in Nat
BY FS_Subset, FS_CardinalityType

(* Rows that go make room.                                                   *)
LEMMA FewerRows ==
  ASSUME NEW S, NEW T \in SUBSET S, IsFiniteSet(S), NEW u
  PROVE  Cardinality({r \in T : r.user = u}) <= Cardinality({r \in S : r.user = u})
<1>1. {r \in T : r.user = u} \subseteq {r \in S : r.user = u}
  OBVIOUS
<1> QED BY <1>1, RowsAreFinite, FS_Subset

(* A step that takes rows away, ends requests or lets a request count.       *)
LEMMA RowsOnlyGo ==
  ASSUME PushInv, owned' \subseteq owned, exceeded' = exceeded,
         \A s \in saving' : s.pc = "insert" =>
            s \in saving \/ Cardinality(RowsOf(s.user)) < MaxPhones
  PROVE  IsFiniteSet(owned)' /\ InsertersHaveRoom' /\ PhonesWithinLimit'
<1>1. IsFiniteSet(owned) /\ IsFiniteSet(owned')
  BY FS_Subset DEF PushInv
<1>2. \A u : Cardinality({r \in owned' : r.user = u}) <= Cardinality({r \in owned : r.user = u})
  BY <1>1, FewerRows
<1>3. \A u : /\ Cardinality({r \in owned' : r.user = u}) \in Nat
             /\ Cardinality({r \in owned : r.user = u}) \in Nat
  BY <1>1, RowsAreFinite
<1>4. InsertersHaveRoom'
  <2> SUFFICES ASSUME NEW s \in saving', s.pc = "insert", s.user \notin exceeded
               PROVE  Cardinality({r \in owned' : r.user = s.user}) < MaxPhones
    BY DEF InsertersHaveRoom, RowsOf
  <2>1. Cardinality({r \in owned : r.user = s.user}) < MaxPhones
    BY DEF PushInv, InsertersHaveRoom, RowsOf
  <2> DEFINE a == Cardinality({r \in owned' : r.user = s.user})
             b == Cardinality({r \in owned : r.user = s.user})
  <2>2. a <= b /\ a \in Nat /\ b \in Nat /\ b < MaxPhones
    BY <1>2, <1>3, <2>1
  <2> HIDE DEF a, b
  <2>3. a < MaxPhones
    BY <2>2, PushAssumption
  <2> QED BY <2>3 DEF a
<1>5. PhonesWithinLimit'
  <2>1. ASSUME NEW u \in Members \ exceeded
        PROVE  Cardinality({r \in owned' : r.user = u}) <= MaxPhones
    <3>1. Cardinality({r \in owned : r.user = u}) <= MaxPhones
      BY DEF PushInv, PhonesWithinLimit, RowsOf
    <3> DEFINE a == Cardinality({r \in owned' : r.user = u})
               b == Cardinality({r \in owned : r.user = u})
    <3>2. a <= b /\ a \in Nat /\ b \in Nat /\ b <= MaxPhones
      BY <1>2, <1>3, <3>1
    <3> HIDE DEF a, b
    <3>3. a <= MaxPhones
      BY <3>2, PushAssumption
    <3> QED BY <3>3 DEF a
  <2>2. \A r, o \in owned' : r.phone = o.phone /\ r.number = o.number => r = o
    BY DEF PushInv, PhonesWithinLimit
  <2> QED BY <2>1, <2>2 DEF PhonesWithinLimit, RowsOf
<1> QED BY <1>1, <1>4, <1>5

(* The upsert: what it adds was counted, or replaces the endpoint's row.     *)
LEMMA UpsertKeepsLimit ==
  ASSUME PushInv, NEW s \in saving, SaveUpserts(s)
  PROVE  IsFiniteSet(owned)' /\ InsertersHaveRoom' /\ PhonesWithinLimit'
<1> DEFINE rest == owned \ RowsAt(s)
           mine == RowOf(s)
           of(S, u) == {r \in S : r.user = u}
<1>0. s \in Saving /\ owned \subseteq OwnedRow
  BY DEF PushInv, PushTypeOK
<1>1. mine.user = s.user /\ mine.phone = s.phone /\ mine.number = s.number
  BY DEF RowOf
<1>2. owned' = rest \cup {mine}
  BY DEF SaveUpserts
<1>3. IsFiniteSet(owned) /\ IsFiniteSet(rest) /\ IsFiniteSet(owned')
  BY <1>2, FS_Subset, FS_AddElement DEF PushInv
<1>4. \A u : u # s.user => of(owned', u) = of(rest, u)
  <2> HIDE DEF rest, mine
  <2> QED BY <1>1, <1>2
<1>5. \A u : Cardinality(of(rest, u)) <= Cardinality(of(owned, u))
  BY <1>3, FewerRows
<1>6. \A u : /\ Cardinality(of(owned', u)) \in Nat /\ Cardinality(of(owned, u)) \in Nat
             /\ Cardinality(of(rest, u)) \in Nat
  BY <1>3, RowsAreFinite
<1>7. exceeded \subseteq exceeded'
  BY DEF SaveUpserts
<1>8. ASSUME s.user \notin exceeded'
      PROVE  /\ \A t \in saving \ {s} : t.user = s.user => t.pc = "find"
             /\ \A r \in RowsAt(s) : r.user = s.user
             /\ s.pc = "insert" \/ RowsAt(s) # {}
  <2>1. s.pc \in {"insert", "move"}
    BY <1>0 DEF SaveUpserts, Saving
  <2> QED BY <1>8, <2>1 DEF SaveUpserts
<1>9. ASSUME s.user \notin exceeded' PROVE Cardinality(of(owned', s.user)) <= MaxPhones
  <2>1. Cardinality(of(owned, s.user)) <= MaxPhones
    BY <1>0, <1>7, <1>9 DEF PushInv, PhonesWithinLimit, RowsOf, Saving
  <2>2. CASE RowsAt(s) = {}
    <3>1. Cardinality(of(owned, s.user)) < MaxPhones
      BY <1>7, <1>8, <1>9, <2>2 DEF PushInv, InsertersHaveRoom, RowsOf
    <3>2. rest = owned
      BY <2>2
    <3> HIDE DEF rest, mine
    <3>3. of(owned', s.user) = of(owned, s.user) \cup {mine}
      BY <1>1, <1>2, <3>2
    <3>4. Cardinality(of(owned', s.user)) <= Cardinality(of(owned, s.user)) + 1
      <4>1. IsFiniteSet(of(owned, s.user))
        BY <1>3, FS_Subset
      <4> DEFINE old == of(owned, s.user)
      <4>2. Cardinality(old) \in Nat /\ of(owned', s.user) = old \cup {mine}
        BY <1>6, <3>3
      <4>3. Cardinality(old \cup {mine}) = IF mine \in old THEN Cardinality(old) ELSE Cardinality(old) + 1
        BY <4>1, FS_AddElement
      <4> HIDE DEF old
      <4>4. Cardinality(old \cup {mine}) <= Cardinality(old) + 1
        BY <4>2, <4>3
      <4> QED BY <4>2, <4>4 DEF old
    <3> DEFINE a == Cardinality(of(owned', s.user))
               b == Cardinality(of(owned, s.user))
    <3>5. a <= b + 1 /\ a \in Nat /\ b \in Nat /\ b < MaxPhones
      BY <1>6, <3>1, <3>4
    <3> HIDE DEF a, b
    <3>6. a <= MaxPhones
      BY <3>5, PushAssumption
    <3> QED BY <3>6 DEF a
  <2>3. CASE RowsAt(s) # {}
    <3>1. PICK r \in RowsAt(s) : TRUE
      BY <2>3
    <3>2. r.user = s.user /\ r.phone = s.phone /\ r.number = s.number /\ r \in owned
      BY <1>8, <1>9 DEF RowsAt
    <3>3. r = mine
      BY <1>0, <3>2 DEF RowOf, OwnedRow
    <3>4. \A o \in RowsAt(s) : o = r
      BY <3>2 DEF RowsAt, PushInv, PhonesWithinLimit
    <3>5. owned' = owned
      BY <1>2, <3>2, <3>3, <3>4
    <3> QED BY <2>1, <3>5
  <2> QED BY <2>2, <2>3
<1>10. PhonesWithinLimit'
  <2>1. ASSUME NEW u \in Members \ exceeded' PROVE Cardinality(of(owned', u)) <= MaxPhones
    <3>1. CASE u = s.user
      BY <1>9, <3>1
    <3>2. CASE u # s.user
      <4>1. Cardinality(of(owned, u)) <= MaxPhones
        BY <1>7 DEF PushInv, PhonesWithinLimit, RowsOf
      <4>2. Cardinality(of(owned', u)) = Cardinality(of(rest, u))
        BY <1>4, <3>2
      <4> DEFINE a == Cardinality(of(owned', u))
                 b == Cardinality(of(owned, u))
      <4>3. a <= b /\ a \in Nat /\ b \in Nat /\ b <= MaxPhones
        BY <1>5, <1>6, <4>1, <4>2
      <4> HIDE DEF a, b
      <4>4. a <= MaxPhones
        BY <4>3, PushAssumption
      <4> QED BY <4>4 DEF a
    <3> QED BY <3>1, <3>2
  <2>2. \A r, o \in owned' : r.phone = o.phone /\ r.number = o.number => r = o
    BY <1>1, <1>2 DEF RowsAt, PushInv, PhonesWithinLimit
  <2> QED BY <2>1, <2>2 DEF PhonesWithinLimit, RowsOf
<1>11. InsertersHaveRoom'
  <2> SUFFICES ASSUME NEW t \in saving', t.pc = "insert", t.user \notin exceeded'
               PROVE  Cardinality(of(owned', t.user)) < MaxPhones
    BY DEF InsertersHaveRoom, RowsOf
  <2>1. t \in saving \ {s}
    BY DEF SaveUpserts
  <2>2. t.user # s.user
    BY <1>8, <2>1
  <2>3. Cardinality(of(owned, t.user)) < MaxPhones
    BY <1>7, <2>1 DEF PushInv, InsertersHaveRoom, RowsOf
  <2>4. Cardinality(of(owned', t.user)) = Cardinality(of(rest, t.user))
    BY <1>4, <2>2
  <2> DEFINE a == Cardinality(of(owned', t.user))
             b == Cardinality(of(owned, t.user))
  <2>5. a <= b /\ a \in Nat /\ b \in Nat /\ b < MaxPhones
    BY <1>5, <1>6, <2>3, <2>4
  <2> HIDE DEF a, b
  <2>6. a < MaxPhones
    BY <2>5, PushAssumption
  <2> QED BY <2>6 DEF a
<1> QED BY <1>3, <1>10, <1>11

-----------------------------------------------------------------------------
(* Every step keeps the types.                                               *)
LEMMA PushTypeStep ==
  PushTypeOK /\ SubscribedAreNumbered /\ [PushNext]_pushVars =>
    PushTypeOK' /\ SubscribedAreNumbered'
<1> SUFFICES ASSUME PushTypeOK, SubscribedAreNumbered, [PushNext]_pushVars
             PROVE  PushTypeOK' /\ SubscribedAreNumbered'
  OBVIOUS
<1> USE PushAssumption DEF PushTypeOK, SubscribedAreNumbered
<1>1. ASSUME NEW p \in Phones, Grant(p) \/ Withdraw(p) \/ EnableKnown(p)
      PROVE  PushTypeOK' /\ SubscribedAreNumbered'
  BY <1>1 DEF Grant, Withdraw, EnableKnown
<1>2. ASSUME NEW p \in Phones, NEW u \in Members, SubscribeAndAsk(p, u)
      PROVE  PushTypeOK' /\ SubscribedAreNumbered'
  <2>1. endpoint[p] + 1 \in 1..MaxSubscribes
    BY <1>2 DEF SubscribeAndAsk
  <2>2. saving' \subseteq Saving
    BY <1>2, <2>1 DEF SubscribeAndAsk, AskFor, Saving
  <2> QED BY <1>2, <2>1, <2>2 DEF SubscribeAndAsk
<1>3. ASSUME NEW p \in Phones, NEW u \in Members, EnableAgain(p, u)
      PROVE  PushTypeOK' /\ SubscribedAreNumbered'
  <2>1. endpoint[p] \in 1..MaxSubscribes
    BY <1>3 DEF EnableAgain
  <2>2. saving' \subseteq Saving
    BY <1>3, <2>1 DEF EnableAgain, AskFor, Saving
  <2> QED BY <1>3, <2>2 DEF EnableAgain
<1>4. ASSUME NEW s \in saving, SaveFinds(s) PROVE PushTypeOK' /\ SubscribedAreNumbered'
  <2>1. s \in Saving
    OBVIOUS
  <2>2. [s EXCEPT !.pc = "move"] \in Saving /\ [s EXCEPT !.pc = "insert"] \in Saving
    BY <2>1 DEF Saving
  <2>3. saving' \subseteq Saving
    BY <1>4, <2>2 DEF SaveFinds
  <2> QED BY <1>4, <2>3 DEF SaveFinds
<1>5. ASSUME NEW s \in saving, SaveUpserts(s) PROVE PushTypeOK' /\ SubscribedAreNumbered'
  <2>1. s \in Saving
    OBVIOUS
  <2>2. RowOf(s) \in OwnedRow /\ s.phone \in Phones /\ s.user \in Members
    BY <2>1 DEF RowOf, OwnedRow, Saving
  <2>3. owned' \subseteq OwnedRow
    BY <1>5, <2>2 DEF SaveUpserts
  <2> QED BY <1>5, <2>2, <2>3 DEF SaveUpserts
<1>6. ASSUME NEW s \in saving, SaveFails(s) PROVE PushTypeOK' /\ SubscribedAreNumbered'
  BY <1>6 DEF SaveFails
<1>7. ASSUME NEW u \in Members, Deliver(u) PROVE PushTypeOK' /\ SubscribedAreNumbered'
  BY <1>7 DEF Deliver
<1>8. CASE UNCHANGED pushVars
  BY <1>8 DEF pushVars
<1> QED BY <1>1, <1>2, <1>3, <1>4, <1>5, <1>6, <1>7, <1>8 DEF PushNext

(* Every step keeps the invariant: a row is added only where there is room,  *)
(* or the limit is known to be passed.                                       *)
LEMMA PushStep == PushInv /\ [PushNext]_pushVars => PushInv'
<1> SUFFICES ASSUME PushInv, [PushNext]_pushVars
             PROVE  IsFiniteSet(owned)' /\ InsertersHaveRoom' /\ PhonesWithinLimit'
  BY PushTypeStep DEF PushInv
<1>1. ASSUME NEW p \in Phones, Grant(p) \/ Withdraw(p) \/ EnableKnown(p)
      PROVE  IsFiniteSet(owned)' /\ InsertersHaveRoom' /\ PhonesWithinLimit'
  BY <1>1, RowsOnlyGo DEF Grant, Withdraw, EnableKnown
<1>2. ASSUME NEW p \in Phones, NEW u \in Members, SubscribeAndAsk(p, u) \/ EnableAgain(p, u)
      PROVE  IsFiniteSet(owned)' /\ InsertersHaveRoom' /\ PhonesWithinLimit'
  <2>1. \A s \in saving' : s.pc = "insert" => s \in saving
    BY <1>2 DEF SubscribeAndAsk, EnableAgain, AskFor
  <2> QED BY <1>2, <2>1, RowsOnlyGo DEF SubscribeAndAsk, EnableAgain
<1>3. ASSUME NEW s \in saving, SaveFinds(s)
      PROVE  IsFiniteSet(owned)' /\ InsertersHaveRoom' /\ PhonesWithinLimit'
  <2>1. s \in Saving
    BY DEF PushInv, PushTypeOK
  <2>2. [s EXCEPT !.pc = "move"].pc = "move" /\ [s EXCEPT !.pc = "insert"].user = s.user
    BY <2>1 DEF Saving
  <2>3. \A t \in saving' : t.pc = "insert" =>
          t \in saving \/ Cardinality(RowsOf(t.user)) < MaxPhones
    BY <1>3, <2>2 DEF SaveFinds
  <2> QED BY <1>3, <2>3, RowsOnlyGo DEF SaveFinds
<1>4. ASSUME NEW s \in saving, SaveUpserts(s)
      PROVE  IsFiniteSet(owned)' /\ InsertersHaveRoom' /\ PhonesWithinLimit'
  BY <1>4, UpsertKeepsLimit
<1>5. ASSUME NEW s \in saving, SaveFails(s)
      PROVE  IsFiniteSet(owned)' /\ InsertersHaveRoom' /\ PhonesWithinLimit'
  BY <1>5, RowsOnlyGo DEF SaveFails
<1>6. ASSUME NEW u \in Members, Deliver(u)
      PROVE  IsFiniteSet(owned)' /\ InsertersHaveRoom' /\ PhonesWithinLimit'
  BY <1>6, RowsOnlyGo DEF Deliver
<1>7. CASE UNCHANGED pushVars
  BY <1>7, RowsOnlyGo DEF pushVars
<1> QED BY <1>1, <1>2, <1>3, <1>4, <1>5, <1>6, <1>7 DEF PushNext

(* The invariant holds always.                                               *)
LEMMA PushInvariance == PushSpec => []PushInv
<1>1. PushInit => PushInv
  <2> SUFFICES ASSUME PushInit PROVE PushInv
    OBVIOUS
  <2>1. \A u : RowsOf(u) = {}
    BY DEF PushInit, RowsOf
  <2>2. PhonesWithinLimit
    BY <2>1, FS_EmptySet, PushAssumption DEF PushInit, PhonesWithinLimit
  <2>3. PushTypeOK /\ SubscribedAreNumbered
    BY PushAssumption DEF PushInit, PushTypeOK, SubscribedAreNumbered
  <2> QED BY <2>2, <2>3, FS_EmptySet DEF PushInit, PushInv, InsertersHaveRoom
<1> QED BY <1>1, PushStep, PTL DEF PushSpec

(* Subscriptions, rows and requests keep their types                         *)
(* (notification-push.service.ts).                                           *)
THEOREM PushTypeCorrect == PushSpec => []PushTypeOK
<1>1. PushInv => PushTypeOK
  BY DEF PushInv
<1> QED BY <1>1, PushInvariance, PTL

(* However many browsers and users subscribe, a user has more than the       *)
(* allowed devices only if two requests counted together or an endpoint      *)
(* changed hands, and an endpoint has one owner                              *)
(* (notification-push.service.ts saveSubscription).                          *)
THEOREM PhonesAreBounded == PushSpec => []PhonesWithinLimit
<1>1. PushInv => PhonesWithinLimit
  BY DEF PushInv
<1> QED BY <1>1, PushInvariance, PTL

-----------------------------------------------------------------------------
(* Support.                                                                  *)

(* How often a text is stored.                                               *)
Copies(x) == Cardinality({m \in messages : m.text = x})

(* The fields of a request to write and of a request to read.                *)
SendShape(s) ==
  s = [number |-> s.number, who |-> s.who, kind |-> s.kind, ticket |-> s.ticket,
       text |-> s.text, time |-> s.time, pc |-> s.pc, here |-> s.here]

LoadShape(l) ==
  l = [who |-> l.who, slot |-> l.slot, where |-> l.where, filter |-> l.filter,
       then |-> l.then, here |-> l.here, got |-> l.got]

(* A request to write has a text that was typed, one to resolve has none.    *)
SendsAreRequests ==
  \A s \in sends :
    /\ SendShape(s) /\ s.who \in People /\ s.here \in BOOLEAN /\ s.text \in 0..typed
    /\ s.kind \in {"create", "add", "reply", "resolve"} /\ (s.kind = "resolve" <=> s.text = 0)
    /\ s.pc = "refused" => s.text # 0

(* Texts are numbered as they are typed, and the two people type different   *)
(* ones.                                                                     *)
FormsAreTyped ==
  /\ draft \in [People -> 0..MaxTexts] /\ typed \in 0..MaxTexts /\ failed \in [Texts -> Nat]
  /\ \A p \in People : draft[p] <= typed
  /\ draft["USER"] = draft["ADMIN"] => draft["USER"] = 0
  /\ IsFiniteSet(messages) /\ \A m \in messages : m.text \in 1..typed

(* A text that is still in a form is there with the one who sends it, whose  *)
(* page waits for the answer.                                                *)
SenderWaits ==
  \A s \in sends, p \in People : s.text # 0 /\ draft[p] = s.text => p = s.who /\ s.here

(* A text is in one request at most.                                         *)
OneSend == \A s, r \in sends : s.text # 0 /\ s.text = r.text => s = r

(* A text that may still be stored once more: not typed yet, in a request    *)
(* that has not stored it, or in a form with no request under way.           *)
MayBeStored(x) ==
  \/ x > typed
  \/ \E s \in sends : s.text = x /\ s.pc \in {"sent", "checked", "refused"}
  \/ (\E p \in People : draft[p] = x) /\ \A s \in sends : s.text # x

(* So far it has been stored for errors only.                                *)
StoredForErrors == \A x \in Texts : MayBeStored(x) => Copies(x) <= failed[x]

(* A text is stored at most once more than it failed.                        *)
AtMostOnceMore == \A x \in Texts : Copies(x) <= failed[x] + 1

(* The inductive invariant.                                                  *)
SupportInv == /\ FormsAreTyped /\ SendsAreRequests /\ SenderWaits /\ OneSend
              /\ StoredForErrors /\ AtMostOnceMore

-----------------------------------------------------------------------------
(* How often a text is stored is a number.                                   *)
LEMMA CopiesAreNumbers == ASSUME IsFiniteSet(messages), NEW x PROVE Copies(x) \in Nat
BY FS_Subset, FS_CardinalityType DEF Copies

(* A message more is one copy of its text more.                              *)
LEMMA OneCopyMore ==
  ASSUME IsFiniteSet(messages), NEW m, messages' = messages \cup {m}
  PROVE  /\ IsFiniteSet(messages')
         /\ Copies(m.text)' <= Copies(m.text) + 1
         /\ \A x : x # m.text => Copies(x)' = Copies(x)
<1>1. IsFiniteSet(messages')
  BY FS_AddElement
<1>2. \A x : x # m.text => Copies(x)' = Copies(x)
  <2> SUFFICES ASSUME NEW x, x # m.text
               PROVE  {k \in messages' : k.text = x} = {k \in messages : k.text = x}
    BY DEF Copies
  <2> QED OBVIOUS
<1>3. Copies(m.text)' <= Copies(m.text) + 1
  <2> DEFINE old == {k \in messages : k.text = m.text}
  <2>1. {k \in messages' : k.text = m.text} = old \cup {m}
    OBVIOUS
  <2>2. IsFiniteSet(old)
    BY FS_Subset
  <2>3. Cardinality(old) \in Nat
    BY <2>2, FS_CardinalityType
  <2>4. Cardinality(old \cup {m}) = IF m \in old THEN Cardinality(old) ELSE Cardinality(old) + 1
    BY <2>2, FS_AddElement
  <2> HIDE DEF old
  <2>5. Cardinality(old \cup {m}) <= Cardinality(old) + 1
    BY <2>3, <2>4
  <2> QED BY <2>1, <2>5 DEF Copies, old
<1> QED BY <1>1, <1>2, <1>3

(* A step of the server: one request goes on, and may store its text.        *)
LEMMA RequestGoesOn ==
  ASSUME SupportInv, NEW s \in sends, NEW t, sends' = (sends \ {s}) \cup {t},
         SendShape(t), t.who = s.who, t.kind = s.kind, t.text = s.text, t.here = s.here,
         t.pc \in {"sent", "checked", "refused"} => s.pc \in {"sent", "checked", "refused"},
         t.pc = "refused" => s.text # 0,
         UNCHANGED <<draft, typed, failed>>,
         \/ messages' = messages
         \/ /\ \E m : m.text = s.text /\ messages' = messages \cup {m}
            /\ s.text # 0 /\ s.pc \in {"sent", "checked"} /\ t.pc = "stored"
  PROVE  SupportInv'
<1>0. /\ draft \in [People -> 0..MaxTexts] /\ typed \in 0..MaxTexts /\ typed \in Nat
      /\ failed \in [Texts -> Nat] /\ IsFiniteSet(messages) /\ s.text \in 0..typed
      /\ \A x \in Texts : x \in Nat /\ failed[x] \in Nat
  BY SupportAssumption DEF SupportInv, FormsAreTyped, SendsAreRequests, Texts
<1>1. IsFiniteSet(messages') /\ \A x : Copies(x) \in Nat /\ Copies(x)' \in Nat
  <2>1. IsFiniteSet(messages')
    BY <1>0, OneCopyMore
  <2>2. \A x : Copies(x) \in Nat
    BY <1>0, CopiesAreNumbers
  <2>3. \A x : Copies(x)' \in Nat
    BY <2>1, FS_Subset, FS_CardinalityType DEF Copies
  <2> QED BY <2>1, <2>2, <2>3
<1>2. \A x : /\ x # s.text => Copies(x)' = Copies(x)
             /\ messages' = messages => Copies(x)' = Copies(x)
  BY <1>0, OneCopyMore DEF Copies
<1>3. Copies(s.text)' <= Copies(s.text) + 1
  <2>1. CASE messages' = messages
    <3>1. Copies(s.text)' = Copies(s.text)
      BY <2>1 DEF Copies
    <3> QED BY <1>1, <3>1
  <2>2. CASE \E m : m.text = s.text /\ messages' = messages \cup {m}
    BY <1>0, <2>2, OneCopyMore
  <2> QED BY <2>1, <2>2
<1>4. FormsAreTyped'
  <2>1. \A m \in messages' : m.text \in 1..typed
    BY <1>0 DEF SupportInv, FormsAreTyped
  <2> QED BY <1>1, <2>1 DEF SupportInv, FormsAreTyped
<1>5. SendsAreRequests'
  BY DEF SupportInv, SendsAreRequests
<1>6. SenderWaits'
  BY DEF SupportInv, SenderWaits
<1>7. OneSend'
  BY DEF SupportInv, OneSend
<1>8. \A x \in Texts : MayBeStored(x)' => MayBeStored(x) /\ ~(x = s.text /\ t.pc = "stored")
  <2> SUFFICES ASSUME NEW x \in Texts, MayBeStored(x)'
               PROVE  MayBeStored(x) /\ ~(x = s.text /\ t.pc = "stored")
    OBVIOUS
  <2>0. s.text # 0 => \A r \in sends : r.text = s.text => r = s
    BY DEF SupportInv, OneSend
  <2>1. CASE x > typed
    BY <1>0, <2>1 DEF MayBeStored
  <2>2. CASE \E r \in sends' : r.text = x /\ r.pc \in {"sent", "checked", "refused"}
    <3>1. x # 0
      BY DEF Texts
    <3> QED BY <2>0, <2>2, <3>1 DEF MayBeStored
  <2>3. CASE (\E p \in People : draft[p] = x) /\ \A r \in sends' : r.text # x
    BY <2>3 DEF MayBeStored
  <2> QED BY <2>1, <2>2, <2>3 DEF MayBeStored
<1>9. StoredForErrors'
  <2> SUFFICES ASSUME NEW x \in Texts, MayBeStored(x)' PROVE Copies(x)' <= failed[x]
    BY DEF StoredForErrors
  <2>1. Copies(x) <= failed[x]
    BY <1>8 DEF SupportInv, StoredForErrors
  <2>2. Copies(x)' = Copies(x)
    BY <1>2, <1>8
  <2> QED BY <2>1, <2>2
<1>10. AtMostOnceMore'
  <2> SUFFICES ASSUME NEW x \in Texts PROVE Copies(x)' <= failed[x] + 1
    BY DEF AtMostOnceMore
  <2>1. CASE messages' = messages \/ x # s.text
    BY <1>2, <2>1 DEF SupportInv, AtMostOnceMore
  <2>2. CASE messages' # messages /\ x = s.text
    <3>1. MayBeStored(x)
      BY <2>2 DEF MayBeStored
    <3>2. Copies(x) <= failed[x]
      BY <3>1 DEF SupportInv, StoredForErrors
    <3> QED BY <1>0, <1>1, <1>3, <2>2, <3>2
  <2> QED BY <2>1, <2>2
<1> QED BY <1>4, <1>5, <1>6, <1>7, <1>9, <1>10 DEF SupportInv

(* A page is left: its form is empty, and nobody waits there any more.       *)
LEMMA PageIsLeft ==
  ASSUME SupportInv, NEW p \in People, draft' = [draft EXCEPT ![p] = 0],
         sends' = {IF s.who = p THEN [s EXCEPT !.here = FALSE] ELSE s : s \in sends},
         UNCHANGED <<messages, typed, failed>>
  PROVE  SupportInv'
<1> DEFINE left(s) == IF s.who = p THEN [s EXCEPT !.here = FALSE] ELSE s
<1>1. \A s \in sends :
        /\ SendShape(left(s)) /\ left(s).who = s.who /\ left(s).kind = s.kind
        /\ left(s).text = s.text /\ left(s).pc = s.pc
        /\ left(s).here \in BOOLEAN /\ (s.who # p => left(s) = s)
  <2> SUFFICES ASSUME NEW s \in sends
               PROVE  /\ SendShape(left(s)) /\ left(s).who = s.who /\ left(s).kind = s.kind
                      /\ left(s).text = s.text /\ left(s).pc = s.pc
                      /\ left(s).here \in BOOLEAN /\ (s.who # p => left(s) = s)
    OBVIOUS
  <2>1. SendShape(s) /\ s.here \in BOOLEAN
    BY DEF SupportInv, SendsAreRequests
  <2>2. CASE s.who # p
    BY <2>1, <2>2
  <2>3. CASE s.who = p
    BY <2>1, <2>3 DEF SendShape
  <2> QED BY <2>2, <2>3
<1>2. sends' = {left(s) : s \in sends}
  OBVIOUS
<1> HIDE DEF left
<1>3. \A t \in sends' : \E s \in sends : t = left(s)
  BY <1>2
<1>4. /\ draft \in [People -> 0..MaxTexts] /\ typed \in Nat
      /\ \A q \in People : draft'[q] = IF q = p THEN 0 ELSE draft[q]
  BY DEF SupportInv, FormsAreTyped
<1>5. FormsAreTyped'
  <2>0. MaxTexts \in Nat
    BY SupportAssumption
  <2>1. draft' \in [People -> 0..MaxTexts]
    BY <1>4, <2>0
  <2>2. \A q \in People : draft'[q] <= typed
    BY <1>4 DEF SupportInv, FormsAreTyped
  <2>3. draft'["USER"] = draft'["ADMIN"] => draft'["USER"] = 0
    BY <1>4 DEF SupportInv, FormsAreTyped, People
  <2> QED BY <2>1, <2>2, <2>3 DEF SupportInv, FormsAreTyped
<1>6. SendsAreRequests'
  BY <1>1, <1>3 DEF SupportInv, SendsAreRequests
<1>7. SenderWaits'
  BY <1>1, <1>3, <1>4 DEF SupportInv, SenderWaits
<1>8. OneSend'
  BY <1>1, <1>3 DEF SupportInv, OneSend
<1>9. \A x \in Texts : MayBeStored(x)' => MayBeStored(x)
  <2> SUFFICES ASSUME NEW x \in Texts, MayBeStored(x)' PROVE MayBeStored(x)
    OBVIOUS
  <2>1. CASE x > typed
    BY <2>1 DEF MayBeStored
  <2>2. CASE \E t \in sends' : t.text = x /\ t.pc \in {"sent", "checked", "refused"}
    BY <1>1, <1>3, <2>2 DEF MayBeStored
  <2>3. CASE (\E q \in People : draft'[q] = x) /\ \A t \in sends' : t.text # x
    <3>1. x # 0
      BY DEF Texts
    <3>2. \A s \in sends : s.text # x
      BY <1>1, <1>2, <2>3
    <3> QED BY <1>4, <2>3, <3>1, <3>2 DEF MayBeStored
  <2> QED BY <2>1, <2>2, <2>3 DEF MayBeStored
<1>10. StoredForErrors' /\ AtMostOnceMore'
  BY <1>9 DEF SupportInv, StoredForErrors, AtMostOnceMore, Copies
<1> QED BY <1>5, <1>6, <1>7, <1>8, <1>10 DEF SupportInv

(* A text is typed: it is new.                                               *)
LEMMA TextIsTyped ==
  ASSUME SupportInv, NEW p \in People, draft[p] = 0, typed < MaxTexts, typed' = typed + 1,
         draft' = [draft EXCEPT ![p] = typed + 1], UNCHANGED <<messages, sends, failed>>
  PROVE  SupportInv'
<1>1. /\ draft \in [People -> 0..MaxTexts] /\ typed \in Nat /\ MaxTexts \in Nat
      /\ typed' \in 0..MaxTexts
      /\ \A q \in People : draft[q] \in 0..typed /\ draft'[q] = IF q = p THEN typed + 1 ELSE draft[q]
      /\ \A s \in sends : s.text \in 0..typed
  BY SupportAssumption DEF SupportInv, FormsAreTyped, SendsAreRequests
<1>2. FormsAreTyped'
  <2>1. draft' \in [People -> 0..MaxTexts]
    BY <1>1
  <2>2. \A q \in People : draft'[q] <= typed'
    BY <1>1
  <2>3. draft'["USER"] = draft'["ADMIN"] => draft'["USER"] = 0
    BY <1>1 DEF SupportInv, FormsAreTyped, People
  <2>4. \A m \in messages : m.text \in 1..typed'
    BY <1>1 DEF SupportInv, FormsAreTyped
  <2> QED BY <1>1, <2>1, <2>2, <2>3, <2>4 DEF SupportInv, FormsAreTyped
<1>3. SendsAreRequests'
  BY <1>1 DEF SupportInv, SendsAreRequests, SendShape
<1>4. SenderWaits'
  BY <1>1 DEF SupportInv, SenderWaits
<1>5. OneSend'
  BY DEF SupportInv, OneSend
<1>6. \A x \in Texts : MayBeStored(x)' => MayBeStored(x)
  <2> SUFFICES ASSUME NEW x \in Texts, MayBeStored(x)' PROVE MayBeStored(x)
    OBVIOUS
  <2>0. x \in Nat
    BY DEF Texts
  <2>1. CASE x > typed'
    BY <1>1, <2>0, <2>1 DEF MayBeStored
  <2>2. CASE \E s \in sends' : s.text = x /\ s.pc \in {"sent", "checked", "refused"}
    BY <2>2 DEF MayBeStored
  <2>3. CASE (\E q \in People : draft'[q] = x) /\ \A s \in sends' : s.text # x
    BY <1>1, <2>0, <2>3 DEF MayBeStored
  <2> QED BY <2>1, <2>2, <2>3 DEF MayBeStored
<1>7. StoredForErrors' /\ AtMostOnceMore'
  BY <1>6 DEF SupportInv, StoredForErrors, AtMostOnceMore, Copies
<1> QED BY <1>2, <1>3, <1>4, <1>5, <1>7 DEF SupportInv

(* A request is sent: with the text of a form that no request has, or none.  *)
LEMMA RequestIsSent ==
  ASSUME SupportInv, NEW t, SendShape(t), sends' = sends \cup {t}, t.who \in People,
         t.here = TRUE, t.pc = "sent", t.kind \in {"create", "add", "reply", "resolve"},
         t.kind = "resolve" <=> t.text = 0,
         t.text # 0 => t.text = draft[t.who] /\ \A s \in sends : s.text # t.text,
         UNCHANGED <<messages, draft, typed, failed>>
  PROVE  SupportInv'
<1>1. /\ draft \in [People -> 0..MaxTexts] /\ typed \in Nat
      /\ \A q \in People : draft[q] \in 0..typed
      /\ t.text \in 0..typed
  BY SupportAssumption DEF SupportInv, FormsAreTyped
<1>2. FormsAreTyped'
  BY DEF SupportInv, FormsAreTyped
<1>3. SendsAreRequests'
  <2> SUFFICES ASSUME NEW s \in sends'
               PROVE /\ SendShape(s) /\ s.who \in People /\ s.here \in BOOLEAN /\ s.text \in 0..typed
                     /\ s.kind \in {"create", "add", "reply", "resolve"}
                     /\ (s.kind = "resolve" <=> s.text = 0)
                     /\ s.pc = "refused" => s.text # 0
    BY DEF SendsAreRequests, SendShape
  <2>1. CASE s = t
    BY <1>1, <2>1
  <2>2. CASE s \in sends
    BY <2>2 DEF SupportInv, SendsAreRequests
  <2> QED BY <2>1, <2>2
<1>4. SenderWaits'
  <2> SUFFICES ASSUME NEW s \in sends', NEW p \in People, s.text # 0, draft[p] = s.text
               PROVE  p = s.who /\ s.here
    BY DEF SenderWaits
  <2>1. CASE s = t
    BY <1>1, <2>1 DEF SupportInv, FormsAreTyped, People
  <2>2. CASE s \in sends
    BY <2>2 DEF SupportInv, SenderWaits
  <2> QED BY <2>1, <2>2
<1>5. OneSend'
  BY DEF SupportInv, OneSend
<1>6. \A x \in Texts : MayBeStored(x)' => MayBeStored(x)
  <2> SUFFICES ASSUME NEW x \in Texts, MayBeStored(x)' PROVE MayBeStored(x)
    OBVIOUS
  <2>0. x # 0
    BY DEF Texts
  <2>1. CASE x > typed
    BY <2>1 DEF MayBeStored
  <2>2. CASE \E s \in sends' : s.text = x /\ s.pc \in {"sent", "checked", "refused"}
    BY <2>0, <2>2 DEF MayBeStored
  <2>3. CASE (\E q \in People : draft[q] = x) /\ \A s \in sends' : s.text # x
    BY <2>3 DEF MayBeStored
  <2> QED BY <2>1, <2>2, <2>3 DEF MayBeStored
<1>7. StoredForErrors' /\ AtMostOnceMore'
  BY <1>6 DEF SupportInv, StoredForErrors, AtMostOnceMore, Copies
<1> QED BY <1>2, <1>3, <1>4, <1>5, <1>7 DEF SupportInv

(* A request is over.  Where its text stays in the form, or it was refused,  *)
(* an error is counted; where it was carried out and the page still waits,   *)
(* the form is emptied.                                                      *)
LEMMA RequestIsOver ==
  ASSUME SupportInv, NEW s \in sends, sends' = sends \ {s}, UNCHANGED <<messages, typed>>,
         \/ s.text = 0 /\ draft' = draft /\ failed' = failed
         \/ /\ s.pc = "done" /\ s.kind # "resolve" /\ failed' = failed
            /\ draft' = IF s.here THEN [draft EXCEPT ![s.who] = 0] ELSE draft
         \/ s.text # 0 /\ draft' = draft /\ failed' = [failed EXCEPT ![s.text] = @ + 1]
  PROVE  SupportInv'
<1>1. /\ draft \in [People -> 0..MaxTexts] /\ typed \in Nat /\ typed <= MaxTexts /\ MaxTexts \in Nat
      /\ failed \in [Texts -> Nat] /\ s.who \in People /\ s.here \in BOOLEAN
      /\ s.text \in 0..typed /\ IsFiniteSet(messages)
  BY SupportAssumption DEF SupportInv, FormsAreTyped, SendsAreRequests
<1>2. \A q \in People : draft'[q] = draft[q] \/ (draft'[q] = 0 /\ q = s.who)
  BY <1>1
<1>3. draft' \in [People -> 0..MaxTexts]
  BY <1>1
<1>4. failed' \in [Texts -> Nat] /\ \A x \in Texts : failed[x] <= failed'[x]
  <2>1. CASE failed' = failed
    BY <1>1, <2>1
  <2>2. CASE s.text # 0 /\ failed' = [failed EXCEPT ![s.text] = @ + 1]
    <3>1. s.text \in Texts
      BY <1>1, <2>2 DEF Texts
    <3>2. failed[s.text] + 1 \in Nat
      BY <1>1, <3>1
    <3>3. \A x \in Texts : failed'[x] = IF x = s.text THEN failed[x] + 1 ELSE failed[x]
      BY <1>1, <2>2, <3>1
    <3> QED BY <1>1, <2>2, <3>1, <3>2, <3>3
  <2>3. failed' = failed \/ (s.text # 0 /\ failed' = [failed EXCEPT ![s.text] = @ + 1])
    OBVIOUS
  <2> HIDE DEF Texts
  <2> QED BY <2>1, <2>2, <2>3
<1>5. FormsAreTyped'
  <2>1. \A q \in People : draft'[q] <= typed
    BY <1>1, <1>2 DEF SupportInv, FormsAreTyped
  <2>2. draft'["USER"] = draft'["ADMIN"] => draft'["USER"] = 0
    BY <1>2 DEF SupportInv, FormsAreTyped, People
  <2> QED BY <1>3, <1>4, <2>1, <2>2 DEF SupportInv, FormsAreTyped
<1>6. SendsAreRequests'
  BY DEF SupportInv, SendsAreRequests, SendShape
<1>7. SenderWaits'
  BY <1>2 DEF SupportInv, SenderWaits
<1>8. OneSend'
  BY DEF SupportInv, OneSend
<1>9. \A x \in Texts : Copies(x)' = Copies(x) /\ Copies(x) \in Nat /\ failed[x] \in Nat /\ failed'[x] \in Nat
  BY <1>1, <1>4, CopiesAreNumbers DEF Copies
<1>10. ASSUME NEW x \in Texts, MayBeStored(x)' PROVE Copies(x) <= failed'[x]
  <2>0. x # 0
    BY DEF Texts
  <2>1. CASE MayBeStored(x)
    <3>1. Copies(x) <= failed[x]
      BY <2>1 DEF SupportInv, StoredForErrors
    <3> QED BY <1>4, <1>9, <3>1
  <2>2. CASE ~MayBeStored(x)
    <3>1. (\E q \in People : draft'[q] = x) /\ \A r \in sends' : r.text # x
      BY <1>10, <2>2 DEF MayBeStored
    <3>2. PICK q \in People : draft'[q] = x
      BY <3>1
    <3>3. draft[q] = x
      BY <1>2, <2>0, <3>2
    <3>4. s.text = x
      BY <2>2, <3>1, <3>3 DEF MayBeStored
    <3>5. q = s.who /\ s.here
      BY <2>0, <3>3, <3>4 DEF SupportInv, SenderWaits
    <3>6. failed' = [failed EXCEPT ![s.text] = @ + 1]
      BY <1>1, <2>0, <3>2, <3>4, <3>5
    <3>7. Copies(x) <= failed[x] + 1
      BY DEF SupportInv, AtMostOnceMore
    <3> QED BY <1>1, <3>4, <3>6, <3>7
  <2> QED BY <2>1, <2>2
<1>11. StoredForErrors'
  BY <1>9, <1>10 DEF StoredForErrors
<1>12. AtMostOnceMore'
  BY <1>4, <1>9 DEF SupportInv, AtMostOnceMore
<1> QED BY <1>5, <1>6, <1>7, <1>8, <1>11, <1>12 DEF SupportInv

-----------------------------------------------------------------------------
(* The invariant holds at first.                                             *)
LEMMA SupportBegins == SupportInit => SupportInv
<1> SUFFICES ASSUME SupportInit PROVE SupportInv
  OBVIOUS
<1>1. FormsAreTyped
  BY SupportAssumption, FS_EmptySet DEF SupportInit, FormsAreTyped, People, Texts
<1>2. SendsAreRequests /\ SenderWaits /\ OneSend
  BY DEF SupportInit, SendsAreRequests, SenderWaits, OneSend
<1>3. \A x \in Texts : Copies(x) = 0 /\ failed[x] = 0
  <2> SUFFICES ASSUME NEW x \in Texts PROVE Copies(x) = 0 /\ failed[x] = 0
    OBVIOUS
  <2>1. {m \in messages : m.text = x} = {}
    BY DEF SupportInit
  <2> QED BY <2>1, FS_EmptySet DEF Copies, SupportInit
<1> QED BY <1>1, <1>2, <1>3 DEF SupportInv, StoredForErrors, AtMostOnceMore

(* A step that touches neither forms, requests to write nor messages keeps   *)
(* it.                                                                       *)
LEMMA SupportStays ==
  ASSUME SupportInv, UNCHANGED <<draft, typed, failed, messages, sends>> PROVE SupportInv'
BY DEF SupportInv, FormsAreTyped, SendsAreRequests, SendShape, SenderWaits, OneSend,
       StoredForErrors, AtMostOnceMore, MayBeStored, Copies

(* Who reads is the user or an administrator.                                *)
ReadersArePeople == \A l \in loads : l.who \in People /\ LoadShape(l)

(* One step per action.                                                      *)
LEMMA SupportGoesOn ==
  ASSUME SupportInv, ReadersArePeople, SupportNext PROVE SupportInv'
<1>1. ASSUME NEW p \in People, NEW where, Open(p, where) PROVE SupportInv'
  BY <1>1, PageIsLeft DEF Open, Go, stored
<1>2. ASSUME NEW p \in People, Poll(p) PROVE SupportInv'
  BY <1>2, SupportStays DEF Poll, stored, personVars
<1>3. ASSUME NEW p \in People, Type(p) PROVE SupportInv'
  BY <1>3, TextIsTyped DEF Type, stored
<1>4. ASSUME NEW p \in People, Submit(p) PROVE SupportInv'
  <2> DEFINE t == [number |-> requested', who |-> p,
                   kind |-> IF place[p] = List THEN "create" ELSE IF p = "USER" THEN "add" ELSE "reply",
                   ticket |-> place[p].of, text |-> draft[p], time |-> 0, pc |-> "sent", here |-> TRUE]
  <2>1. SendShape(t) /\ t.who = p /\ t.here = TRUE /\ t.pc = "sent" /\ t.text = draft[p]
        /\ t.kind \in {"create", "add", "reply"}
    BY DEF SendShape
  <2>2. sends' = sends \cup {t} /\ UNCHANGED <<messages, draft, typed, failed>> /\ draft[p] # 0
    BY <1>4 DEF Submit, Request, stored, personVars
  <2> HIDE DEF t
  <2>3. ASSUME NEW s \in sends PROVE s.text # t.text
    <3>1. CASE s.text = t.text
      <4>1. s.who = p /\ s.here
        BY <2>1, <2>2, <3>1 DEF SupportInv, SenderWaits
      <4>2. s.kind \in {"create", "add", "reply"}
        BY <2>1, <2>2, <3>1 DEF SupportInv, SendsAreRequests
      <4> QED BY <1>4, <4>1, <4>2 DEF Submit, Busy
    <3> QED BY <3>1
  <2> QED BY <2>1, <2>2, <2>3, RequestIsSent
<1>5. ASSUME NEW status, Choose(status) PROVE SupportInv'
  BY <1>5, SupportStays DEF Choose, stored
<1>6. ASSUME Resolve PROVE SupportInv'
  <2> DEFINE t == [number |-> requested', who |-> "ADMIN", kind |-> "resolve",
                   ticket |-> place["ADMIN"].of, text |-> 0, time |-> 0, pc |-> "sent", here |-> TRUE]
  <2>1. SendShape(t) /\ t.who \in People /\ t.here = TRUE /\ t.pc = "sent" /\ t.text = 0
        /\ t.kind = "resolve"
    BY DEF SendShape, People
  <2>2. sends' = sends \cup {t} /\ UNCHANGED <<messages, draft, typed, failed>>
    BY <1>6 DEF Resolve, Request, stored, personVars
  <2> HIDE DEF t
  <2> QED BY <2>1, <2>2, RequestIsSent
<1>7. ASSUME NEW l \in loads, LoadServed(l) PROVE SupportInv'
  BY <1>7, SupportStays DEF LoadServed, stored, personVars
<1>8. ASSUME NEW l \in loads, NEW got, Ends(l, got), UNCHANGED <<stored, typed, failed>>
      PROVE  SupportInv'
  <2>1. CASE l.then # 0 /\ place[l.who] # Ticket(l.then)
    BY <1>8, <2>1, PageIsLeft DEF Ends, Go, stored, ReadersArePeople
  <2>2. CASE ~(l.then # 0 /\ place[l.who] # Ticket(l.then))
    BY <1>8, <2>2, SupportStays DEF Ends, stored
  <2> QED BY <2>1, <2>2
<1>9. ASSUME NEW l \in loads, LoadArrives(l) PROVE SupportInv'
  BY <1>8, <1>9 DEF LoadArrives
<1>10. ASSUME NEW l \in loads, LoadFails(l) PROVE SupportInv'
  BY <1>8, <1>10 DEF LoadFails
<1>11. ASSUME NEW s \in sends
       PROVE  SendShape(s) /\ s.text \in Nat /\ s.who \in People /\ s.here \in BOOLEAN
              /\ (s.kind = "resolve" <=> s.text = 0)
  BY DEF SupportInv, SendsAreRequests, FormsAreTyped
<1>12. ASSUME NEW s \in sends, Checked(s) PROVE SupportInv'
  <2>1. CASE s.kind = "add" /\ tickets[s.ticket].status = "RESOLVED"
    <3> DEFINE t == [s EXCEPT !.pc = "refused"]
    <3>1. SendShape(t) /\ t.who = s.who /\ t.kind = s.kind /\ t.text = s.text /\ t.here = s.here
          /\ t.pc = "refused" /\ s.text # 0
      BY <1>11, <2>1 DEF SendShape
    <3>2. sends' = (sends \ {s}) \cup {t} /\ s.pc = "sent" /\ UNCHANGED <<messages, draft, typed, failed>>
      BY <1>12, <2>1 DEF Checked, Becomes, OnlyStored, personVars
    <3> HIDE DEF t
    <3> QED BY <3>1, <3>2, RequestGoesOn
  <2>2. CASE ~(s.kind = "add" /\ tickets[s.ticket].status = "RESOLVED")
    <3> DEFINE t == [s EXCEPT !.pc = "checked", !.time = begun']
    <3>1. SendShape(t) /\ t.who = s.who /\ t.kind = s.kind /\ t.text = s.text /\ t.here = s.here
          /\ t.pc = "checked"
      <4> DEFINE u == [s EXCEPT !.pc = "checked"]
      <4>1. SendShape(u) /\ u.who = s.who /\ u.kind = s.kind /\ u.text = s.text /\ u.here = s.here
            /\ u.pc = "checked" /\ t = [u EXCEPT !.time = begun']
        BY <1>11 DEF SendShape
      <4> HIDE DEF t, u
      <4> QED BY <4>1 DEF SendShape
    <3>2. sends' = (sends \ {s}) \cup {t} /\ s.pc = "sent" /\ UNCHANGED <<messages, draft, typed, failed>>
      BY <1>12, <2>2 DEF Checked, Becomes, OnlyStored, personVars
    <3> HIDE DEF t
    <3> QED BY <3>1, <3>2, RequestGoesOn
  <2> QED BY <2>1, <2>2
<1>13. ASSUME NEW s \in sends, Created(s) PROVE SupportInv'
  <2> DEFINE t == [s EXCEPT !.pc = "stored", !.ticket = Len(tickets')]
             m == Message(s, Len(tickets'), begun')
  <2>1. SendShape(t) /\ t.who = s.who /\ t.kind = s.kind /\ t.text = s.text /\ t.here = s.here
        /\ t.pc = "stored" /\ m.text = s.text
    <3> DEFINE u == [s EXCEPT !.pc = "stored"]
    <3>1. SendShape(u) /\ u.who = s.who /\ u.kind = s.kind /\ u.text = s.text /\ u.here = s.here
          /\ u.pc = "stored" /\ t = [u EXCEPT !.ticket = Len(tickets')] /\ m.text = s.text
      BY <1>11 DEF SendShape, Message
    <3> HIDE DEF t, u, m
    <3> QED BY <3>1 DEF SendShape
  <2>2. /\ sends' = (sends \ {s}) \cup {t} /\ s.pc = "sent" /\ s.text # 0
        /\ messages' = messages \cup {m} /\ UNCHANGED <<draft, typed, failed>>
    BY <1>11, <1>13 DEF Created, Becomes, OnlyStored, personVars
  <2> HIDE DEF t, m
  <2> QED BY <2>1, <2>2, RequestGoesOn
<1>14. ASSUME NEW s \in sends, Added(s) PROVE SupportInv'
  <2> DEFINE t == [s EXCEPT !.pc = "stored"]
             m == Message(s, s.ticket, s.time)
  <2>1. SendShape(t) /\ t.who = s.who /\ t.kind = s.kind /\ t.text = s.text /\ t.here = s.here
        /\ t.pc = "stored" /\ m.text = s.text
    BY <1>11 DEF SendShape, Message
  <2>2. /\ sends' = (sends \ {s}) \cup {t} /\ s.pc = "checked" /\ s.text # 0
        /\ messages' = messages \cup {m} /\ UNCHANGED <<draft, typed, failed>>
    BY <1>11, <1>14 DEF Added, Becomes, OnlyStored, personVars
  <2> HIDE DEF t, m
  <2> QED BY <2>1, <2>2, RequestGoesOn
<1>15. ASSUME NEW s \in sends, NEW pc \in {"done", "broken"}, Becomes(s, [s EXCEPT !.pc = pc]),
              OnlyStored, UNCHANGED messages
       PROVE  SupportInv'
  <2> DEFINE t == [s EXCEPT !.pc = pc]
  <2>1. SendShape(t) /\ t.who = s.who /\ t.kind = s.kind /\ t.text = s.text /\ t.here = s.here
        /\ t.pc = pc
    BY <1>11 DEF SendShape
  <2>2. sends' = (sends \ {s}) \cup {t} /\ UNCHANGED <<messages, draft, typed, failed>>
    BY <1>15 DEF Becomes, OnlyStored, personVars
  <2> HIDE DEF t
  <2> QED BY <2>1, <2>2, RequestGoesOn
<1>16. ASSUME NEW s \in sends, Resolved(s) \/ Notified(s) \/ Breaks(s) PROVE SupportInv'
  BY <1>15, <1>16 DEF Resolved, Notified, Breaks, stored
<1>17. ASSUME NEW s \in sends, Answered(s) PROVE SupportInv'
  <2>1. UNCHANGED <<messages, typed>> /\ sends' = sends \ {s}
    BY <1>17 DEF Answered, stored
  <2>2. CASE s.pc = "refused"
    <3>1. s.text # 0 /\ failed' = [failed EXCEPT ![s.text] = @ + 1] /\ draft' = draft
      BY <1>17, <2>2 DEF Answered, SupportInv, SendsAreRequests
    <3> QED BY <2>1, <3>1, RequestIsOver
  <2>3. CASE s.pc = "done" /\ s.kind = "resolve"
    <3>1. s.text = 0 /\ draft' = draft /\ failed' = failed
      BY <1>11, <1>17, <2>3 DEF Answered
    <3> QED BY <2>1, <3>1, RequestIsOver
  <2>4. CASE s.pc = "done" /\ s.kind # "resolve"
    <3>1. failed' = failed /\ draft' = IF s.here THEN [draft EXCEPT ![s.who] = 0] ELSE draft
      BY <1>11, <1>17, <2>4 DEF Answered
    <3> QED BY <2>1, <2>4, <3>1, RequestIsOver
  <2> QED BY <1>17, <2>2, <2>3, <2>4 DEF Answered
<1>18. ASSUME NEW s \in sends, Failed(s) PROVE SupportInv'
  <2>1. UNCHANGED <<messages, typed, draft>> /\ sends' = sends \ {s}
    BY <1>18 DEF Failed, stored, personVars
  <2>2. CASE s.kind = "resolve"
    BY <1>11, <1>18, <2>1, <2>2, RequestIsOver DEF Failed
  <2>3. CASE s.kind # "resolve"
    BY <1>11, <1>18, <2>1, <2>3, RequestIsOver DEF Failed
  <2> QED BY <2>2, <2>3
<1> QED BY <1>1, <1>2, <1>3, <1>4, <1>5, <1>6, <1>7, <1>9, <1>10, <1>12, <1>13, <1>14,
           <1>16, <1>17, <1>18 DEF SupportNext

(* A read keeps its reader.                                                  *)
LEMMA ReadersStayPeople ==
  ASSUME SupportInv, ReadersArePeople, SupportNext PROVE ReadersArePeople'
<1> DEFINE IsRead(c) == c.who \in People /\ LoadShape(c)
<1>1. ASSUME NEW p \in People, NEW where, NEW then, NEW ls, NEW status, NEW here
      PROVE  /\ IsRead(ReadCall(p, where, then, ls))
             /\ IsRead([ReadCall(p, where, then, ls) EXCEPT !.filter = status])
             /\ IsRead([ReadCall(p, where, then, ls) EXCEPT !.here = here])
  <2> DEFINE c == ReadCall(p, where, then, ls)
  <2>1. IsRead(c)
    BY DEF ReadCall, LoadShape
  <2> HIDE DEF c
  <2>2. IsRead([c EXCEPT !.filter = status]) /\ IsRead([c EXCEPT !.here = here])
    BY <2>1 DEF LoadShape
  <2> QED BY <2>1, <2>2 DEF c
<1>2. ASSUME NEW l \in loads, NEW got PROVE IsRead([l EXCEPT !.got = got])
  BY DEF ReadersArePeople, LoadShape
<1>0. (\A l \in loads' : IsRead(l)) => ReadersArePeople'
  BY DEF ReadersArePeople, LoadShape
<1>0a. \A l \in loads : IsRead(l)
  BY DEF ReadersArePeople
<1>3. ASSUME NEW p \in People, NEW where, NEW ls \in SUBSET loads, Go(p, where, ls)
      PROVE  ReadersArePeople'
  <2>1. \A l \in Abandoned(ls, p) : IsRead(l)
    BY DEF Abandoned, ReadersArePeople, LoadShape
  <2>2. \/ loads' = Abandoned(ls, p)
        \/ loads' = Abandoned(ls, p)
                     \cup {[ReadCall(p, where, 0, Abandoned(ls, p)) EXCEPT !.filter = "OPEN"]}
    BY <1>3 DEF Go
  <2>3. IsRead([ReadCall(p, where, 0, Abandoned(ls, p)) EXCEPT !.filter = "OPEN"])
    BY <1>1
  <2> HIDE DEF IsRead
  <2> QED BY <1>0, <2>1, <2>2, <2>3
<1>4. ASSUME loads' \subseteq loads PROVE ReadersArePeople'
  BY <1>4 DEF ReadersArePeople, LoadShape
<1>5. ASSUME NEW p \in People, NEW where, Open(p, where) PROVE ReadersArePeople'
  BY <1>3, <1>5 DEF Open
<1>6. ASSUME NEW p \in People, Poll(p) PROVE ReadersArePeople'
  <2>1. IsRead(ReadCall(p, place[p], 0, loads))
    BY <1>1
  <2> HIDE DEF IsRead
  <2> QED BY <1>0, <1>0a, <2>1, <1>6 DEF Poll
<1>7. ASSUME NEW status \in Statuses, Choose(status) PROVE ReadersArePeople'
  <2>1. "ADMIN" \in People
    BY DEF People
  <2>2. IsRead([ReadCall("ADMIN", List, 0, loads) EXCEPT !.filter = status])
    BY <1>1, <2>1
  <2> HIDE DEF IsRead
  <2> QED BY <1>0, <1>0a, <2>2, <1>7 DEF Choose
<1>8. ASSUME NEW l \in loads, LoadServed(l) PROVE ReadersArePeople'
  BY <1>2, <1>8 DEF LoadServed, ReadersArePeople, LoadShape
<1>9. ASSUME NEW l \in loads, NEW got, Ends(l, got) PROVE ReadersArePeople'
  BY <1>3, <1>4, <1>9 DEF Ends, ReadersArePeople
<1>10. ASSUME NEW s \in sends, Answered(s) PROVE ReadersArePeople'
  <2>1. s.who \in People
    BY DEF SupportInv, SendsAreRequests
  <2>2. \/ loads' = loads
        \/ loads' = loads \cup {[ReadCall(s.who, List, s.ticket, loads) EXCEPT !.here = s.here]}
        \/ loads' = loads \cup {ReadCall(s.who, Ticket(s.ticket), 0, loads)}
    BY <1>10 DEF Answered
  <2>3. /\ IsRead([ReadCall(s.who, List, s.ticket, loads) EXCEPT !.here = s.here])
        /\ IsRead(ReadCall(s.who, Ticket(s.ticket), 0, loads))
    BY <1>1, <2>1
  <2> HIDE DEF IsRead
  <2> QED BY <1>0, <1>0a, <2>2, <2>3
<1>11. ASSUME UNCHANGED loads PROVE ReadersArePeople'
  BY <1>11 DEF ReadersArePeople, LoadShape
<1>12. ASSUME NEW p \in People, Type(p) \/ Submit(p) PROVE ReadersArePeople'
  BY <1>11, <1>12 DEF Type, Submit, Request
<1>13. ASSUME Resolve PROVE ReadersArePeople'
  BY <1>11, <1>13 DEF Resolve, Request
<1>14. ASSUME NEW l \in loads, LoadArrives(l) \/ LoadFails(l) PROVE ReadersArePeople'
  BY <1>9, <1>14 DEF LoadArrives, LoadFails
<1>15. ASSUME NEW s \in sends, Checked(s) \/ Created(s) \/ Added(s) \/ Resolved(s) \/ Notified(s)
                               \/ Breaks(s) \/ Failed(s)
       PROVE  ReadersArePeople'
  BY <1>11, <1>15 DEF Checked, Created, Added, Resolved, Notified, Breaks, Failed, OnlyStored
<1> QED BY <1>5, <1>6, <1>7, <1>8, <1>10, <1>12, <1>13, <1>14, <1>15 DEF SupportNext

(* The invariant holds always.                                               *)
LEMMA SupportInvariance == SupportSpec => [](SupportInv /\ ReadersArePeople)
<1>1. SupportInit => SupportInv /\ ReadersArePeople
  BY SupportBegins DEF SupportInit, ReadersArePeople
<1>2. SupportInv /\ ReadersArePeople /\ [SupportNext]_supportVars => (SupportInv /\ ReadersArePeople)'
  <2> SUFFICES ASSUME SupportInv, ReadersArePeople, [SupportNext]_supportVars
               PROVE  (SupportInv /\ ReadersArePeople)'
    OBVIOUS
  <2>1. CASE SupportNext
    BY <2>1, SupportGoesOn, ReadersStayPeople
  <2>2. CASE UNCHANGED supportVars
    BY <2>2, SupportStays DEF supportVars, stored, personVars, ReadersArePeople, LoadShape
  <2> QED BY <2>1, <2>2
<1> QED BY <1>1, <1>2, PTL DEF SupportSpec

(* However pages are opened, requests broken off and answers lost: a text is *)
(* stored once, and once more for every request that ended with an error.    *)
THEOREM TextsAreSentOnce == SupportSpec => []SentOnce
<1>1. SupportInv => SentOnce
  BY DEF SupportInv, AtMostOnceMore, SentOnce, Copies
<1> QED BY <1>1, SupportInvariance, PTL

-----------------------------------------------------------------------------
(* Inbox.                                                                    *)

-----------------------------------------------------------------------------
(* The list reaches up to its newer cursor. *)
CursorsAreReached ==
  /\ oldest <= newest
  /\ \A n \in items \cup arriving : n <= newest

(* A synchronisation without a cursor asks once, while there is nothing older *)
(* to ask for; what it brings is whole from its next cursor on.               *)
AnswerIsWhole ==
  sync.pc # "idle" /\ sync.from = 0 =>
    /\ oldest = 0 /\ ~more.on /\ sync.hasMore = FALSE /\ sync.after = 0
    /\ sync.pc = "ask" => sync.got = {}
    /\ sync.pc = "answer" =>
         /\ sync.next \in sync.got \cup {0} /\ sync.newest \in sync.got \cup {0}
         /\ \A n \in sync.got : n <= sync.newest
         /\ \A n \in StoredNotes : n >= sync.next /\ n <= sync.newest => n \in sync.got \cup late

(* One from a cursor joins page after page to what is listed, without a hole. *)
PagesJoin ==
  sync.pc # "idle" /\ sync.from # 0 =>
    /\ sync.from <= newest /\ sync.next = 0
    /\ \A n \in StoredNotes, g \in sync.got : n > sync.from /\ n <= g => n \in sync.got \cup late
    /\ sync.pc = "ask" =>
         /\ sync.after \in sync.got \cup {sync.from}
         /\ \A g \in sync.got : g <= sync.after
    /\ sync.hasMore =>
         /\ sync.newest \in sync.got
         /\ \A g \in sync.got : g <= sync.newest

(* An older page reaches up to what is listed. *)
OlderJoins ==
  more.on =>
    /\ oldest # 0 /\ more.next <= oldest
    /\ \A n \in more.got : n < oldest
    /\ \A n \in StoredNotes : n >= more.next /\ n < oldest => n \in more.got \cup late

(* The inductive invariant.                                                  *)
InboxInv == InboxTypeOK /\ CursorsAreReached /\ AnswerIsWhole /\ PagesJoin /\ OlderJoins /\ NothingSkipped

-----------------------------------------------------------------------------
(* A finite set of numbers has a largest and a smallest member. *)
LEMMA LargestExists ==
  ASSUME NEW S \in SUBSET Nat, IsFiniteSet(S), S # {}
  PROVE  \E n \in S : \A o \in S : o <= n
<1> DEFINE Above(n) == {o \in S : o > n}
           F == {Above(n) : n \in S}
<1>1. ASSUME NEW n \in S PROVE Above(n) \in FiniteSubsetsOf(S)
  BY FS_Subset DEF FiniteSubsetsOf
<1>2. F \subseteq FiniteSubsetsOf(S) /\ F # {}
  BY <1>1
<1>3. IsWellFoundedOn(StrictSubsetOrdering(S), FiniteSubsetsOf(S))
  BY FS_StrictSubsetOrderingWellFounded
<1>4. PICK A \in F : \A B \in F : <<B, A>> \notin StrictSubsetOrdering(S)
  <2> HIDE DEF F
  <2> QED BY <1>2, <1>3, WFMin
<1>5. PICK n \in S : A = Above(n)
  OBVIOUS
<1>6. ASSUME NEW o \in S, ~(o <= n) PROVE FALSE
  <2>1. o > n /\ ~(o > o) /\ \A p \in S : p > o => p > n
    BY <1>6
  <2>2. Above(o) \in F
    OBVIOUS
  <2>3. Above(o) \subseteq Above(n) /\ o \in Above(n) /\ o \notin Above(o)
    BY <2>1
  <2>4. <<Above(o), A>> \in StrictSubsetOrdering(S)
    BY <1>5, <2>3 DEF StrictSubsetOrdering
  <2> QED BY <1>4, <2>2, <2>4
<1> QED BY <1>6

(* And a smallest one.                                                       *)
LEMMA SmallestExists ==
  ASSUME NEW S \in SUBSET Nat, S # {}
  PROVE  \E n \in S : \A o \in S : n <= o
<1>1. IsWellFoundedOn(OpToRel(<, Nat), Nat)
  BY NatLessThanWellFounded
<1>2. PICK n \in S : \A o \in S : <<o, n>> \notin OpToRel(<, Nat)
  BY <1>1, WFMin
<1>3. \A o \in S : ~(o < n)
  BY <1>2 DEF OpToRel
<1> QED BY <1>3

(* Sets of cursors are finite sets of numbers.                               *)
LEMMA CursorsAreFinite == ASSUME NEW S \in SUBSET Cursors PROVE IsFiniteSet(S) /\ S \in SUBSET Nat
<1>1. MaxNotes \in Nat /\ Cursors = 0..MaxNotes
  BY InboxAssumption DEF Cursors
<1>2. IsFiniteSet(0..MaxNotes)
  BY <1>1, FS_Interval
<1>3. S \subseteq Nat
  BY <1>1
<1>4. IsFiniteSet(S)
  BY <1>1, <1>2, FS_Subset
<1> QED BY <1>3, <1>4

(* The numbers of rows are cursors.                                          *)
LEMMA NotesAreCursors ==
  /\ NoteIds \subseteq Cursors /\ 0 \in Cursors
  /\ \A n \in Cursors : n \in Nat
  /\ \A n \in NoteIds : n # 0
BY InboxAssumption DEF NoteIds, Cursors

(* What Newest and Oldest choose. *)
LEMMA NewestIsLargest ==
  ASSUME NEW S \in SUBSET Cursors
  PROVE  /\ Newest(S) \in Cursors
         /\ S # {} => Newest(S) \in S
         /\ \A n \in S : n <= Newest(S)
<1>1. CASE S = {}
  BY <1>1, InboxAssumption DEF Newest, Cursors
<1>2. CASE S # {}
  <2>1. \E n \in S : \A o \in S : o <= n
    BY <1>2, CursorsAreFinite, LargestExists
  <2>2. Newest(S) = CHOOSE n \in S : \A o \in S : o <= n
    BY <1>2 DEF Newest
  <2>3. Newest(S) \in S /\ \A o \in S : o <= Newest(S)
    BY <2>1, <2>2
  <2> QED BY <2>3
<1> QED BY <1>1, <1>2

(* Oldest chooses the smallest of a set that is not empty.                   *)
LEMMA OldestIsSmallest ==
  ASSUME NEW S \in SUBSET Cursors, S # {}
  PROVE  Oldest(S) \in S /\ \A n \in S : Oldest(S) <= n
<1>1. \E n \in S : \A o \in S : n <= o
  BY CursorsAreFinite, SmallestExists
<1>2. Oldest(S) = CHOOSE n \in S : \A o \in S : n <= o
  BY DEF Oldest
<1> QED BY <1>1, <1>2

(* A page of the oldest rows leaves none out among those it reaches. *)
LEMMA FirstOfIsWhole ==
  ASSUME NEW S \in SUBSET NoteIds
  PROVE  /\ FirstOf(S) \subseteq S
         /\ S # {} => FirstOf(S) # {}
         /\ \A n \in S, g \in FirstOf(S) : n <= g => n \in FirstOf(S)
<1>0. S \in SUBSET Cursors /\ IsFiniteSet(S) /\ \A n \in S : n \in Nat
  BY NotesAreCursors, CursorsAreFinite
<1> DEFINE Below(n) == {o \in S : o < n}
<1>1. ASSUME NEW n \in S, NEW g \in FirstOf(S), n <= g PROVE n \in FirstOf(S)
  <2>1. g \in S /\ Cardinality(Below(g)) < PageSize
    BY DEF FirstOf
  <2>2. Below(n) \subseteq Below(g)
    BY <1>0, <1>1, <2>1
  <2>3. IsFiniteSet(Below(g))
    BY <1>0, FS_Subset
  <2>4. Cardinality(Below(n)) <= Cardinality(Below(g)) /\ IsFiniteSet(Below(n))
    <3> HIDE DEF Below
    <3> QED BY <2>2, <2>3, FS_Subset
  <2>5. Cardinality(Below(n)) \in Nat /\ Cardinality(Below(g)) \in Nat
    <3> HIDE DEF Below
    <3> QED BY <2>3, <2>4, FS_CardinalityType
  <2>6. Cardinality(Below(n)) < PageSize
    <3> HIDE DEF Below
    <3> QED BY <2>1, <2>4, <2>5, InboxAssumption
  <2> QED BY <2>6 DEF FirstOf
<1>2. ASSUME S # {} PROVE FirstOf(S) # {}
  <2>1. Oldest(S) \in S /\ \A n \in S : Oldest(S) <= n
    BY <1>0, <1>2, OldestIsSmallest
  <2>2. Below(Oldest(S)) = {}
    BY <1>0, <2>1
  <2>3. Cardinality(Below(Oldest(S))) < PageSize
    BY <2>2, FS_EmptySet, InboxAssumption
  <2> QED BY <2>1, <2>3 DEF FirstOf
<1>3. FirstOf(S) \subseteq S
  BY DEF FirstOf
<1> QED BY <1>1, <1>2, <1>3

(* Nor does one of the newest. *)
LEMMA LastOfIsWhole ==
  ASSUME NEW S \in SUBSET NoteIds
  PROVE  /\ LastOf(S) \subseteq S
         /\ S # {} => LastOf(S) # {}
         /\ \A n \in S, g \in LastOf(S) : n >= g => n \in LastOf(S)
<1>0. S \in SUBSET Cursors /\ IsFiniteSet(S) /\ \A n \in S : n \in Nat
  BY NotesAreCursors, CursorsAreFinite
<1> DEFINE Above(n) == {o \in S : o > n}
<1>1. ASSUME NEW n \in S, NEW g \in LastOf(S), n >= g PROVE n \in LastOf(S)
  <2>1. g \in S /\ Cardinality(Above(g)) < PageSize
    BY DEF LastOf
  <2>2. Above(n) \subseteq Above(g)
    BY <1>0, <1>1, <2>1
  <2>3. IsFiniteSet(Above(g))
    BY <1>0, FS_Subset
  <2>4. Cardinality(Above(n)) <= Cardinality(Above(g)) /\ IsFiniteSet(Above(n))
    <3> HIDE DEF Above
    <3> QED BY <2>2, <2>3, FS_Subset
  <2>5. Cardinality(Above(n)) \in Nat /\ Cardinality(Above(g)) \in Nat
    <3> HIDE DEF Above
    <3> QED BY <2>3, <2>4, FS_CardinalityType
  <2>6. Cardinality(Above(n)) < PageSize
    <3> HIDE DEF Above
    <3> QED BY <2>1, <2>4, <2>5, InboxAssumption
  <2> QED BY <2>6 DEF LastOf
<1>2. ASSUME S # {} PROVE LastOf(S) # {}
  <2>1. Newest(S) \in S /\ \A n \in S : n <= Newest(S)
    BY <1>0, <1>2, NewestIsLargest
  <2>2. Above(Newest(S)) = {}
    BY <1>0, <2>1
  <2>3. Cardinality(Above(Newest(S))) < PageSize
    BY <2>2, FS_EmptySet, InboxAssumption
  <2> QED BY <2>1, <2>3 DEF LastOf
<1>3. LastOf(S) \subseteq S
  BY DEF LastOf
<1> QED BY <1>1, <1>2, <1>3

(* The rows from the cursor of such a page on are in it. *)
LEMMA NextCursorIsWhole ==
  ASSUME NEW S \in SUBSET NoteIds
  PROVE  /\ NextCursor(S) \in Cursors
         /\ NextCursor(S) \in LastOf(S) \cup {0}
         /\ \A n \in S : n >= NextCursor(S) => n \in LastOf(S)
<1>0. LastOf(S) \subseteq NoteIds /\ NoteIds \subseteq Cursors
  BY LastOfIsWhole, NotesAreCursors
<1>1. CASE LastOf(S) = S
  BY <1>1, InboxAssumption DEF NextCursor, Cursors
<1>2. CASE LastOf(S) # S
  <2>1. LastOf(S) # {}
    BY <1>2, LastOfIsWhole
  <2>2. NextCursor(S) \in LastOf(S)
    BY <1>0, <1>2, <2>1, OldestIsSmallest DEF NextCursor
  <2> QED BY <1>0, <2>2, LastOfIsWhole
<1> QED BY <1>1, <1>2

-----------------------------------------------------------------------------
(* What each step of a synchronisation leaves of its record. *)
LEMMA StartedSync ==
  ASSUME InboxTypeOK, sync.pc = "idle"
  PROVE  /\ StartSync \in Sync
         /\ StartSync.pc = "ask" /\ StartSync.got = {} /\ StartSync.hasMore = FALSE
         /\ StartSync.after = StartSync.from /\ StartSync.next = 0
         /\ StartSync.from = IF newest # 0 THEN newest ELSE Newest(items)
<1>1. PICK c : c = IF newest # 0 THEN newest ELSE Newest(items)
  OBVIOUS
<1>2. c \in Cursors
  BY <1>1, NewestIsLargest, NotesAreCursors DEF InboxTypeOK
<1>3. StartSync = [NoSync EXCEPT !.pc = "ask", !.from = c, !.after = c]
  BY <1>1 DEF StartSync
<1>4. StartSync = [pc |-> "ask", from |-> c, after |-> c, got |-> {}, newest |-> 0,
                   hasMore |-> FALSE, next |-> 0]
  BY <1>3 DEF NoSync
<1> QED BY <1>1, <1>2, <1>4, NotesAreCursors DEF Sync

(* A synchronisation under way is not started again.                         *)
LEMMA KeptSync == ASSUME sync.pc # "idle" PROVE StartSync = sync
BY DEF StartSync

(* None is under way at first.                                               *)
LEMMA NoSyncIsIdle == NoSync \in Sync /\ NoSync.pc = "idle" /\ NoSync.got = {}
BY NotesAreCursors DEF NoSync, Sync

(* The server answers a page: the record keeps its type and its start.       *)
LEMMA ServedSync ==
  ASSUME InboxTypeOK, SyncServed
  PROVE  /\ sync' \in Sync /\ sync'.pc = "answer" /\ sync'.from = sync.from
         /\ sync'.after = sync.after
         /\ sync.after = 0 =>
              /\ sync'.got = sync.got \cup Before(StoredNotes)
              /\ sync'.newest = Newest(StoredNotes) /\ sync'.next = NextCursor(StoredNotes)
              /\ sync'.hasMore = sync.hasMore
         /\ sync.after # 0 =>
              /\ sync'.got = sync.got \cup After(sync.after)
              /\ sync'.newest = Newest(After(sync.after))
              /\ sync'.hasMore = HasMoreAfter(sync.after) /\ sync'.next = sync.next
<1> DEFINE S == {n \in StoredNotes : n > sync.after}
<1>1. StoredNotes \subseteq NoteIds /\ S \subseteq NoteIds
  BY DEF InboxTypeOK, StoredNotes
<1>2. Before(StoredNotes) \subseteq NoteIds /\ After(sync.after) \subseteq NoteIds
  BY <1>1, FirstOfIsWhole, LastOfIsWhole DEF Before, After
<1>3. Newest(StoredNotes) \in Cursors /\ Newest(After(sync.after)) \in Cursors
      /\ NextCursor(StoredNotes) \in Cursors
  BY <1>1, <1>2, NewestIsLargest, NextCursorIsWhole, NotesAreCursors
<1>4. HasMoreAfter(sync.after) \in BOOLEAN
  BY DEF HasMoreAfter
<1>5. sync \in Sync
  BY DEF InboxTypeOK
<1>6. CASE sync.after = 0
  <2>1. sync' = [sync EXCEPT !.pc = "answer", !.got = @ \cup Before(StoredNotes),
                             !.newest = Newest(StoredNotes), !.next = NextCursor(StoredNotes)]
    BY <1>6 DEF SyncServed
  <2> QED BY <1>2, <1>3, <1>5, <1>6, <2>1 DEF Sync
<1>7. CASE sync.after # 0
  <2>1. PICK h \in BOOLEAN : h = HasMoreAfter(sync.after)
    BY <1>4
  <2>2. sync' = [sync EXCEPT !.pc = "answer", !.got = @ \cup After(sync.after),
                             !.newest = Newest(After(sync.after)), !.hasMore = h]
    BY <1>7, <2>1 DEF SyncServed
  <2> QED BY <1>2, <1>3, <1>5, <1>7, <2>1, <2>2 DEF Sync
<1> QED BY <1>6, <1>7

(* The next page is asked for from the cursor of the last one.               *)
LEMMA NextPageSync ==
  ASSUME InboxTypeOK, SyncNextPage
  PROVE  /\ sync' \in Sync /\ sync'.pc = "ask" /\ sync'.from = sync.from
         /\ sync'.after = sync.newest /\ sync'.got = sync.got /\ sync'.hasMore = FALSE
         /\ sync'.next = sync.next
<1>1. PICK h \in BOOLEAN : h = FALSE
  OBVIOUS
<1>2. sync' = [sync EXCEPT !.pc = "ask", !.after = sync.newest, !.hasMore = h]
  BY <1>1 DEF SyncNextPage
<1> QED BY <1>1, <1>2 DEF InboxTypeOK, Sync

-----------------------------------------------------------------------------
(* The first state has its types.                                            *)
LEMMA InboxTyped == InboxInit => InboxTypeOK
<1> SUFFICES ASSUME InboxInit PROVE InboxTypeOK
  OBVIOUS
<1>1. 0 \in Cursors
  BY NotesAreCursors
<1>2. sync \in Sync
  BY NoSyncIsIdle DEF InboxInit
<1>3. more \in [on : BOOLEAN, got : SUBSET NoteIds, next : Cursors]
  BY <1>1 DEF InboxInit, NoMore
<1>4. {visiting, connected, saved} \subseteq BOOLEAN
  BY DEF InboxInit
<1> QED BY <1>1, <1>2, <1>3, <1>4 DEF InboxInit, InboxTypeOK

(* Every step keeps the types.                                               *)
LEMMA InboxStaysTyped == ASSUME InboxTypeOK, [InboxNext]_inboxVars PROVE InboxTypeOK'
<1> USE DEF rows, page, listed, calls, history
<1>s. StoredNotes \subseteq NoteIds /\ NoteIds \subseteq Cursors /\ StartSync \in Sync
  <2>1. StoredNotes \subseteq NoteIds
    BY DEF InboxTypeOK, StoredNotes
  <2>2. StartSync \in Sync
    BY StartedSync, KeptSync DEF InboxTypeOK
  <2> QED BY <2>1, <2>2, NotesAreCursors
<1>c. ASSUME NEW S \in SUBSET NoteIds PROVE Before(S) \in SUBSET NoteIds /\ NextCursor(S) \in Cursors
  BY LastOfIsWhole, NextCursorIsWhole DEF Before
<1>g. sync.got \subseteq NoteIds /\ sync.from \in Cursors /\ sync.newest \in Cursors /\ sync.next \in Cursors
  BY DEF InboxTypeOK, Sync
<1>m. more.got \subseteq NoteIds /\ more.next \in Cursors
  BY DEF InboxTypeOK
<1>1. ASSUME NEW n \in NoteIds, NoteStored(n) PROVE InboxTypeOK'
  BY <1>1 DEF NoteStored, InboxTypeOK
<1>2. CASE OpenInbox \/ InboxConnects
  BY <1>2, <1>s DEF OpenInbox, InboxConnects, InboxTypeOK
<1>3. CASE InboxDisconnects
  BY <1>3 DEF InboxDisconnects, InboxTypeOK
<1>4. CASE CloseInbox
  <2>1. sync' \in Sync /\ more' \in [on : BOOLEAN, got : SUBSET NoteIds, next : Cursors]
    BY <1>4, NoSyncIsIdle, NotesAreCursors DEF CloseInbox, NoMore
  <2>2. 0 \in Cursors
    BY NotesAreCursors
  <2>3. {visiting, connected, saved}' \subseteq BOOLEAN
    BY <1>4 DEF CloseInbox, InboxTypeOK
  <2>4. /\ created' \subseteq NoteIds /\ removed' \subseteq NoteIds /\ readRows' \subseteq NoteIds
        /\ unsent' \subseteq NoteIds /\ arriving' \subseteq NoteIds /\ reading' \in BOOLEAN
    BY <1>4, <2>2 DEF CloseInbox, InboxTypeOK
  <2>5. /\ items' \subseteq NoteIds /\ seen' \subseteq items'
        /\ newest' \in Cursors /\ oldest' \in Cursors
        /\ passed' \subseteq NoteIds /\ dropped' \subseteq NoteIds /\ late' \subseteq NoteIds
    BY <1>4, <2>2 DEF CloseInbox, InboxTypeOK
  <2> QED BY <2>1, <2>3, <2>4, <2>5 DEF InboxTypeOK
<1>5. CASE SyncServed
  BY <1>5, ServedSync DEF SyncServed, InboxTypeOK
<1>6. CASE SyncNextPage
  BY <1>6, NextPageSync DEF SyncNextPage, InboxTypeOK
<1>7. CASE SyncMerged
  <2>1. {IF newest # 0 THEN newest ELSE sync.from} \cup sync.got \in SUBSET Cursors
    BY <1>s, <1>g DEF InboxTypeOK
  <2>2. newest' \in Cursors
    BY <1>7, <2>1, NewestIsLargest DEF SyncMerged
  <2> QED BY <1>7, <1>g, <2>2, NoSyncIsIdle DEF SyncMerged, SyncEnds, InboxTypeOK
<1>8. CASE SyncReplaced
  <2>1. {IF newest # 0 THEN newest ELSE sync.newest} \cup sync.got \in SUBSET Cursors
    BY <1>s, <1>g DEF InboxTypeOK
  <2>2. newest' \in Cursors
    BY <1>8, <2>1, NewestIsLargest DEF SyncReplaced
  <2> QED BY <1>8, <1>g, <2>2, NoSyncIsIdle DEF SyncReplaced, SyncEnds, InboxTypeOK
<1>9. CASE SyncFails
  BY <1>9, NoSyncIsIdle DEF SyncFails, SyncEnds, InboxTypeOK
<1>10. CASE FlushArriving
  BY <1>10 DEF FlushArriving, InboxTypeOK
<1>11. CASE LoadMore
  <2> DEFINE S == {n \in StoredNotes : n < oldest}
  <2>1. S \in SUBSET NoteIds
    BY <1>s
  <2>2. more' \in [on : BOOLEAN, got : SUBSET NoteIds, next : Cursors]
    <3>1. Before(S) \in SUBSET NoteIds /\ NextCursor(S) \in Cursors
      BY <1>c, <2>1
    <3>2. more' = [on |-> TRUE, got |-> Before(S), next |-> NextCursor(S)]
      BY <1>11 DEF LoadMore
    <3> HIDE DEF S
    <3> QED BY <3>1, <3>2
  <2> QED BY <1>11, <2>2 DEF LoadMore, InboxTypeOK
<1>12. CASE LoadMoreAnswered
  <2>1. more' \in [on : BOOLEAN, got : SUBSET NoteIds, next : Cursors]
    BY <1>12, NotesAreCursors DEF LoadMoreAnswered, NoMore
  <2> QED BY <1>12, <1>m, <2>1 DEF LoadMoreAnswered, InboxTypeOK
<1>13. CASE LoadMoreFails
  <2>1. more' \in [on : BOOLEAN, got : SUBSET NoteIds, next : Cursors]
    BY <1>13, NotesAreCursors DEF LoadMoreFails, NoMore
  <2> QED BY <1>13, <2>1 DEF LoadMoreFails, InboxTypeOK
<1>14. CASE ReadAllServed
  BY <1>14, <1>s DEF ReadAllServed, InboxTypeOK
<1>15. CASE ReadAllAnswered \/ ReadAllFails
  BY <1>15 DEF ReadAllAnswered, ReadAllFails, InboxTypeOK
<1>16. ASSUME NEW n \in NoteIds, NoteEmitted(n) PROVE InboxTypeOK'
  <2>1. newest' \in Cursors /\ arriving' \subseteq NoteIds /\ passed' \subseteq NoteIds
    BY <1>16, <1>s DEF NoteEmitted, InboxTypeOK
  <2> QED BY <1>16, <2>1 DEF NoteEmitted, InboxTypeOK
<1>17. ASSUME NEW n \in Touched, ElsewhereRead(n) \/ ElsewhereDeleted(n) PROVE InboxTypeOK'
  BY <1>17, <1>s DEF ElsewhereRead, ElsewhereDeleted, InboxTypeOK
<1>18. ASSUME NEW n \in Touched, NoteRead(n) PROVE InboxTypeOK'
  BY <1>18, <1>s DEF NoteRead, InboxTypeOK
<1>19. ASSUME NEW n \in Touched, NoteDeleted(n) PROVE InboxTypeOK'
  BY <1>19, <1>s DEF NoteDeleted, InboxTypeOK
<1>20. CASE UNCHANGED inboxVars
  BY <1>20 DEF inboxVars, InboxTypeOK
<1> QED BY <1>1, <1>2, <1>3, <1>4, <1>5, <1>6, <1>7, <1>8, <1>9, <1>10, <1>11, <1>12, <1>13,
           <1>14, <1>15, <1>16, <1>17, <1>18, <1>19, <1>20 DEF InboxNext

(* Rows, list, cursors and calls of the notifications page always have their *)
(* types (app/notifications/page.tsx).                                       *)
THEOREM InboxTypeCorrect == InboxSpec => []InboxTypeOK
BY InboxTyped, InboxStaysTyped, PTL DEF InboxSpec

-----------------------------------------------------------------------------
(* The page's numbers and sets of numbers. *)
LEMMA InboxNumbers ==
  ASSUME InboxTypeOK
  PROVE  /\ newest \in Nat /\ oldest \in Nat /\ newest \in Cursors
         /\ items \subseteq NoteIds /\ arriving \subseteq NoteIds /\ sync.got \subseteq NoteIds
         /\ more.got \subseteq NoteIds /\ more.next \in Nat /\ more.on \in BOOLEAN
         /\ sync \in Sync /\ sync.from \in Nat /\ sync.from \in Cursors
         /\ sync.after \in Nat /\ sync.newest \in Nat
         /\ sync.newest \in Cursors /\ sync.next \in Nat
         /\ StoredNotes \subseteq NoteIds
         /\ \A n \in NoteIds : n \in Nat /\ n # 0
<1>1. StoredNotes \subseteq NoteIds
  BY DEF InboxTypeOK, StoredNotes
<1>2. /\ sync.got \subseteq NoteIds /\ sync.from \in Cursors /\ sync.after \in Cursors
      /\ sync.newest \in Cursors /\ sync.next \in Cursors /\ sync \in Sync
  BY DEF InboxTypeOK, Sync
<1>3. more.got \subseteq NoteIds /\ more.next \in Cursors /\ more.on \in BOOLEAN
  BY DEF InboxTypeOK
<1> QED BY <1>1, <1>2, <1>3, NotesAreCursors DEF InboxTypeOK

(* A row that appears where the page has gone past is late. *)
LEMMA NewRowsAreLate ==
  ASSUME [InboxNext]_inboxVars
  PROVE  /\ CloseInbox \/ late \subseteq late'
         /\ \A n \in StoredNotes' : n \in StoredNotes \/ n \in late' \/ ~GonePast(n)
<1> USE DEF rows, page, listed, calls, history
<1>1. ASSUME NEW n \in NoteIds, NoteStored(n)
      PROVE  /\ late \subseteq late'
             /\ \A m \in StoredNotes' : m \in StoredNotes \/ m \in late' \/ ~GonePast(m)
  <2>1. created' = created \cup {n} /\ removed' = removed
        /\ late' = IF GonePast(n) THEN late \cup {n} ELSE late
    BY <1>1 DEF NoteStored
  <2> QED BY <2>1 DEF StoredNotes
<1>2. CASE removed \subseteq removed' /\ created' = created /\ (CloseInbox \/ late' = late)
  BY <1>2 DEF StoredNotes
<1>3. CASE \/ OpenInbox \/ InboxConnects \/ InboxDisconnects \/ CloseInbox
           \/ SyncServed \/ SyncNextPage \/ SyncMerged \/ SyncReplaced \/ SyncFails
           \/ FlushArriving \/ LoadMore \/ LoadMoreAnswered \/ LoadMoreFails
           \/ ReadAllServed \/ ReadAllAnswered \/ ReadAllFails
  <2>1. removed \subseteq removed' /\ created' = created
    BY <1>3 DEF OpenInbox, InboxConnects, InboxDisconnects, CloseInbox, SyncServed, SyncNextPage,
       SyncMerged, SyncReplaced, SyncFails, SyncEnds, FlushArriving, LoadMore, LoadMoreAnswered,
       LoadMoreFails, ReadAllServed, ReadAllAnswered, ReadAllFails
  <2>2. CloseInbox \/ late' = late
    BY <1>3 DEF OpenInbox, InboxConnects, InboxDisconnects, SyncServed, SyncNextPage,
       SyncMerged, SyncReplaced, SyncFails, SyncEnds, FlushArriving, LoadMore, LoadMoreAnswered,
       LoadMoreFails, ReadAllServed, ReadAllAnswered, ReadAllFails
  <2> QED BY <1>2, <2>1, <2>2
<1>4. CASE \E n \in NoteIds : NoteEmitted(n)
  BY <1>2, <1>4 DEF NoteEmitted
<1>5. CASE \E n \in Touched : \/ ElsewhereRead(n) \/ ElsewhereDeleted(n)
                              \/ NoteRead(n) \/ NoteDeleted(n)
  BY <1>2, <1>5 DEF ElsewhereRead, ElsewhereDeleted, NoteRead, NoteDeleted
<1>6. CASE UNCHANGED inboxVars
  BY <1>2, <1>6 DEF inboxVars
<1> QED BY <1>1, <1>3, <1>4, <1>5, <1>6 DEF InboxNext

(* What a cursor moves to when an answer is merged. *)
LEMMA MergedCursor ==
  ASSUME NEW S \in SUBSET NoteIds, NEW c \in Cursors
  PROVE  /\ Newest({c} \cup S) \in {c} \cup S
         /\ c <= Newest({c} \cup S)
         /\ \A n \in S : n <= Newest({c} \cup S)
<1>1. {c} \cup S \in SUBSET Cursors /\ {c} \cup S # {}
  BY NotesAreCursors
<1> QED BY <1>1, NewestIsLargest

(* Every step keeps the list between its two cursors.                        *)
LEMMA CursorsStayReached == ASSUME InboxInv, [InboxNext]_inboxVars PROVE CursorsAreReached'
<1> USE DEF rows, page, listed, calls, history
<1>t. InboxTypeOK /\ CursorsAreReached /\ AnswerIsWhole /\ PagesJoin /\ OlderJoins
  BY DEF InboxInv
<1>n. /\ newest \in Nat /\ oldest \in Nat /\ newest \in Cursors
      /\ items \subseteq NoteIds /\ arriving \subseteq NoteIds /\ sync.got \subseteq NoteIds
      /\ \A n \in NoteIds : n \in Nat /\ n # 0
  BY <1>t, InboxNumbers
<1>c. /\ oldest <= newest
      /\ \A n \in items \cup arriving : n <= newest
  BY <1>t DEF CursorsAreReached
<1>1. ASSUME NEW n \in NoteIds, NoteStored(n) PROVE CursorsAreReached'
  BY <1>1, <1>c DEF NoteStored, CursorsAreReached
<1>2. CASE OpenInbox \/ InboxConnects \/ SyncServed \/ SyncNextPage
  BY <1>2, <1>c DEF OpenInbox, InboxConnects, SyncServed, SyncNextPage, CursorsAreReached
<1>3. CASE \/ InboxDisconnects \/ LoadMore \/ LoadMoreFails
           \/ ReadAllServed \/ ReadAllAnswered \/ ReadAllFails
  BY <1>3, <1>c DEF InboxDisconnects, LoadMore, LoadMoreFails, ReadAllServed, ReadAllAnswered,
     ReadAllFails, CursorsAreReached
<1>4. CASE CloseInbox
  <2>1. arriving' = {}
    BY <1>4 DEF CloseInbox
  <2>2. CASE saved
    BY <1>4, <1>c, <2>1, <2>2 DEF CloseInbox, CursorsAreReached
  <2>3. CASE ~saved
    <3>1. items' = {} /\ newest' = 0 /\ oldest' = 0
      BY <1>4, <2>3 DEF CloseInbox
    <3> QED BY <1>n, <1>c, <2>1, <3>1 DEF CursorsAreReached
  <2> QED BY <2>2, <2>3
<1>7. CASE SyncMerged
  <2>1. sync.from <= newest /\ sync.from # 0 /\ sync.from \in Nat
    BY <1>7, <1>t, InboxNumbers DEF PagesJoin, SyncMerged
  <2>2. newest # 0
    BY <2>1, <1>n
  <2>3. newest' = Newest({newest} \cup sync.got)
    BY <1>7, <2>2 DEF SyncMerged
  <2>4. newest' \in {newest} \cup sync.got /\ newest <= newest' /\ \A n \in sync.got : n <= newest'
    BY <1>n, <2>3, MergedCursor
  <2>5. newest' \in Nat
    BY <1>n, <2>4
  <2>6. items' = items \cup sync.got /\ oldest' = oldest /\ arriving' = arriving
    BY <1>7 DEF SyncMerged, SyncEnds
  <2>7. \A n \in items' \cup arriving' : n <= newest'
    <3>1. ASSUME NEW n \in items' \cup arriving' PROVE n <= newest'
      <4>1. CASE n \in sync.got
        BY <2>4, <4>1
      <4>2. CASE n \in items \cup arriving
        <5>1. n <= newest /\ n \in Nat
          BY <1>n, <1>c, <4>2
        <5> QED BY <1>n, <2>4, <2>5, <5>1
      <4> QED BY <2>6, <4>1, <4>2
    <3> QED BY <3>1
  <2>8. oldest' <= newest'
    BY <1>n, <1>c, <2>4, <2>5, <2>6
  <2> QED BY <1>c, <2>6, <2>7, <2>8 DEF CursorsAreReached
<1>8. CASE SyncReplaced
  <2>1. /\ sync.next \in sync.got \cup {0}
        /\ sync.newest \in Cursors /\ sync.newest \in Nat
    BY <1>8, <1>t, InboxNumbers DEF AnswerIsWhole, SyncReplaced
  <2>2. PICK c \in Cursors : c = IF newest # 0 THEN newest ELSE sync.newest
    BY <1>n, <2>1
  <2>3. newest' = Newest({c} \cup sync.got)
    BY <1>8, <2>2 DEF SyncReplaced
  <2>4. newest' \in {c} \cup sync.got /\ c <= newest' /\ \A n \in sync.got : n <= newest'
    BY <1>n, <2>3, MergedCursor
  <2>5. c \in Nat /\ newest <= c
    BY <1>n, <1>c, <2>1, <2>2
  <2>6. newest' \in Nat /\ newest <= newest'
    BY <1>n, <1>c, <2>4, <2>5
  <2>7. items' = sync.got /\ oldest' = sync.next /\ arriving' = arriving
    BY <1>8 DEF SyncReplaced, SyncEnds
  <2>8. \A n \in items' \cup arriving' : n <= newest'
    <3>1. ASSUME NEW n \in items' \cup arriving' PROVE n <= newest'
      <4>1. CASE n \in sync.got
        BY <2>4, <4>1
      <4>2. CASE n \in arriving
        <5>1. n <= newest /\ n \in Nat
          BY <1>n, <1>c, <4>2
        <5> QED BY <1>n, <2>6, <5>1
      <4> QED BY <2>7, <4>1, <4>2
    <3> QED BY <3>1
  <2>9. oldest' <= newest'
    BY <1>n, <2>1, <2>4, <2>6, <2>7
  <2> QED BY <1>c, <2>7, <2>8, <2>9 DEF CursorsAreReached
<1>9. CASE SyncFails
  BY <1>9, <1>c DEF SyncFails, SyncEnds, CursorsAreReached
<1>10. CASE FlushArriving
  BY <1>10, <1>c DEF FlushArriving, CursorsAreReached
<1>11. CASE LoadMoreAnswered
  <2>1. more.next <= oldest /\ (\A n \in more.got : n < oldest) /\ more.next \in Nat
        /\ more.got \subseteq NoteIds
    BY <1>11, <1>t, InboxNumbers DEF LoadMoreAnswered, OlderJoins
  <2> QED BY <1>11, <1>n, <1>c, <2>1 DEF LoadMoreAnswered, CursorsAreReached
<1>12. ASSUME NEW n \in NoteIds, NoteEmitted(n) PROVE CursorsAreReached'
  <2>1. n \in Nat
    BY <1>n
  <2>2. CASE visiting /\ connected
    <3>1. newest' = IF n > newest THEN n ELSE newest
      BY <1>12, <2>2 DEF NoteEmitted
    <3>2. newest <= newest' /\ n <= newest' /\ newest' \in Nat
      BY <1>n, <1>c, <2>1, <3>1
    <3>3. arriving' = arriving \cup {n} /\ UNCHANGED <<oldest, items>>
      BY <1>12, <2>2 DEF NoteEmitted
    <3> QED BY <1>n, <1>c, <3>2, <3>3 DEF CursorsAreReached
  <2>3. CASE ~(visiting /\ connected)
    BY <1>12, <1>c, <2>3 DEF NoteEmitted, CursorsAreReached
  <2> QED BY <2>2, <2>3
<1>13. CASE \E n \in Touched : \/ ElsewhereRead(n) \/ ElsewhereDeleted(n)
                               \/ NoteRead(n) \/ NoteDeleted(n)
  <2>1. items' \subseteq items /\ UNCHANGED <<newest, oldest, arriving>>
    BY <1>13 DEF ElsewhereRead, ElsewhereDeleted, NoteRead, NoteDeleted
  <2> QED BY <1>c, <2>1 DEF CursorsAreReached
<1>14. CASE UNCHANGED inboxVars
  BY <1>14, <1>c DEF inboxVars, CursorsAreReached
<1> QED BY <1>1, <1>2, <1>3, <1>4, <1>7, <1>8, <1>9, <1>10, <1>11, <1>12, <1>13, <1>14 DEF InboxNext

(* The steps that leave a synchronisation as it is, and those that end one. *)
LEMMA SyncStands ==
  ASSUME \/ InboxDisconnects \/ FlushArriving \/ LoadMore \/ LoadMoreAnswered
         \/ LoadMoreFails \/ ReadAllServed \/ ReadAllAnswered \/ ReadAllFails
         \/ \E n \in NoteIds : NoteStored(n) \/ NoteEmitted(n)
         \/ \E n \in Touched : \/ ElsewhereRead(n) \/ ElsewhereDeleted(n)
                               \/ NoteRead(n) \/ NoteDeleted(n)
         \/ UNCHANGED inboxVars
  PROVE  /\ sync' = sync
         /\ \/ UNCHANGED <<oldest, more>>
            \/ LoadMore \/ LoadMoreAnswered
            \/ UNCHANGED oldest /\ more' = NoMore
BY DEF rows, page, listed, calls, history, inboxVars, NoteStored, InboxDisconnects, FlushArriving,
   LoadMoreFails, ReadAllServed, ReadAllAnswered, ReadAllFails, NoteEmitted, LoadMore, LoadMoreAnswered,
   ElsewhereRead, ElsewhereDeleted, NoteRead, NoteDeleted

(* A synchronisation that ended has nothing more to join.                    *)
LEMMA SyncEnded ==
  ASSUME CloseInbox \/ SyncMerged \/ SyncReplaced \/ SyncFails
  PROVE  sync'.pc = "idle"
BY NoSyncIsIdle DEF CloseInbox, SyncMerged, SyncReplaced, SyncFails, SyncEnds

(* Every step keeps the answers under way whole.                             *)
LEMMA AnswerStaysWhole == ASSUME InboxInv, [InboxNext]_inboxVars PROVE AnswerIsWhole'
<1>t. InboxTypeOK /\ InboxTypeOK' /\ CursorsAreReached /\ AnswerIsWhole /\ PagesJoin /\ OlderJoins
  BY InboxStaysTyped DEF InboxInv
<1>n. /\ newest \in Nat /\ oldest \in Nat /\ sync.newest \in Nat
      /\ StoredNotes \subseteq NoteIds /\ StoredNotes' \subseteq NoteIds
      /\ \A n \in NoteIds : n \in Nat /\ n # 0
      /\ oldest <= newest
  <2>1. StoredNotes' \subseteq NoteIds
    BY <1>t DEF InboxTypeOK, StoredNotes
  <2> QED BY <1>t, <2>1, InboxNumbers DEF CursorsAreReached
<1>5. ASSUME sync' = sync,
             \/ UNCHANGED <<oldest, more>>
             \/ LoadMore \/ LoadMoreAnswered
             \/ UNCHANGED oldest /\ more' = NoMore
      PROVE  AnswerIsWhole'
  <2>1. SUFFICES ASSUME sync.pc # "idle", sync.from = 0 PROVE AnswerIsWhole'
    BY <1>5 DEF AnswerIsWhole
  <2>2. /\ oldest = 0 /\ ~more.on /\ sync.hasMore = FALSE /\ sync.after = 0
        /\ sync.pc = "ask" => sync.got = {}
        /\ sync.pc = "answer" =>
             /\ sync.next \in sync.got \cup {0} /\ sync.newest \in sync.got \cup {0}
             /\ \A n \in sync.got : n <= sync.newest
             /\ \A n \in StoredNotes : n >= sync.next /\ n <= sync.newest => n \in sync.got \cup late
    BY <1>t, <2>1 DEF AnswerIsWhole
  <2>3. oldest' = 0 /\ ~more'.on
    BY <1>5, <2>2 DEF LoadMore, LoadMoreAnswered, NoMore
  <2>4. late \subseteq late' /\ \A n \in StoredNotes' : n \in StoredNotes \/ n \in late' \/ ~GonePast(n)
    <3>1. ~CloseInbox
      BY <1>5, <2>1, SyncEnded
    <3> QED BY <3>1, NewRowsAreLate
  <2>5. ASSUME sync.pc = "answer", NEW n \in StoredNotes', n >= sync.next, n <= sync.newest
        PROVE  n \in sync.got \cup late'
    <3>1. n \in Nat /\ n # 0
      BY <1>n
    <3>2. CASE n \in StoredNotes
      BY <2>2, <2>4, <2>5, <3>2
    <3>3. CASE ~GonePast(n)
      <4>1. sync.newest \in sync.got
        BY <1>n, <2>2, <2>5, <3>1
      <4>2. ~(n < sync.newest)
        BY <2>1, <2>5, <3>1, <3>3, <4>1 DEF GonePast
      <4>3. n = sync.newest
        BY <1>n, <2>5, <3>1, <4>2
      <4> QED BY <4>1, <4>3
    <3> QED BY <2>4, <3>2, <3>3
  <2> QED BY <1>5, <2>2, <2>3, <2>5 DEF AnswerIsWhole
<1>1. CASE CloseInbox \/ SyncMerged \/ SyncReplaced \/ SyncFails
  BY <1>1, SyncEnded DEF AnswerIsWhole
<1>2. CASE OpenInbox \/ InboxConnects
  <2>1. CASE sync.pc # "idle"
    BY <1>2, <1>5, <2>1, KeptSync DEF OpenInbox, InboxConnects, listed
  <2>2. CASE sync.pc = "idle"
    <3>1. /\ sync'.pc = "ask" /\ sync'.got = {} /\ sync'.hasMore = FALSE /\ sync'.after = sync'.from
          /\ sync'.from = IF newest # 0 THEN newest ELSE Newest(items)
          /\ oldest' = oldest /\ more' = more
      BY <1>2, <1>t, <2>2, StartedSync DEF OpenInbox, InboxConnects, listed
    <3>2. SUFFICES ASSUME sync'.from = 0 PROVE oldest = 0 /\ ~more.on
      BY <3>1 DEF AnswerIsWhole
    <3>3. oldest = 0
      BY <1>n, <3>1, <3>2
    <3> QED BY <1>t, <3>3 DEF OlderJoins
  <2> QED BY <2>1, <2>2
<1>3. CASE SyncServed
  <2>1. SUFFICES ASSUME sync'.from = 0 PROVE AnswerIsWhole'
    BY DEF AnswerIsWhole
  <2>2. /\ sync'.pc = "answer" /\ sync'.from = sync.from /\ sync'.after = sync.after
        /\ sync.after = 0 =>
              /\ sync'.got = sync.got \cup Before(StoredNotes)
              /\ sync'.newest = Newest(StoredNotes) /\ sync'.next = NextCursor(StoredNotes)
              /\ sync'.hasMore = sync.hasMore
    BY <1>3, <1>t, ServedSync
  <2>3. sync.pc = "ask" /\ UNCHANGED <<created, removed, oldest, more, late>>
    BY <1>3 DEF SyncServed, rows, listed, history
  <2>4. oldest = 0 /\ ~more.on /\ sync.hasMore = FALSE /\ sync.after = 0 /\ sync.got = {}
    BY <1>t, <2>1, <2>2, <2>3 DEF AnswerIsWhole
  <2>5. /\ sync'.got = LastOf(StoredNotes) /\ sync'.newest = Newest(StoredNotes)
        /\ sync'.next = NextCursor(StoredNotes) /\ sync'.hasMore = FALSE
    BY <2>2, <2>4 DEF Before
  <2>6. LastOf(StoredNotes) \subseteq StoredNotes /\ NextCursor(StoredNotes) \in LastOf(StoredNotes) \cup {0}
        /\ \A n \in StoredNotes : n >= NextCursor(StoredNotes) => n \in LastOf(StoredNotes)
    BY <1>n, LastOfIsWhole, NextCursorIsWhole
  <2>7. /\ StoredNotes \in SUBSET Cursors
        /\ StoredNotes # {} => Newest(StoredNotes) \in StoredNotes
        /\ \A n \in StoredNotes : n <= Newest(StoredNotes)
    BY <1>n, NotesAreCursors, NewestIsLargest
  <2>8. Newest(StoredNotes) \in LastOf(StoredNotes) \cup {0}
    <3>1. CASE StoredNotes = {}
      BY <3>1 DEF Newest
    <3>2. CASE StoredNotes # {}
      <4>1. LastOf(StoredNotes) # {}
        BY <1>n, <3>2, LastOfIsWhole
      <4>2. PICK g \in LastOf(StoredNotes) : TRUE
        BY <4>1
      <4>3. Newest(StoredNotes) \in StoredNotes /\ g \in StoredNotes /\ g <= Newest(StoredNotes)
            /\ g \in Nat /\ Newest(StoredNotes) \in Nat
        BY <1>n, <2>6, <2>7, <3>2, <4>2
      <4> QED BY <1>n, <4>2, <4>3, LastOfIsWhole
    <3> QED BY <3>1, <3>2
  <2>9. StoredNotes' = StoredNotes
    BY <2>3 DEF StoredNotes
  <2> QED BY <2>2, <2>3, <2>4, <2>5, <2>6, <2>7, <2>8, <2>9 DEF AnswerIsWhole
<1>4. CASE SyncNextPage
  <2>1. sync.pc = "answer" /\ sync.hasMore /\ sync'.from = sync.from
    BY <1>4, <1>t, NextPageSync DEF SyncNextPage
  <2> QED BY <1>t, <2>1 DEF AnswerIsWhole
<1> QED BY <1>1, <1>2, <1>3, <1>4, <1>5, SyncStands DEF InboxNext

(* A synchronisation that has begun, seen again after rows were added. *)
LEMMA PagesStayJoined == ASSUME InboxInv, [InboxNext]_inboxVars PROVE PagesJoin'
<1>t. InboxTypeOK /\ InboxTypeOK' /\ CursorsAreReached /\ AnswerIsWhole /\ PagesJoin
  BY InboxStaysTyped DEF InboxInv
<1>n. /\ newest \in Nat /\ oldest \in Nat /\ sync.newest \in Nat
      /\ sync.after \in Nat /\ sync.from \in Nat /\ sync.got \subseteq NoteIds
      /\ StoredNotes \subseteq NoteIds /\ StoredNotes' \subseteq NoteIds
      /\ \A n \in NoteIds : n \in Nat /\ n # 0
  <2>1. StoredNotes' \subseteq NoteIds
    BY <1>t DEF InboxTypeOK, StoredNotes
  <2> QED BY <1>t, <2>1, InboxNumbers
<1>1. CASE CloseInbox \/ SyncMerged \/ SyncReplaced \/ SyncFails
  BY <1>1, SyncEnded DEF PagesJoin
<1>5. ASSUME sync' = sync, newest <= newest', newest' \in Nat PROVE PagesJoin'
  <2>1. SUFFICES ASSUME sync.pc # "idle", sync.from # 0 PROVE PagesJoin'
    BY <1>5 DEF PagesJoin
  <2>2. /\ sync.from <= newest /\ sync.next = 0
        /\ \A n \in StoredNotes, g \in sync.got : n > sync.from /\ n <= g => n \in sync.got \cup late
        /\ sync.pc = "ask" =>
             /\ sync.after \in sync.got \cup {sync.from}
             /\ \A g \in sync.got : g <= sync.after
        /\ sync.hasMore =>
             /\ sync.newest \in sync.got
             /\ \A g \in sync.got : g <= sync.newest
    BY <1>t, <2>1 DEF PagesJoin
  <2>5. late \subseteq late' /\ \A n \in StoredNotes' : n \in StoredNotes \/ n \in late' \/ ~GonePast(n)
    <3>1. ~CloseInbox
      BY <1>5, <2>1, SyncEnded
    <3> QED BY <3>1, NewRowsAreLate
  <2>3. ASSUME NEW n \in StoredNotes', NEW g \in sync.got, n > sync.from, n <= g
        PROVE  n \in sync.got \cup late'
    <3>1. n \in Nat /\ g \in Nat
      BY <1>n
    <3>2. CASE n \in StoredNotes
      BY <2>2, <2>3, <2>5, <3>2
    <3>3. CASE ~GonePast(n)
      <4>1. ~(n < g)
        BY <2>2, <2>3, <3>1, <3>3 DEF GonePast
      <4> QED BY <2>3, <3>1, <4>1
    <3> QED BY <2>5, <3>2, <3>3
  <2>4. sync.from <= newest'
    BY <1>5, <1>n, <2>2
  <2> QED BY <1>5, <2>2, <2>3, <2>4 DEF PagesJoin
<1>6. CASE OpenInbox \/ InboxConnects
  <2>1. newest' = newest /\ items' = items /\ sync' = StartSync
    BY <1>6 DEF OpenInbox, InboxConnects, listed
  <2>2. CASE sync.pc # "idle"
    BY <1>5, <1>n, <2>1, <2>2, KeptSync
  <2>3. CASE sync.pc = "idle"
    <3>1. /\ sync'.pc = "ask" /\ sync'.got = {} /\ sync'.hasMore = FALSE /\ sync'.after = sync'.from
          /\ sync'.next = 0
          /\ sync'.from = IF newest # 0 THEN newest ELSE Newest(items)
      BY <1>t, <2>1, <2>3, StartedSync
    <3>2. newest = 0 => items = {}
      <4>1. \A n \in items : n <= newest /\ n \in Nat /\ n # 0
        BY <1>t, InboxNumbers DEF CursorsAreReached
      <4> QED BY <4>1
    <3>3. sync'.from <= newest
      BY <1>n, <3>1, <3>2 DEF Newest
    <3> QED BY <2>1, <3>1, <3>3 DEF PagesJoin
  <2> QED BY <2>2, <2>3
<1>7. CASE SyncServed
  <2>1. SUFFICES ASSUME sync'.from # 0 PROVE PagesJoin'
    BY DEF PagesJoin
  <2>2. /\ sync'.pc = "answer" /\ sync'.from = sync.from
        /\ sync.after # 0 =>
              /\ sync'.got = sync.got \cup After(sync.after)
              /\ sync'.newest = Newest(After(sync.after))
              /\ sync'.hasMore = HasMoreAfter(sync.after) /\ sync'.next = sync.next
    BY <1>7, <1>t, ServedSync
  <2>3. sync.pc = "ask" /\ newest' = newest /\ late' = late /\ StoredNotes' = StoredNotes
    BY <1>7 DEF SyncServed, rows, listed, history, StoredNotes
  <2>4. /\ sync.from <= newest /\ sync.next = 0
        /\ \A n \in StoredNotes, g \in sync.got : n > sync.from /\ n <= g => n \in sync.got \cup late
        /\ sync.after \in sync.got \cup {sync.from}
        /\ \A g \in sync.got : g <= sync.after
    BY <1>t, <2>1, <2>2, <2>3 DEF PagesJoin
  <2>5. sync.after # 0
    BY <1>n, <2>1, <2>2, <2>4
  <2> DEFINE S == {n \in StoredNotes : n > sync.after}
             A == FirstOf(S)
  <2>6. S \subseteq NoteIds
    BY <1>n
  <2>7. /\ sync'.got = sync.got \cup A /\ sync'.newest = Newest(A)
        /\ sync'.hasMore <=> A # S
    BY <2>2, <2>5 DEF After, HasMoreAfter
  <2>8. A \subseteq S /\ (S # {} => A # {}) /\ \A n \in S, g \in A : n <= g => n \in A
    <3> HIDE DEF S
    <3> QED BY <2>6, FirstOfIsWhole
  <2>9. (A # {} => Newest(A) \in A) /\ \A n \in A : n <= Newest(A)
    <3>1. A \in SUBSET Cursors
      BY <2>6, <2>8, NotesAreCursors
    <3> HIDE DEF A
    <3> QED BY <3>1, NewestIsLargest
  <2>10. ASSUME NEW n \in StoredNotes, NEW g \in sync.got \cup A, n > sync.from, n <= g
         PROVE  n \in sync.got \cup A \cup late
    <3>0. n \in Nat /\ g \in Nat
      BY <1>n, <2>6, <2>8
    <3>1. CASE n <= sync.after
      <4>1. CASE sync.after \in sync.got
        BY <2>4, <2>10, <3>1, <4>1
      <4>2. CASE sync.after = sync.from
        BY <1>n, <2>10, <3>0, <3>1, <4>2
      <4> QED BY <2>4, <4>1, <4>2
    <3>2. CASE n > sync.after
      <4>1. n \in S
        BY <3>2
      <4>2. g \notin sync.got
        BY <1>n, <2>4, <2>10, <3>0, <3>2
      <4> QED BY <2>8, <2>10, <4>1, <4>2
    <3> QED BY <1>n, <3>0, <3>1, <3>2
  <2>11. ASSUME A # S
         PROVE  Newest(A) \in sync.got \cup A /\ \A g \in sync.got \cup A : g <= Newest(A)
    <3>1. S # {} /\ A # {}
      BY <2>8, <2>11
    <3>2. Newest(A) \in A /\ Newest(A) > sync.after /\ Newest(A) \in Nat
      BY <1>n, <2>8, <2>9, <3>1
    <3>3. ASSUME NEW g \in sync.got PROVE g <= Newest(A)
      <4>1. g \in Nat /\ g <= sync.after
        BY <1>n, <2>4
      <4> QED BY <1>n, <3>2, <4>1
    <3> QED BY <2>9, <3>2, <3>3
  <2> HIDE DEF A, S
  <2> QED BY <2>2, <2>3, <2>4, <2>5, <2>7, <2>10, <2>11 DEF PagesJoin
<1>8. CASE SyncNextPage
  <2>1. /\ sync'.pc = "ask" /\ sync'.from = sync.from
        /\ sync'.after = sync.newest /\ sync'.got = sync.got /\ sync'.hasMore = FALSE
        /\ sync'.next = sync.next
        /\ sync.pc = "answer" /\ sync.hasMore
    BY <1>8, <1>t, NextPageSync DEF SyncNextPage
  <2>2. newest' = newest /\ late' = late /\ StoredNotes' = StoredNotes
    BY <1>8 DEF SyncNextPage, rows, listed, history, StoredNotes
  <2> QED BY <1>t, <2>1, <2>2 DEF PagesJoin
<1>9. CASE \E n \in NoteIds : NoteEmitted(n)
  <2>1. PICK n \in NoteIds : NoteEmitted(n)
    BY <1>9
  <2>2. newest' = newest \/ newest' = IF n > newest THEN n ELSE newest
    BY <2>1 DEF NoteEmitted
  <2>3. newest <= newest' /\ newest' \in Nat
    BY <1>n, <2>2
  <2>4. sync' = sync
    BY <2>1 DEF NoteEmitted, calls
  <2> QED BY <1>5, <2>3, <2>4
<1>10. CASE \/ \E n \in NoteIds : NoteStored(n)
            \/ InboxDisconnects \/ FlushArriving \/ LoadMore \/ LoadMoreAnswered
            \/ LoadMoreFails \/ ReadAllServed \/ ReadAllAnswered \/ ReadAllFails
            \/ \E n \in Touched : \/ ElsewhereRead(n) \/ ElsewhereDeleted(n)
                                  \/ NoteRead(n) \/ NoteDeleted(n)
            \/ UNCHANGED inboxVars
  <2>1. newest' = newest /\ sync' = sync
    BY <1>10 DEF rows, page, listed, calls, history, inboxVars, NoteStored, InboxDisconnects,
       FlushArriving, LoadMoreFails, ReadAllServed, ReadAllAnswered, ReadAllFails, LoadMore,
       LoadMoreAnswered, ElsewhereRead, ElsewhereDeleted, NoteRead, NoteDeleted
  <2> QED BY <1>5, <1>n, <2>1
<1> QED BY <1>1, <1>6, <1>7, <1>8, <1>9, <1>10 DEF InboxNext

(* Every step keeps an older page joined to the list.                        *)
LEMMA OlderStaysJoined == ASSUME InboxInv, [InboxNext]_inboxVars PROVE OlderJoins'
<1>t. InboxTypeOK /\ InboxTypeOK' /\ CursorsAreReached /\ AnswerIsWhole /\ OlderJoins
  BY InboxStaysTyped DEF InboxInv
<1>n. /\ newest \in Nat /\ oldest \in Nat /\ oldest <= newest
      /\ more.got \subseteq NoteIds /\ more.next \in Nat /\ more.on \in BOOLEAN
      /\ StoredNotes \subseteq NoteIds /\ StoredNotes' \subseteq NoteIds
      /\ \A n \in NoteIds : n \in Nat /\ n # 0
  <2>1. StoredNotes' \subseteq NoteIds
    BY <1>t DEF InboxTypeOK, StoredNotes
  <2> QED BY <1>t, <2>1, InboxNumbers DEF CursorsAreReached
<1>1. CASE LoadMore
  <2> DEFINE S == {n \in StoredNotes : n < oldest}
  <2>1. S \subseteq NoteIds
    BY <1>n
  <2>2. /\ more' = [on |-> TRUE, got |-> Before(S), next |-> NextCursor(S)]
        /\ oldest # 0 /\ oldest' = oldest /\ StoredNotes' = StoredNotes
    BY <1>1 DEF LoadMore, rows, listed, StoredNotes
  <2>3. more'.got = LastOf(S) /\ more'.next = NextCursor(S)
    BY <2>2 DEF Before
  <2>4. /\ LastOf(S) \subseteq S /\ NextCursor(S) \in LastOf(S) \cup {0}
        /\ \A n \in S : n >= NextCursor(S) => n \in LastOf(S)
    <3> HIDE DEF S
    <3> QED BY <2>1, LastOfIsWhole, NextCursorIsWhole
  <2>5. NextCursor(S) <= oldest
    BY <1>n, <2>2, <2>4
  <2>6. \A n \in StoredNotes : n >= NextCursor(S) /\ n < oldest => n \in LastOf(S)
    BY <2>4
  <2>7. \A n \in LastOf(S) : n < oldest
    BY <2>4
  <2> HIDE DEF S
  <2> QED BY <2>2, <2>3, <2>5, <2>6, <2>7 DEF OlderJoins
<1>2. CASE more' = NoMore
  BY <1>2 DEF NoMore, OlderJoins
<1>3. CASE UNCHANGED <<more, oldest>>
  <2>1. SUFFICES ASSUME more.on PROVE OlderJoins'
    BY <1>3 DEF OlderJoins
  <2>2. /\ oldest # 0 /\ more.next <= oldest
        /\ \A n \in more.got : n < oldest
        /\ \A n \in StoredNotes : n >= more.next /\ n < oldest => n \in more.got \cup late
    BY <1>t, <2>1 DEF OlderJoins
  <2>3. CASE ~CloseInbox
    <3>1. late \subseteq late' /\ \A n \in StoredNotes' : n \in StoredNotes \/ n \in late' \/ ~GonePast(n)
      BY <2>3, NewRowsAreLate
    <3>2. ASSUME NEW n \in StoredNotes', n >= more.next, n < oldest PROVE n \in more.got \cup late'
      BY <2>1, <2>2, <3>1, <3>2 DEF GonePast
    <3> QED BY <1>3, <2>2, <3>2 DEF OlderJoins
  <2>4. CASE CloseInbox
    BY <1>2, <2>4 DEF CloseInbox
  <2> QED BY <2>3, <2>4
<1>4. CASE SyncReplaced
  <2>1. ~more.on /\ more' = more
    BY <1>4, <1>t DEF SyncReplaced, SyncEnds, AnswerIsWhole
  <2> QED BY <2>1 DEF OlderJoins
<1>5. CASE SyncMerged \/ SyncFails \/ OpenInbox \/ InboxConnects \/ SyncServed \/ SyncNextPage
  <2>1. UNCHANGED <<more, oldest>>
    BY <1>5 DEF SyncMerged, SyncFails, OpenInbox, InboxConnects, SyncServed, SyncNextPage, SyncEnds, listed
  <2> QED BY <1>3, <2>1
<1>6. CASE CloseInbox
  BY <1>2, <1>6 DEF CloseInbox
<1>7. CASE \/ InboxDisconnects \/ FlushArriving \/ LoadMoreAnswered
           \/ LoadMoreFails \/ ReadAllServed \/ ReadAllAnswered \/ ReadAllFails
           \/ \E n \in NoteIds : NoteStored(n) \/ NoteEmitted(n)
           \/ \E n \in Touched : \/ ElsewhereRead(n) \/ ElsewhereDeleted(n)
                                 \/ NoteRead(n) \/ NoteDeleted(n)
           \/ UNCHANGED inboxVars
  BY <1>1, <1>2, <1>3, <1>7, SyncStands DEF LoadMoreAnswered
<1> QED BY <1>1, <1>4, <1>5, <1>6, <1>7 DEF InboxNext

(* Every step keeps the list without a hole.                                 *)
LEMMA NothingGetsSkipped == ASSUME InboxInv, [InboxNext]_inboxVars PROVE NothingSkipped'
<1> USE DEF rows, page, listed, calls, history
<1>t. InboxTypeOK /\ InboxTypeOK' /\ CursorsAreReached /\ AnswerIsWhole /\ PagesJoin /\ OlderJoins
  BY InboxStaysTyped DEF InboxInv
<1>n. /\ newest \in Nat /\ oldest \in Nat /\ newest \in Cursors /\ oldest <= newest
      /\ sync.got \subseteq NoteIds /\ sync.from \in Nat /\ sync.newest \in Nat
      /\ sync.newest \in Cursors /\ sync.next \in Nat
      /\ StoredNotes \subseteq NoteIds /\ StoredNotes' \subseteq NoteIds
      /\ \A n \in NoteIds : n \in Nat /\ n # 0
  <2>1. StoredNotes' \subseteq NoteIds
    BY <1>t DEF InboxTypeOK, StoredNotes
  <2> QED BY <1>t, <2>1, InboxNumbers DEF CursorsAreReached
<1>k. \A n \in StoredNotes : n >= oldest /\ n <= newest => n \in items \cup arriving \cup passed \cup dropped \cup late
  BY DEF InboxInv, NothingSkipped
<1>1. ASSUME UNCHANGED <<newest, oldest>>, late \subseteq late',
             \A n \in StoredNotes' : n \in items \cup arriving \cup passed \cup dropped
                                       => n \in items' \cup arriving' \cup passed' \cup dropped'
      PROVE  NothingSkipped'
  <2>1. SUFFICES ASSUME NEW n \in StoredNotes', n >= oldest, n <= newest
                 PROVE  n \in items' \cup arriving' \cup passed' \cup dropped' \cup late'
    BY <1>1 DEF NothingSkipped
  <2>2. GonePast(n)
    BY <2>1 DEF GonePast
  <2>3. n \in StoredNotes \/ n \in late'
    BY <2>1, <2>2, NewRowsAreLate
  <2> QED BY <1>1, <1>k, <2>1, <2>3
<1>2. CASE \/ OpenInbox \/ InboxConnects \/ InboxDisconnects
           \/ SyncServed \/ SyncNextPage \/ SyncFails
           \/ LoadMore \/ LoadMoreFails \/ ReadAllServed \/ ReadAllAnswered \/ ReadAllFails
           \/ UNCHANGED inboxVars
  <2>1. UNCHANGED <<newest, oldest, items, arriving, passed, dropped, late>>
    BY <1>2 DEF OpenInbox, InboxConnects, InboxDisconnects, SyncServed, SyncNextPage,
       SyncFails, SyncEnds, LoadMore, LoadMoreFails, ReadAllServed, ReadAllAnswered, ReadAllFails, inboxVars
  <2> QED BY <1>1, <2>1
<1>3. CASE FlushArriving
  BY <1>1, <1>3 DEF FlushArriving
<1>4. CASE \E n \in Touched : \/ ElsewhereRead(n) \/ ElsewhereDeleted(n)
                              \/ NoteRead(n) \/ NoteDeleted(n)
  <2>1. PICK n \in Touched : \/ ElsewhereRead(n) \/ ElsewhereDeleted(n)
                             \/ NoteRead(n) \/ NoteDeleted(n)
    BY <1>4
  <2>2. CASE ElsewhereRead(n) \/ ElsewhereDeleted(n) \/ NoteRead(n)
    <3>1. UNCHANGED <<newest, oldest, items, arriving, passed, dropped, late>>
      BY <2>2 DEF ElsewhereRead, ElsewhereDeleted, NoteRead
    <3> QED BY <1>1, <3>1
  <2>3. CASE NoteDeleted(n)
    <3>1. UNCHANGED <<newest, oldest, arriving, passed, dropped, late>> /\ items \ {n} \subseteq items'
          /\ n \notin StoredNotes'
      BY <2>3 DEF NoteDeleted, StoredNotes
    <3> QED BY <1>1, <3>1
  <2> QED BY <2>1, <2>2, <2>3
<1>5. CASE CloseInbox
  <2>1. CASE saved
    BY <1>1, <1>5, <2>1 DEF CloseInbox
  <2>2. CASE ~saved
    <3>1. newest' = 0
      BY <1>5, <2>2 DEF CloseInbox
    <3>2. \A n \in StoredNotes' : ~(n <= 0)
      BY <1>n
    <3> QED BY <3>1, <3>2 DEF NothingSkipped
  <2> QED BY <2>1, <2>2
<1>6. CASE SyncMerged
  <2>1. sync.from <= newest /\ sync.from # 0
        /\ \A n \in StoredNotes, g \in sync.got : n > sync.from /\ n <= g => n \in sync.got \cup late
    BY <1>6, <1>t DEF SyncMerged, PagesJoin
  <2>2. newest' = Newest({newest} \cup sync.got)
    <3>1. newest # 0
      BY <1>n, <2>1
    <3> QED BY <1>6, <3>1 DEF SyncMerged
  <2>3. newest' \in {newest} \cup sync.got
    BY <1>n, <2>2, MergedCursor
  <2>4. /\ oldest' = oldest /\ items' = items \cup sync.got /\ arriving' = arriving
        /\ passed' = passed \ sync.got /\ dropped' = dropped \ sync.got
        /\ late' = late /\ StoredNotes' = StoredNotes
    BY <1>6 DEF SyncMerged, SyncEnds, StoredNotes
  <2>5. SUFFICES ASSUME NEW n \in StoredNotes, n >= oldest, n <= newest'
                 PROVE  n \in items \cup sync.got \cup arriving \cup (passed \ sync.got)
                                  \cup (dropped \ sync.got) \cup late
    BY <2>4 DEF NothingSkipped
  <2>6. CASE n <= newest
    BY <1>k, <2>5, <2>6
  <2>7. CASE ~(n <= newest)
    <3>1. newest' \in sync.got /\ n > sync.from
      BY <1>n, <2>1, <2>3, <2>5, <2>7
    <3> QED BY <2>1, <2>5, <3>1
  <2> QED BY <2>6, <2>7
<1>7. CASE SyncReplaced
  <2>1. /\ oldest = 0
        /\ \A n \in sync.got : n <= sync.newest
        /\ \A n \in StoredNotes : n >= sync.next /\ n <= sync.newest => n \in sync.got \cup late
    BY <1>7, <1>t DEF SyncReplaced, AnswerIsWhole
  <2>2. PICK c \in Cursors : c = IF newest # 0 THEN newest ELSE sync.newest
    BY <1>n
  <2>3. newest' = Newest({c} \cup sync.got)
    BY <1>7, <2>2 DEF SyncReplaced
  <2>4. newest' \in {c} \cup sync.got
    BY <1>n, <2>3, MergedCursor
  <2>5. /\ oldest' = sync.next /\ items' = sync.got /\ arriving' = arriving
        /\ passed' = passed \ sync.got /\ dropped' = (dropped \cup items) \ sync.got
        /\ late' = late /\ StoredNotes' = StoredNotes
    BY <1>7 DEF SyncReplaced, SyncEnds, StoredNotes
  <2>6. SUFFICES ASSUME NEW n \in StoredNotes, n >= sync.next, n <= newest',
                        n \notin sync.got \cup late
                 PROVE  n \in arriving \cup passed \cup dropped \cup items
    BY <2>5 DEF NothingSkipped
  <2>7. ~(n <= sync.newest) /\ n \in Nat /\ n # 0
    BY <1>n, <2>1, <2>6
  <2>8. n <= newest
    <3>1. newest' \notin sync.got
      <4>1. ASSUME newest' \in sync.got PROVE FALSE
        <5>1. newest' <= sync.newest /\ newest' \in Nat
          BY <1>n, <2>1, <4>1
        <5> QED BY <1>n, <2>6, <2>7, <5>1
      <4> QED BY <4>1
    <3>2. newest' = c
      BY <2>4, <3>1
    <3> QED BY <2>2, <2>6, <2>7, <3>2
  <2>9. n >= oldest
    BY <2>1, <2>7
  <2> QED BY <1>k, <2>6, <2>8, <2>9
<1>8. CASE LoadMoreAnswered
  <2>1. \A n \in StoredNotes : n >= more.next /\ n < oldest => n \in more.got \cup late
    BY <1>8, <1>t DEF LoadMoreAnswered, OlderJoins
  <2>2. /\ newest' = newest /\ oldest' = more.next /\ items' = items \cup more.got
        /\ UNCHANGED <<arriving, passed, dropped, late>> /\ StoredNotes' = StoredNotes
    BY <1>8 DEF LoadMoreAnswered, StoredNotes
  <2>3. SUFFICES ASSUME NEW n \in StoredNotes, n >= more.next, n <= newest
                 PROVE  n \in items \cup more.got \cup arriving \cup passed \cup dropped \cup late
    BY <2>2 DEF NothingSkipped
  <2>4. n >= oldest \/ n < oldest
    BY <1>n
  <2> QED BY <1>k, <2>1, <2>3, <2>4
<1>9. ASSUME NEW i \in NoteIds, NoteEmitted(i) PROVE NothingSkipped'
  <2>1. CASE visiting /\ connected
    <3>1. /\ arriving' = arriving \cup {i} /\ newest' = IF i > newest THEN i ELSE newest
          /\ passed' = (passed \cup {m \in StoredNotes : m < i /\ m > newest}) \ (items \cup arriving')
          /\ UNCHANGED <<oldest, items, dropped, late>> /\ StoredNotes' = StoredNotes
      BY <1>9, <2>1 DEF NoteEmitted, StoredNotes
    <3>2. SUFFICES ASSUME NEW n \in StoredNotes, n >= oldest, n <= newest'
                   PROVE  n \in items \cup arriving' \cup passed' \cup dropped \cup late
      BY <3>1 DEF NothingSkipped
    <3>3. CASE n <= newest
      BY <1>k, <3>1, <3>2, <3>3
    <3>4. CASE ~(n <= newest)
      <4>1. n \in Nat /\ i \in Nat
        BY <1>n
      <4>2. n > newest /\ (n < i \/ n = i)
        BY <1>n, <3>1, <3>2, <3>4, <4>1
      <4> QED BY <3>1, <3>2, <4>2
    <3> QED BY <3>3, <3>4
  <2>2. CASE ~(visiting /\ connected)
    <3>1. UNCHANGED <<newest, oldest, items, arriving, passed, dropped, late>>
      BY <1>9, <2>2 DEF NoteEmitted
    <3> QED BY <1>1, <3>1
  <2> QED BY <2>1, <2>2
<1>10. ASSUME NEW i \in NoteIds, NoteStored(i) PROVE NothingSkipped'
  <2>1. UNCHANGED <<newest, oldest, items, arriving, passed, dropped>> /\ late \subseteq late'
    BY <1>10 DEF NoteStored
  <2> QED BY <1>1, <2>1
<1> QED BY <1>2, <1>3, <1>4, <1>5, <1>6, <1>7, <1>8, <1>9, <1>10 DEF InboxNext

(* The invariant holds at first.                                             *)
LEMMA InboxStarts == InboxInit => InboxInv
<1> SUFFICES ASSUME InboxInit PROVE InboxInv
  OBVIOUS
<1>1. InboxTypeOK
  BY InboxTyped
<1>2. CursorsAreReached
  BY NoSyncIsIdle DEF InboxInit, CursorsAreReached
<1>3. AnswerIsWhole /\ PagesJoin
  BY NoSyncIsIdle DEF InboxInit, AnswerIsWhole, PagesJoin
<1>4. OlderJoins
  BY DEF InboxInit, OlderJoins, NoMore
<1>5. NothingSkipped
  <2>1. StoredNotes = {}
    BY DEF InboxInit, StoredNotes
  <2> QED BY <2>1 DEF NothingSkipped
<1> QED BY <1>1, <1>2, <1>3, <1>4, <1>5 DEF InboxInv

(* Every step keeps the invariant.                                           *)
LEMMA InboxKept == InboxInv /\ [InboxNext]_inboxVars => InboxInv'
<1> SUFFICES ASSUME InboxInv, [InboxNext]_inboxVars PROVE InboxInv'
  OBVIOUS
<1>1. InboxTypeOK'
  BY InboxStaysTyped DEF InboxInv
<1> QED BY <1>1, CursorsStayReached, AnswerStaysWhole, PagesStayJoined, OlderStaysJoined,
           NothingGetsSkipped DEF InboxInv

(* Between its two cursors the notifications page lists every stored          *)
(* notification, or is about to, unless a socket event moved the cursor over  *)
(* it, the page lost it with its list, or its row appeared when the page had  *)
(* already gone past it: however many there are, in whatever order their rows *)
(* appear, whatever the page's size, and however pages, events, deletions,    *)
(* failures and visits follow each other (app/notifications/page.tsx          *)
(* syncNotifications).                                                        *)
THEOREM ListHasNoHoles == InboxSpec => []NothingSkipped
<1>1. InboxInv => NothingSkipped
  BY DEF InboxInv
<1> QED BY <1>1, InboxStarts, InboxKept, PTL DEF InboxSpec

=============================================================================
