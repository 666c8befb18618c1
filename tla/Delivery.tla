------------------------------ MODULE Delivery ------------------------------
(***************************************************************************)
(* Notifications and e-mails on their way through the job queue:           *)
(* QueueService.send and its workers, NotificationsService.enqueue,        *)
(* NotificationsProcessor.deliver, EmailProcessor, the administrator's     *)
(* message (AdminService.sendAdminNotification), and the user who reads or *)
(* deletes what has arrived.                                               *)
(*                                                                         *)
(* A message is one (user, dedupeKey) pair or one e-mail key.  Whether the *)
(* queue is started is module Startup's; here a process that sends finds   *)
(* it usable or not.                                                       *)
(***************************************************************************)
EXTENDS Naturals, FiniteSets

CONSTANTS
  Notes,       \* notifications, each a (user, dedupeKey)
  AdminNotes,  \* those an administrator wrote: their row is stored first
  Mails,       \* e-mails, each a singleton key
  Workers,     \* handlers that run at a time, of any process
  Attempts,    \* Attempts[k]: 8 for a notification, 5 for an e-mail
  MaxAsks,     \* bound: MaxAsks[k] requests to deliver a message
  MaxCrashes   \* bound: handlers that die or outlive their 30 minutes

Messages == Notes \cup Mails

ASSUME DeliveryAssumption ==
  /\ AdminNotes \subseteq Notes /\ Notes \cap Mails = {} /\ IsFiniteSet(Workers)
  /\ Attempts \in [Messages -> Nat \ {0}]
  /\ MaxAsks \in [Messages -> Nat] /\ MaxCrashes \in Nat

VARIABLES
  job,      \* pgboss.job: the row of each message's key, and the tries it has had
  worker,   \* what each handler is doing
  row,      \* notifications: "none" yet, "unread", "read", or "deleted"
  written,  \* an administrator's request that has stored its row and not asked yet
  asked,    \* requests to deliver so far
  emitted,  \* notification:new events sent to the user's sockets
  mailed,   \* e-mails Brevo has accepted
  deletes,  \* rows the user has deleted
  crashes   \* handlers that have died or expired

vars == <<job, worker, row, written, asked, emitted, mailed, deletes, crashes>>
user == <<row, written, deletes>>
out  == <<emitted, mailed>>

JobState == {"none", "waiting", "active", "done", "dead"}
Pc == {"idle", "create", "load", "mail", "end"}
Note(k) == k \in Notes

(* A handler: what it does next, for which message, whether its createMany   *)
(* stored the row, and whether pg-boss still counts it as the job's handler. *)
Handler == [pc : Pc, for : Messages \cup {"none"}, fresh : BOOLEAN, mine : BOOLEAN]
Idle == [pc |-> "idle", for |-> "none", fresh |-> FALSE, mine |-> FALSE]

-----------------------------------------------------------------------------
(* send: the key of a job blocks another one until its row is deleted. *)

(* A mutant: the retries come on top of the attempts. *)
RetryLimitWhole(k) == Attempts[k]

RetryLimit(k) == Attempts[k] - 1

(* A mutant: the key is left out. *)
SendKeyless(k) == job' = [job EXCEPT ![k] = [state |-> "waiting", tries |-> 0]]

Send(k) ==
  IF job[k].state = "none"
  THEN job' = [job EXCEPT ![k] = [state |-> "waiting", tries |-> 0]]
  ELSE UNCHANGED job

(* enqueue and enqueueEmail: a queue that is not usable is logged, and the   *)
(* caller goes on.                                                           *)
Enqueue(k) ==
  /\ asked[k] < MaxAsks[k]
  /\ asked' = [asked EXCEPT ![k] = @ + 1]
  /\ Send(k) \/ UNCHANGED job
  /\ UNCHANGED <<worker, out, crashes>>

Ask(k) ==
  /\ k \notin AdminNotes
  /\ Enqueue(k)
  /\ UNCHANGED user

(* sendAdminNotification: a repeated key is answered; a new one is stored    *)
(* and then asked for.  (A process that stops in between leaves what an      *)
(* unusable queue leaves.)                                                   *)
AdminWrite(k) ==
  /\ k \in AdminNotes /\ ~written[k]
  /\ asked[k] < MaxAsks[k]
  /\ row[k] \in {"none", "deleted"}
  /\ row' = [row EXCEPT ![k] = "unread"]
  /\ written' = [written EXCEPT ![k] = TRUE]
  /\ UNCHANGED <<job, worker, asked, out, deletes, crashes>>

AdminAsk(k) ==
  /\ written[k]
  /\ written' = [written EXCEPT ![k] = FALSE]
  /\ Enqueue(k)
  /\ UNCHANGED <<row, deletes>>

-----------------------------------------------------------------------------
(* The worker loop of pg-boss around the handler. *)

Stored(k) == row[k] \in {"unread", "read"}

Fetch(w) ==
  /\ worker[w].pc = "idle"
  /\ \E k \in Messages :
       /\ job[k].state = "waiting"
       /\ job' = [job EXCEPT ![k] = [state |-> "active", tries |-> @.tries + 1]]
       /\ worker' = [worker EXCEPT ![w] =
            [Idle EXCEPT !.pc = IF Note(k) THEN "create" ELSE "mail",
                         !.for = k, !.mine = TRUE]]
  /\ UNCHANGED <<user, asked, out, crashes>>

(* A mutant: a job that fails for the last time counts as done. *)
AfterFailureDone(j, k) ==
  IF j.tries <= RetryLimit(k) THEN [j EXCEPT !.state = "waiting"]
                              ELSE [j EXCEPT !.state = "done"]

(* A try that fails is repeated later, or the job goes to the dead letters. *)
AfterFailure(j, k) ==
  IF j.tries <= RetryLimit(k) THEN [j EXCEPT !.state = "waiting"]
                              ELSE [j EXCEPT !.state = "dead"]

(* The handler ends: pg-boss is told, unless it has given the job up. *)
Report(w, j) ==
  LET k == worker[w].for IN
  /\ job' = IF worker[w].mine THEN [job EXCEPT ![k] = j] ELSE job
  /\ worker' = [worker EXCEPT ![w] = Idle]

Fails(w) ==
  /\ Report(w, AfterFailure(job[worker[w].for], worker[w].for))
  /\ UNCHANGED <<user, asked, out, crashes>>

Goto(w, pc) == worker' = [worker EXCEPT ![w].pc = pc] /\ UNCHANGED <<job, asked, crashes>>

-----------------------------------------------------------------------------
(* deliver *)

(* A mutant: a row that is there is written again, unread. *)
CreateOverwrites(w) ==
  LET k == worker[w].for IN
  /\ worker[w].pc = "create"
  /\ row' = [row EXCEPT ![k] = "unread"]
  /\ worker' = [worker EXCEPT ![w].pc = "load", ![w].fresh = ~Stored(k)]
  /\ UNCHANGED <<job, asked, out, written, deletes, crashes>>

(* createMany with skipDuplicates *)
Create(w) ==
  LET k == worker[w].for IN
  /\ worker[w].pc = "create"
  /\ row' = IF Stored(k) THEN row ELSE [row EXCEPT ![k] = "unread"]
  /\ worker' = [worker EXCEPT ![w].pc = "load", ![w].fresh = ~Stored(k)]
  /\ UNCHANGED <<job, asked, out, written, deletes, crashes>>

(* A mutant: the event is sent whether or not the row is new. *)
LoadAlwaysEmits(w) ==
  LET k == worker[w].for IN
  /\ worker[w].pc = "load"
  /\ \/ /\ Stored(k)
        /\ emitted' = [emitted EXCEPT ![k] = @ + 1]
        /\ Goto(w, "end")
        /\ UNCHANGED <<user, mailed>>
     \/ ~Stored(k) /\ Fails(w)

(* The row is loaded, which fails if the user has deleted it meanwhile, and  *)
(* the event is sent if this handler stored the row.  Then phones are told;  *)
(* what fails there is logged, but for the look-up of the phones (Throw).    *)
Load(w) ==
  LET k == worker[w].for IN
  /\ worker[w].pc = "load"
  /\ \/ /\ Stored(k)
        /\ emitted' = IF worker[w].fresh THEN [emitted EXCEPT ![k] = @ + 1] ELSE emitted
        /\ Goto(w, "end")
        /\ UNCHANGED <<user, mailed>>
     \/ ~Stored(k) /\ Fails(w)

(* EmailProcessor: Brevo accepts the mail; what it answers may get lost. *)
Mail(w) ==
  LET k == worker[w].for IN
  /\ worker[w].pc = "mail"
  /\ mailed' = [mailed EXCEPT ![k] = @ + 1]
  /\ Goto(w, "end")
  /\ UNCHANGED <<user, emitted>>

End(w) ==
  /\ worker[w].pc = "end"
  /\ Report(w, [job[worker[w].for] EXCEPT !.state = "done"])
  /\ UNCHANGED <<user, asked, out, crashes>>

(* Brevo or the database refuses, or an answer is lost. *)
Throw(w) == worker[w].pc \in {"create", "load", "mail", "end"} /\ Fails(w)

-----------------------------------------------------------------------------
(* Handlers that do not report *)

(* The process dies: the job stays active until it expires. *)
Crash(w) ==
  /\ worker[w].pc # "idle" /\ crashes < MaxCrashes
  /\ worker' = [worker EXCEPT ![w] = Idle]
  /\ crashes' = crashes + 1
  /\ UNCHANGED <<job, user, asked, out>>

Held(k) == \E w \in Workers : worker[w].for = k /\ worker[w].mine

(* A mutant: a job whose process died is not looked for. *)
ExpireNone(k) == FALSE /\ UNCHANGED vars

(* expireInSeconds: half an hour after its start an active job has failed. *)
Expire(k) ==
  /\ job[k].state = "active" /\ ~Held(k)
  /\ job' = [job EXCEPT ![k] = AfterFailure(@, k)]
  /\ UNCHANGED <<worker, user, asked, out, crashes>>

(* ... and its handler, if it is only slow, goes on. *)
Outlive(w) ==
  LET k == worker[w].for IN
  /\ worker[w].mine /\ crashes < MaxCrashes
  /\ job' = [job EXCEPT ![k] = AfterFailure(@, k)]
  /\ worker' = [worker EXCEPT ![w].mine = FALSE]
  /\ crashes' = crashes + 1
  /\ UNCHANGED <<user, asked, out>>

(* deleteAfterSeconds: the row of a job that has ended is deleted, an hour   *)
(* (e-mails) or a week later, and its key blocks nothing any more.           *)
Purge(k) ==
  /\ job[k].state \in {"done", "dead"}
  /\ job' = [job EXCEPT ![k] = [state |-> "none", tries |-> 0]]
  /\ UNCHANGED <<worker, user, asked, out, crashes>>

-----------------------------------------------------------------------------
(* The user: markRead and markAllRead, deleteNotification. *)

Read(k) ==
  /\ row[k] = "unread"
  /\ row' = [row EXCEPT ![k] = "read"]
  /\ UNCHANGED <<job, worker, written, asked, out, deletes, crashes>>

Delete(k) ==
  /\ Stored(k)
  /\ row' = [row EXCEPT ![k] = "deleted"]
  /\ deletes' = [deletes EXCEPT ![k] = @ + 1]
  /\ UNCHANGED <<job, worker, written, asked, out, crashes>>

-----------------------------------------------------------------------------
Init ==
  /\ job = [k \in Messages |-> [state |-> "none", tries |-> 0]]
  /\ worker = [w \in Workers |-> Idle]
  /\ row = [k \in Notes |-> "none"]
  /\ written = [k \in Notes |-> FALSE]
  /\ asked = [k \in Messages |-> 0]
  /\ emitted = [k \in Notes |-> 0]
  /\ mailed = [k \in Mails |-> 0]
  /\ deletes = [k \in Notes |-> 0]
  /\ crashes = 0

Handle(w) == Fetch(w) \/ Create(w) \/ Load(w) \/ Mail(w) \/ End(w)

Next ==
  \/ \E k \in Messages : Ask(k) \/ Expire(k) \/ Purge(k)
  \/ \E k \in Notes : AdminWrite(k) \/ AdminAsk(k) \/ Read(k) \/ Delete(k)
  \/ \E w \in Workers : Handle(w) \/ Throw(w) \/ Crash(w) \/ Outlive(w)

Spec == Init /\ [][Next]_vars

(* Workers poll every two seconds and pg-boss's own maintenance expires what *)
(* they leave behind: each goes on as long as it can.  Nothing promises that *)
(* anybody asks, that Brevo answers, or that rows are purged.                *)
Fairness ==
  /\ \A w \in Workers : WF_vars(Handle(w))
  /\ \A k \in Messages : WF_vars(Expire(k))

FairSpec == Spec /\ Fairness

-----------------------------------------------------------------------------
(* The types of the variables; no job runs more often than its attempts. *)
DeliveryTypeOK ==
  /\ job \in [Messages -> [state : JobState, tries : Nat]] /\ asked \in [Messages -> Nat]
  /\ \A k \in Messages : job[k].tries <= Attempts[k] /\ asked[k] <= MaxAsks[k]
  /\ worker \in [Workers -> Handler]
  /\ row \in [Notes -> {"none", "unread", "read", "deleted"}]
  /\ written \in [Notes -> BOOLEAN]
  /\ emitted \in [Notes -> Nat] /\ mailed \in [Mails -> Nat]
  /\ deletes \in [Notes -> Nat] /\ crashes \in 0..MaxCrashes

(* Retries, repeated requests, handlers that outlive their job and run beside *)
(* its next try: the user's sockets get one event per stored row at most.     *)
EmittedOncePerRow == \A k \in Notes : emitted[k] <= 1 + deletes[k]

(* A notification job that ended without storing its row is a dead letter,    *)
(* and so is an e-mail job that ended before Brevo took the mail.             *)
EndedWithoutTraceIsDead ==
  /\ \A k \in Notes : job[k].state = "done" => row[k] # "none"
  /\ \A k \in Mails : job[k].state = "done" => mailed[k] > 0

(* One job of a message has one handler pg-boss counts, and a message that    *)
(* waits has none.                                                            *)
OneHandlerPerJob ==
  /\ \A w, v \in Workers :
       worker[w].mine /\ worker[v].mine /\ worker[w].for = worker[v].for => w = v
  /\ \A w \in Workers : worker[w].mine => job[worker[w].for].state = "active"

(* Nothing that is delivered again makes a read notification unread.          *)
ReadStaysRead ==
  [][\A k \in Notes : row[k] = "read" => row'[k] \in {"read", "deleted"}]_vars

(* A job that has been accepted ends, delivered or a dead letter.             *)
AcceptedEnds ==
  \A k \in Messages :
    job[k].state \in {"waiting", "active"} ~> job[k].state \notin {"waiting", "active"}

(* sendAdminNotification promises a real-time notification; the row it stores *)
(* first makes the worker take the message for a repetition.                  *)
AdminMessageIsEmitted ==
  \A k \in AdminNotes : job[k].state = "done" /\ deletes[k] = 0 => emitted[k] > 0

(* A notification that is stored is announced.  A handler that fails between  *)
(* the two breaks it: its next try takes the row for a repetition.            *)
StoredIsEmitted ==
  \A k \in Notes \ AdminNotes : job[k].state = "done" /\ deletes[k] = 0 => emitted[k] > 0

(* What the user has deleted stays deleted.  The next try of a job that has   *)
(* not ended stores it again.                                                 *)
DeletedStaysDeleted ==
  [][\A k \in Notes \ AdminNotes : row[k] = "deleted" => row'[k] = "deleted"]_vars

(* No e-mail is sent more often than it was asked for.  A lost answer breaks  *)
(* it.                                                                        *)
MailedOncePerRequest == \A k \in Mails : mailed[k] <= asked[k]

=============================================================================
