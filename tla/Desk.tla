-------------------------------- MODULE Desk --------------------------------
(***************************************************************************)
(* One page of the administrator's desk: the queue of submissions with its *)
(* filter, the page of one submission, or that of one home, over the row   *)
(* the page is about, which other administrators decide as well.           *)
(***************************************************************************)
EXTENDS Integers, FiniteSets

CONSTANTS
  Reasons,     \* what may be typed as a reason
  NoText,      \* the empty text
  NoRow,       \* no row, no verdict
  MaxDeskLoads,  \* bound: loads of the page
  MaxOthers      \* bound: changes of the row by others

ASSUME DeskAssumption ==
  NoText \notin Reasons /\ MaxDeskLoads \in Nat \ {0} /\ MaxOthers \in Nat

VARIABLES
  place,     \* the page that is open: "queue", "case", "home", "login"
  row,       \* admin_review_queue or listings: status (PENDING: also SUBMITTED and
             \* UNDER_REVIEW; APPROVED: also VERIFIED) and rejectionReason
  recorded,  \* history: the decisions the row has taken
  shown,     \* review, home, or the only row of items
  typed,     \* reason
  loading, action, confirm, filter,   \* confirm: confirmAction; filter: statusFilter
  error,     \* the message: "none", "reason", "failed"
  loads,     \* calls of load under way
  verdict,   \* the decision under way
  loaded, others   \* loads and changes by others so far

deskVars == <<place, row, recorded, shown, typed, loading, action, confirm, filter, error,
              loads, verdict, loaded, others>>

Decisions == {"APPROVED", "REJECTED"}
DeskRow == [status : Decisions \cup {"PENDING"}, reason : Reasons \cup {NoText}]
Pending == [status |-> "PENDING", reason |-> NoText]
LoadCall == [number : 1..MaxDeskLoads, wants : Decisions \cup {"PENDING"},
             stage : {"asked", "served", "media"}, seen : DeskRow \cup {NoRow},
             awaited : BOOLEAN]     \* a decision waits for it
Verdict == [status : Decisions, reason : Reasons \cup {NoText},
            stage : {"sent", "accepted", "refused"}]

(* What the row keeps of a decision: the reason of a rejected home goes into *)
(* the audit log and the provider's notification only.                       *)
Kept(s, r) == [status |-> s, reason |-> IF place = "case" /\ s = "REJECTED" THEN r ELSE NoText]

Decidable == ~loading /\ shown # NoRow /\ shown.status = "PENDING" /\ place # "queue"

-----------------------------------------------------------------------------
(* load: on the page of a submission it clears the message at once. *)
StartLoad(wants, waits) ==
  /\ loaded < MaxDeskLoads /\ loaded' = loaded + 1
  /\ loads' = loads \cup {[number |-> loaded', wants |-> wants, stage |-> "asked",
                            seen |-> NoRow, awaited |-> waits]}
  /\ loading' = TRUE /\ error' = "none"

(* The buttons "Retry" and "Retry media access" of a submission whose file   *)
(* could not be resolved; they work also while a decision is under way.      *)
RetryMedia ==
  /\ place = "case" /\ ~loading /\ shown # NoRow /\ confirm = NoRow
  /\ StartLoad(filter, FALSE)
  /\ UNCHANGED <<place, row, recorded, shown, typed, action, confirm, filter, verdict, others>>

(* The queue is loaded again by its button and by every choice of a filter.  *)
ChangeFilter(s) ==
  /\ place = "queue"
  /\ filter' = s
  /\ StartLoad(s, FALSE)
  /\ UNCHANGED <<place, row, recorded, shown, typed, action, confirm, verdict, others>>

(* getReviewQueue, listReviewQueue, the home for administrators. *)
LoadServed(l) ==
  /\ l.stage = "asked"
  /\ loads' = (loads \ {l}) \cup {[l EXCEPT !.stage = "served",
       !.seen = IF place = "queue" /\ row.status # l.wants THEN NoRow ELSE row]}
  /\ UNCHANGED <<place, row, recorded, shown, typed, loading, action, confirm, filter, error,
                 verdict, loaded, others>>

(* The queue and the row are shown as they were read; a page then waits for  *)
(* the addresses of its files.                                               *)
LoadArrives(l) ==
  /\ l.stage = "served"
  /\ shown' = l.seen
  /\ IF place = "queue"
     THEN loads' = loads \ {l} /\ loading' = FALSE
     ELSE loads' = (loads \ {l}) \cup {[l EXCEPT !.stage = "media"]} /\ UNCHANGED loading
  /\ typed' = IF place = "case" THEN l.seen.reason ELSE typed
  /\ UNCHANGED <<place, row, recorded, action, confirm, filter, error, verdict, loaded, others>>

(* The decision that waited for this load is over, too. *)
LoadEnds(l) ==
  /\ loading' = FALSE
  /\ loads' = loads \ {l}
  /\ action' = IF l.awaited THEN NoRow ELSE action

LoadMediaDone(l) ==
  /\ l.stage = "media"
  /\ LoadEnds(l)
  /\ UNCHANGED <<place, row, recorded, shown, typed, confirm, filter, error, verdict, loaded,
                 others>>

LoadFailed(l) ==
  /\ l.stage # "media"
  /\ error' = "failed"
  /\ LoadEnds(l)
  /\ UNCHANGED <<place, row, recorded, shown, typed, confirm, filter, verdict, loaded, others>>

-----------------------------------------------------------------------------
TypeReason(r) ==
  /\ Decidable /\ confirm = NoRow
  /\ typed' = r
  /\ UNCHANGED <<place, row, recorded, shown, loading, action, confirm, filter, error, loads,
                 verdict, loaded, others>>

(* The buttons Approve and Reject; a home wants its reason first. *)
ChooseVerdict(s) ==
  /\ Decidable /\ confirm = NoRow /\ action = NoRow
  /\ IF place = "home" /\ s = "REJECTED" /\ typed = NoText
     THEN error' = "reason" /\ UNCHANGED confirm
     ELSE confirm' = s /\ UNCHANGED error
  /\ UNCHANGED <<place, row, recorded, shown, typed, loading, action, filter, loads, verdict,
                 loaded, others>>

CancelVerdict ==
  /\ confirm # NoRow /\ ~loading
  /\ place = "home" => action = NoRow
  /\ confirm' = NoRow
  /\ UNCHANGED <<place, row, recorded, shown, typed, loading, action, filter, error, loads,
                 verdict, loaded, others>>

(* decide: the dialog of a submission closes before the request is sent,     *)
(* that of a home when it is answered.                                       *)
ConfirmVerdict ==
  /\ confirm # NoRow /\ ~loading /\ action = NoRow
  /\ ~(confirm = "REJECTED" /\ typed = NoText)
  /\ action' = confirm
  /\ error' = "none"
  /\ verdict' = [status |-> confirm, stage |-> "sent",
                 reason |-> IF confirm = "REJECTED" THEN typed ELSE NoText]
  /\ confirm' = IF place = "case" THEN NoRow ELSE confirm
  /\ UNCHANGED <<place, row, recorded, shown, typed, loading, filter, loads, loaded, others>>

(* reviewSubmission and reviewListing decide what is pending; a submission   *)
(* may be refused for other reasons (409) too.                               *)
VerdictServed ==
  /\ verdict # NoRow /\ verdict.stage = "sent"
  /\ \/ /\ row.status = "PENDING"
        /\ row' = Kept(verdict.status, verdict.reason)
        /\ recorded' = recorded \cup {row'}
        /\ verdict' = [verdict EXCEPT !.stage = "accepted"]
     \/ /\ row.status = "PENDING" => place = "case" /\ verdict.status = "APPROVED"
        /\ verdict' = [verdict EXCEPT !.stage = "refused"]
        /\ UNCHANGED <<row, recorded>>
  /\ UNCHANGED <<place, shown, typed, loading, action, confirm, filter, error, loads, loaded,
                 others>>

LeaveDesk == place' = "login" /\ shown' = NoRow /\ confirm' = NoRow

(* A mutant: a conflict is taken for an answer. *)
VerdictAnsweredAnyhow ==
  /\ verdict # NoRow /\ verdict.stage # "sent"
  /\ shown' = Kept(verdict.status, verdict.reason)
  /\ confirm' = NoRow /\ action' = NoRow /\ verdict' = NoRow
  /\ error' = "none"
  /\ UNCHANGED <<place, row, recorded, typed, loading, filter, loads, loaded, others>>

(* The answer is merged with (a home: replaces) what is shown.  A refused    *)
(* decision loads the submission again, and load removes the message that    *)
(* says why; a home's refusal is a 403, which sends the administrator to the *)
(* login page.                                                               *)
VerdictAnswered ==
  /\ verdict # NoRow /\ verdict.stage # "sent"
  /\ verdict' = NoRow
  /\ IF verdict.stage = "accepted"
     THEN /\ shown' = Kept(verdict.status, verdict.reason)
          /\ confirm' = IF place = "home" THEN NoRow ELSE confirm
          /\ action' = NoRow
          /\ error' = IF place = "home" THEN "none" ELSE error
          /\ UNCHANGED <<place, loading, loads, loaded>>
     ELSE IF place = "case"
     THEN StartLoad(filter, TRUE) /\ UNCHANGED <<place, shown, confirm, action>>
     ELSE LeaveDesk /\ UNCHANGED <<action, error, loading, loads, loaded>>
  /\ UNCHANGED <<row, recorded, typed, filter, others>>

(* A lost request or answer, or an error after the decision was stored (its  *)
(* notifications could not be sent).                                         *)
VerdictFails ==
  /\ verdict # NoRow
  /\ verdict' = NoRow /\ action' = NoRow /\ error' = "failed"
  /\ UNCHANGED <<place, row, recorded, shown, typed, loading, confirm, filter, loads, loaded,
                 others>>

(* A call is answered with 401 or 403. *)
SessionEnds ==
  /\ loads # {} \/ verdict # NoRow
  /\ LeaveDesk
  /\ loads' = {} /\ verdict' = NoRow
  /\ UNCHANGED <<row, recorded, typed, loading, action, filter, error, loaded, others>>

-----------------------------------------------------------------------------
(* Another administrator decides; a provider submits a rejected home again.  *)
OtherDecides(s, r) ==
  /\ place # "login" /\ row.status = "PENDING"
  /\ others < MaxOthers /\ others' = others + 1
  /\ row' = Kept(s, r)
  /\ recorded' = recorded \cup {row'}
  /\ UNCHANGED <<place, shown, typed, loading, action, confirm, filter, error, loads, verdict,
                 loaded>>

Resubmitted ==
  /\ place = "home" /\ row.status = "REJECTED"
  /\ others < MaxOthers /\ others' = others + 1
  /\ row' = Pending
  /\ UNCHANGED <<place, recorded, shown, typed, loading, action, confirm, filter, error, loads,
                 verdict, loaded>>

-----------------------------------------------------------------------------
DeskInit ==
  /\ place \in {"queue", "case", "home"}
  /\ row = Pending /\ recorded = {} /\ shown = NoRow
  /\ typed = NoText /\ loading = TRUE /\ action = NoRow /\ confirm = NoRow
  /\ filter = "PENDING" /\ error = "none"
  /\ loads = {[number |-> 1, wants |-> "PENDING", stage |-> "asked", seen |-> NoRow,
               awaited |-> FALSE]}
  /\ verdict = NoRow /\ loaded = 1 /\ others = 0

DeskNext ==
  \/ RetryMedia \/ CancelVerdict \/ ConfirmVerdict \/ SessionEnds \/ Resubmitted
  \/ \E s \in Decisions \cup {"PENDING"} : ChangeFilter(s)
  \/ \E s \in Decisions : ChooseVerdict(s)
  \/ \E r \in Reasons \cup {NoText} : TypeReason(r)
  \/ \E s \in Decisions, r \in Reasons : OtherDecides(s, r)
  \/ VerdictServed \/ VerdictAnswered \/ VerdictFails
  \/ \E l \in loads : LoadServed(l) \/ LoadArrives(l) \/ LoadMediaDone(l) \/ LoadFailed(l)

DeskSpec == DeskInit /\ [][DeskNext]_deskVars

-----------------------------------------------------------------------------
(* Page, row and calls have their types. *)
DeskTypeOK ==
  /\ place \in {"queue", "case", "home", "login"}
  /\ row \in DeskRow /\ recorded \subseteq DeskRow /\ shown \in DeskRow \cup {NoRow}
  /\ typed \in Reasons \cup {NoText} /\ loading \in BOOLEAN
  /\ {action, confirm} \subseteq Decisions \cup {NoRow}
  /\ filter \in Decisions \cup {"PENDING"} /\ error \in {"none", "reason", "failed"}
  /\ loads \subseteq LoadCall /\ verdict \in Verdict \cup {NoRow}
  /\ loaded \in 0..MaxDeskLoads /\ others \in 0..MaxOthers

(* A page that shows a decision, with its reason, shows one that was         *)
(* recorded, however this administrator's request, the other's, lost answers *)
(* and late loads follow each other (reviews/[id]/page.tsx decide).          *)
DecisionShownIsRecorded ==
  shown # NoRow /\ shown.status \in Decisions => shown \in recorded

(* The list is that of the chosen filter.  The code does not hold it: the    *)
(* answer for an earlier choice may come last (admin/page.tsx load).         *)
ListFitsFilter ==
  place = "queue" /\ loads = {} /\ error = "none" /\ shown # NoRow => shown.status = filter

(* A decision that was answered is not forgotten.  The code does not hold    *)
(* it: a load begun before it may show the submission as pending again.      *)
AnswerStands ==
  [][place = "case" /\ shown # NoRow /\ shown.status \in Decisions => shown' = shown]_deskVars

=============================================================================
