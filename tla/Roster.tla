------------------------------- MODULE Roster -------------------------------
(***************************************************************************)
(* What administrators do with accounts: the list of users with its        *)
(* filters, the history of the messages sent to one user, both read page   *)
(* by page by offset, and the dialog that sends such a message.            *)
(***************************************************************************)
EXTENDS Integers, FiniteSets

CONSTANTS
  PageRows,      \* take: rows of one page
  MaxRows,       \* bound: rows of the list
  MaxListLoads,  \* bound: loads of the list
  MaxMessages    \* bound: messages composed, and messages sent

ASSUME RosterAssumption ==
  /\ PageRows \in Nat \ {0} /\ {MaxRows, MaxListLoads, MaxMessages} \subseteq Nat

VARIABLES
  view,      \* "users", or of the page of one user its "history" or its "dialog", which
             \* touch no state of each other
  rows,      \* how many rows it has; the newest has the highest number and comes first
  listed,    \* users, items
  cursor, more,   \* nextCursor; skip and hasMore
  loadingMore,
  picked,    \* the filters and the search: "all" or "some" rows (here: the even ones)
  sought,    \* the filters of the address
  under, base,   \* history: the filters the list was last loaded with, and the rows there were
  pages,     \* calls of load, loadUsers under way
  pageCalls, \* how many there were
  crossed,   \* history: a page was asked for while another was under way, or by other filters
  dialog,    \* the dialog: open, step, text, sending; composed: messages so far
  sent,      \* the request under way: its text, and whether its row is stored
  stored,    \* rows of the messages, by text
  failed,    \* attempts that ended with an error, by text
  counted    \* _count.notifications of the page

rosterVars == <<view, rows, listed, cursor, more, loadingMore, picked, sought, under, base,
                pages, pageCalls, crossed, dialog, sent, stored, failed, counted>>
listVars == <<listed, cursor, more, loadingMore, picked, sought, under, base, pages, pageCalls, crossed>>
sendVars == <<dialog, sent, stored, failed, counted>>

Filters == {"all", "some"}
Messages == 1..MaxMessages
NoSend == [text |-> 0, stage |-> "none"]
Page == [number : 1..MaxListLoads, at : 0..MaxRows * PageRows, by : Filters, append : BOOLEAN,
         served : BOOLEAN, seen : SUBSET (1..MaxRows), top : 0..MaxRows]
Dialog == [open : BOOLEAN, step : {"idle", "confirm", "success"}, text : 0..MaxMessages,
           sending : BOOLEAN, composed : 0..MaxMessages]

Matching(f, n) == {r \in 1..n : f = "some" => r % 2 = 0}
Offset(r, f) == Cardinality({q \in Matching(f, rows) : q > r})

(* getAllUsers, getAdminNotificationsSent: skip and take, newest first. *)
Rows(f, at) == {r \in Matching(f, rows) : Offset(r, f) \in at..(at + PageRows - 1)}

-----------------------------------------------------------------------------
StartPage(at, f, appends) ==
  /\ pageCalls < MaxListLoads /\ pageCalls' = pageCalls + 1
  /\ pages' = pages \cup {[number |-> pageCalls', at |-> at, by |-> f, append |-> appends,
                           served |-> FALSE, seen |-> {}, top |-> 0]}
  /\ crossed' = (crossed \/ pages # {} \/ (appends /\ f # under))

Reload ==
  /\ StartPage(0, picked, FALSE)
  /\ UNCHANGED <<view, rows, listed, cursor, more, loadingMore, picked, sought, under, base>>
  /\ UNCHANGED sendVars

LoadMore ==
  /\ more /\ ~loadingMore /\ loadingMore' = TRUE
  /\ StartPage(cursor, picked, TRUE)
  /\ UNCHANGED <<view, rows, listed, cursor, more, picked, sought, under, base>>
  /\ UNCHANGED sendVars

PageServed(c) ==
  /\ ~c.served
  /\ pages' = (pages \ {c}) \cup {[c EXCEPT !.served = TRUE, !.seen = Rows(c.by, c.at),
                                            !.top = rows]}
  /\ UNCHANGED <<view, rows, listed, cursor, more, loadingMore, picked, sought, under, base, pageCalls,
                 crossed>>
  /\ UNCHANGED sendVars

(* The list of users asks for more while pages are full, the history while   *)
(* rows are left.  Nothing looks whether a row is listed already.            *)
PageArrives(c) ==
  /\ c.served
  /\ pages' = pages \ {c}
  /\ listed' = IF c.append THEN listed \cup c.seen ELSE c.seen
  /\ more' = IF view = "users" THEN Cardinality(c.seen) = PageRows ELSE c.at + PageRows < Cardinality(Matching(c.by, c.top))
  /\ cursor' = IF view = "history" \/ more' THEN c.at + PageRows ELSE 0
  /\ under' = IF c.append THEN under ELSE c.by
  /\ base' = IF c.append THEN base ELSE c.top
  /\ loadingMore' = FALSE
  /\ UNCHANGED <<view, rows, picked, sought, pageCalls, crossed>>
  /\ UNCHANGED sendVars

(* A mutant: the cursor moves although the page did not come. *)
PageFailsOnward(c) ==
  /\ pages' = pages \ {c}
  /\ cursor' = c.at + PageRows
  /\ loadingMore' = FALSE
  /\ UNCHANGED <<view, rows, listed, more, picked, sought, under, base, pageCalls, crossed>>
  /\ UNCHANGED sendVars

PageFails(c) ==
  /\ pages' = pages \ {c}
  /\ loadingMore' = FALSE
  /\ UNCHANGED <<view, rows, listed, cursor, more, picked, sought, under, base, pageCalls, crossed>>
  /\ UNCHANGED sendVars

(* A filter of the list of users only changes the address; the filters in    *)
(* use and the list stay.                                                    *)
SeekUsers(f) ==
  /\ view = "users" /\ f # sought
  /\ sought' = f
  /\ UNCHANGED <<view, rows, listed, cursor, more, loadingMore, picked, under, base, pages, pageCalls,
                 crossed>>
  /\ UNCHANGED sendVars

(* Typing in the search field changes the filters in use after 300 ms.       *)
TypeSearch(f) ==
  /\ view = "users" /\ f # picked
  /\ picked' = f
  /\ UNCHANGED <<view, rows, listed, cursor, more, loadingMore, sought, under, base, pages, pageCalls,
                 crossed>>
  /\ UNCHANGED sendVars

(* "Clear all" resets both and does not load either. *)
ClearFilters ==
  /\ view = "users" /\ (picked # "all" \/ listed = {})
  /\ picked' = "all" /\ sought' = "all"
  /\ UNCHANGED <<view, rows, listed, cursor, more, loadingMore, under, base, pages, pageCalls, crossed>>
  /\ UNCHANGED sendVars

(* A user signs up or is onboarded; another administrator sends a message. *)
RowAdded ==
  /\ view # "dialog" /\ rows < MaxRows /\ rows' = rows + 1
  /\ UNCHANGED <<view, listVars, sendVars>>

-----------------------------------------------------------------------------
(* The dialog keeps its state while it is closed. *)
Shows(step) == dialog.open /\ dialog.step = step
DialogStep(d) == dialog' = d /\ UNCHANGED <<view, rows, listVars, sent, stored, failed, counted>>

OpenDialog == view = "dialog" /\ ~dialog.open /\ DialogStep([dialog EXCEPT !.open = TRUE])

ComposeText ==
  /\ Shows("idle") /\ dialog.text = 0 /\ dialog.composed < MaxMessages
  /\ DialogStep([dialog EXCEPT !.text = dialog.composed + 1, !.composed = @ + 1])

ContinueSend == Shows("idle") /\ dialog.text # 0 /\ DialogStep([dialog EXCEPT !.step = "confirm"])

(* The buttons work also while the message is being sent. *)
BackToText == Shows("confirm") /\ DialogStep([dialog EXCEPT !.step = "idle"])

CloseDialog ==
  /\ dialog.open
  /\ DialogStep([dialog EXCEPT !.open = FALSE, !.text = 0, !.step = "idle"])

(* doSend: every attempt has an Idempotency-Key of its own. *)
SendMessage ==
  /\ Shows("confirm") /\ ~dialog.sending
  /\ failed[dialog.text] < MaxMessages
  /\ dialog' = [dialog EXCEPT !.sending = TRUE]
  /\ sent' = [text |-> dialog.text, stage |-> "asked"]
  /\ UNCHANGED <<view, rows, listVars, stored, failed, counted>>

(* sendAdminNotification: the row and its audit entry are committed, then    *)
(* the job is sent.  A refusal (400, 404, 429) stores nothing.               *)
MessageStored ==
  /\ sent.stage = "asked"
  /\ stored' = [stored EXCEPT ![sent.text] = @ + 1]
  /\ \/ sent' = [sent EXCEPT !.stage = "stored"]
     \/ sent' = [sent EXCEPT !.stage = "broken"]      \* the queue refuses the job
  /\ UNCHANGED <<view, rows, listVars, dialog, failed, counted>>

(* A mutant: the dialog stays open with its text. *)
MessageAnsweredOpen ==
  /\ sent.stage = "stored"
  /\ dialog' = [dialog EXCEPT !.step = "idle", !.sending = FALSE]
  /\ counted' = counted + 1
  /\ sent' = NoSend
  /\ UNCHANGED <<view, rows, listVars, stored, failed>>

(* onSuccess closes the dialog, so that "Sent to" comes up when it is opened *)
(* again; a text typed since then waits behind it and goes with "Done".      *)
MessageAnswered ==
  /\ sent.stage = "stored"
  /\ dialog' = [dialog EXCEPT !.step = "success", !.sending = FALSE, !.open = FALSE]
  /\ counted' = counted + 1
  /\ sent' = NoSend
  /\ UNCHANGED <<view, rows, listVars, stored, failed>>

(* An error, a lost request or a lost answer. *)
MessageFails ==
  /\ sent # NoSend
  /\ dialog' = [dialog EXCEPT !.step = "idle", !.sending = FALSE]
  /\ failed' = [failed EXCEPT ![sent.text] = @ + 1]
  /\ sent' = NoSend
  /\ UNCHANGED <<view, rows, listVars, stored, counted>>

-----------------------------------------------------------------------------
(* The first load of the list of users is made before the filters of the     *)
(* address are in use.                                                       *)
RosterInit ==
  /\ view \in {"users", "history", "dialog"}
  /\ rows = IF view = "users" THEN MaxRows - 2 ELSE 0
  /\ sought \in (IF view = "users" THEN Filters ELSE {"all"}) /\ picked = sought
  /\ listed = {} /\ cursor = 0 /\ more = FALSE /\ loadingMore = FALSE
  /\ under = "all" /\ base = 0 /\ crossed = FALSE
  /\ pageCalls = IF view = "dialog" THEN MaxListLoads ELSE 1
  /\ pages = IF view = "dialog" THEN {} ELSE
              {[number |-> 1, at |-> 0, by |-> "all", append |-> FALSE, served |-> FALSE,
               seen |-> {}, top |-> 0]}
  /\ dialog = [open |-> FALSE, step |-> "idle", text |-> 0, sending |-> FALSE, composed |-> 0]
  /\ sent = NoSend /\ counted = 0
  /\ stored = [m \in Messages |-> 0] /\ failed = [m \in Messages |-> 0]

RosterNext ==
  \/ Reload \/ LoadMore \/ ClearFilters \/ RowAdded
  \/ \E f \in Filters : SeekUsers(f) \/ TypeSearch(f)
  \/ \E c \in pages : PageServed(c) \/ PageArrives(c) \/ PageFails(c)
  \/ OpenDialog \/ ComposeText \/ ContinueSend \/ BackToText \/ CloseDialog
  \/ SendMessage \/ MessageStored \/ MessageAnswered \/ MessageFails

RosterSpec == RosterInit /\ [][RosterNext]_rosterVars

-----------------------------------------------------------------------------
(* List, calls and dialog have their types. *)
RosterTypeOK ==
  /\ view \in {"users", "history", "dialog"} /\ {rows, base} \subseteq 0..MaxRows /\ listed \subseteq 1..MaxRows
  /\ cursor \in Nat /\ {more, loadingMore, crossed} \subseteq BOOLEAN
  /\ {picked, sought, under} \subseteq Filters /\ pages \subseteq Page
  /\ pageCalls \in 0..MaxListLoads /\ dialog \in Dialog /\ counted \in Nat
  /\ sent \in [text : 0..MaxMessages, stage : {"none", "asked", "stored", "broken"}]
  /\ stored \in [Messages -> Nat] /\ failed \in [Messages -> Nat]

(* A list has no hole: of the rows there were when it was loaded, it shows   *)
(* every one of its filters between two that it shows, though rows come in   *)
(* at the front while it is read by offset and pages fail, unless two pages  *)
(* crossed or the filters changed between two pages (users/page.tsx          *)
(* loadUsers, users/[id]/page.tsx load).                                     *)
ListHasNoHoles ==
  ~crossed => \A a \in listed, b \in listed \cap 1..base :
                \A r \in Matching(under, base) : a < r /\ r < b => r \in listed

(* A message an administrator composed once is stored once, and once more    *)
(* for every attempt that ended with an error: whatever is opened, closed,   *)
(* retyped and confirmed meanwhile, an answered message is not sent again    *)
(* (SendNotificationDialog.tsx doSend).                                      *)
OneCopyPerSend == \A m \in Messages : stored[m] <= failed[m] + 1

(* A message is stored once.  The code does not hold it: the retry of a lost *)
(* answer has another key.                                                   *)
StoredOnce == \A m \in Messages : stored[m] <= 1

(* The list is that of the filters the page shows.  The code does not hold   *)
(* it: no filter loads the list.                                             *)
ListFollowsFilters == pages = {} /\ listed # {} => under = picked

(* A text is kept until it is sent or dismissed.  The code does not hold it: *)
(* the answer for an earlier one puts its own page before it.                *)
TextWaitsForAnswer ==
  [][sent.stage = "stored" /\ sent' = NoSend /\ dialog'.step = "success" =>
       dialog.text = sent.text]_rosterVars

=============================================================================
