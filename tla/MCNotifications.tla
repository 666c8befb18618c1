---------------------------- MODULE MCNotifications ----------------------------
(* Small instances of the modules about notifications, for TLC: their        *)
(* delivery on the server, the inbox of a browser and its subscriptions, and *)
(* the conversations with support.  They share no variables: each behaviour  *)
(* is one of one module.                                                     *)
EXTENDS Delivery, Inbox, Push, Support, TLC

CONSTANTS n1, a1, e1, w1, w2, u1, u2, p1, p2

CONSTANT Parts     \* the modules a run is about

OneAdmin   == {a1}
NoteAndAdmin == {n1, a1}
OneMail    == {e1}
TwoWorkers == {w1, w2}
TwoMembers == {u1, u2}
TwoPhones  == {p1, p2}
SecondNote == {2}

(* The note is tried twice, so that a try meets what an earlier one left; it *)
(* is asked for twice, so that a request meets an earlier one's job.         *)
NoteTwice == [k \in Messages |-> IF k = n1 THEN 2 ELSE 1]

VARIABLE part

noticeVars == <<part, vars, inboxVars, pushVars, supportVars>>

NotificationsInit ==
  /\ part \in Parts /\ Init /\ InboxInit /\ PushInit
  /\ SupportInit /\ (part # "support" => tickets = <<>>)

NotificationsNext ==
  /\ UNCHANGED part
  /\ \/ part = "delivery" /\ Next /\ UNCHANGED <<inboxVars, pushVars, supportVars>>
     \/ part = "inbox" /\ InboxNext /\ UNCHANGED <<vars, pushVars, supportVars>>
     \/ part = "push" /\ PushNext /\ UNCHANGED <<vars, inboxVars, supportVars>>
     \/ part = "support" /\ SupportNext /\ UNCHANGED <<vars, inboxVars, pushVars>>

NotificationsSpec == NotificationsInit /\ [][NotificationsNext]_noticeVars

AllParts == {"delivery", "inbox", "push", "support"}
InboxOnly == {"inbox"}

(* The state of every module has its type. *)
NotificationsTypeOK == DeliveryTypeOK /\ InboxTypeOK /\ PushTypeOK /\ SupportTypeOK

(* A bound: requests to deliver, and crashes, in one behaviour. *)
FewAsks == crashes + asked[n1] + asked[a1] + asked[e1] <= 4

(* A bound: the page's rows are marked as read one at most, and either so or *)
(* deleted.                                                                  *)
FewMarks == Cardinality(readRows) <= 1 /\ (readRows = {} \/ removed = {})

(* Workers are interchangeable; safety only. *)
Symmetry == Permutations(Workers)

=============================================================================
