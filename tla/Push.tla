-------------------------------- MODULE Push --------------------------------
(***************************************************************************)
(* Phone notifications: the subscription a browser holds, the rows the     *)
(* server keeps of them, and what deliveries make of both.                 *)
(*                                                                         *)
(* A browser gets a new endpoint each time it subscribes; an endpoint is   *)
(* the browser with the number of its subscription.                        *)
(***************************************************************************)
EXTENDS Naturals, FiniteSets

CONSTANTS
  Members, Phones,   \* users, browsers
  MaxPhones,         \* rows a user may have: 10 in the code
  MaxSubscribes      \* bound: subscriptions of one browser

ASSUME PushAssumption == MaxPhones \in Nat \ {0} /\ MaxSubscribes \in Nat

VARIABLES
  granted,     \* browsers that may show notifications
  subscribed,  \* browsers with a live subscription
  endpoint,    \* number of the browser's last subscription
  owned,       \* notification_push_subscriptions: rows [user, phone, number]
  saving,      \* requests of a browser to store its subscription
  turnedOn,    \* browsers whose page or flag says that alerts are on
  exceeded     \* history: users whose limit two requests or a taken endpoint passed

pushVars == <<granted, subscribed, endpoint, owned, saving, turnedOn, exceeded>>

OwnedRow == [user : Members, phone : Phones, number : 1..MaxSubscribes]
Saving == [user : Members, phone : Phones, number : 1..MaxSubscribes,
           pc : {"find", "insert", "move"}]
RowsOf(u) == {r \in owned : r.user = u}
RowsAt(s) == {r \in owned : r.phone = s.phone /\ r.number = s.number}
RowOf(s)  == [user |-> s.user, phone |-> s.phone, number |-> s.number]

-----------------------------------------------------------------------------
(* The browser *)

(* Notification.requestPermission, and the user's later change of mind,      *)
(* which also ends the subscription.                                         *)
Grant(p) ==
  /\ p \notin granted /\ granted' = granted \cup {p}
  /\ UNCHANGED <<subscribed, endpoint, owned, saving, turnedOn, exceeded>>

Withdraw(p) ==
  /\ p \in granted /\ granted' = granted \ {p}
  /\ subscribed' = subscribed \ {p}
  /\ turnedOn' = turnedOn \ {p}
  /\ UNCHANGED <<endpoint, owned, saving, exceeded>>

(* pushManager.subscribe, unless there is a subscription; then the POST. *)
AskFor(p, u, number) ==
  /\ \A s \in saving : s.phone # p
  /\ saving' = saving \cup {[user |-> u, phone |-> p, number |-> number, pc |-> "find"]}

SubscribeAndAsk(p, u) ==
  /\ p \in granted \ subscribed /\ endpoint[p] < MaxSubscribes
  /\ subscribed' = subscribed \cup {p}
  /\ endpoint' = [endpoint EXCEPT ![p] = @ + 1]
  /\ AskFor(p, u, endpoint[p] + 1)
  /\ UNCHANGED <<granted, owned, turnedOn, exceeded>>

(* enablePhoneNotifications: an existing subscription is stored again, for   *)
(* whoever is signed in now.                                                 *)
EnableAgain(p, u) ==
  /\ p \in granted \cap subscribed
  /\ AskFor(p, u, endpoint[p])
  /\ UNCHANGED <<granted, subscribed, endpoint, owned, turnedOn, exceeded>>

(* enableBrowserPushNotifications: an existing subscription is taken as      *)
(* stored.                                                                   *)
EnableKnown(p) ==
  /\ p \in granted \cap subscribed
  /\ turnedOn' = turnedOn \cup {p}
  /\ UNCHANGED <<granted, subscribed, endpoint, owned, saving, exceeded>>

-----------------------------------------------------------------------------
(* NotificationPushService *)

(* A mutant: the rows are not counted. *)
SaveFindsUncounted(s) ==
  /\ s \in saving /\ s.pc = "find"
  /\ saving' = (saving \ {s}) \cup {[s EXCEPT !.pc = IF RowsAt(s) = {} THEN "insert" ELSE "move"]}
  /\ UNCHANGED <<granted, subscribed, endpoint, owned, turnedOn, exceeded>>

(* saveSubscription: a new endpoint is refused when the user has ten. *)
SaveFinds(s) ==
  /\ s \in saving /\ s.pc = "find"
  /\ saving' = (saving \ {s}) \cup
       (IF RowsAt(s) # {} THEN {[s EXCEPT !.pc = "move"]}
        ELSE IF Cardinality(RowsOf(s.user)) < MaxPhones THEN {[s EXCEPT !.pc = "insert"]}
        ELSE {})
  /\ UNCHANGED <<granted, subscribed, endpoint, owned, turnedOn, exceeded>>

(* The upsert: a row of its own, or the row of the endpoint, whose owner     *)
(* changes.                                                                  *)
SaveUpserts(s) ==
  LET others == {o \in saving \ {s} : o.user = s.user /\ o.pc # "find"}
      taken == \E r \in RowsAt(s) : r.user # s.user
  IN
  /\ s \in saving /\ s.pc # "find"
  /\ owned' = (owned \ RowsAt(s)) \cup {RowOf(s)}
  /\ saving' = saving \ {s}
  /\ turnedOn' \in {turnedOn, turnedOn \cup {s.phone}}
  /\ exceeded' = IF others # {} \/ taken \/ (s.pc = "move" /\ RowsAt(s) = {})
                 THEN exceeded \cup {s.user} ELSE exceeded
  /\ UNCHANGED <<granted, subscribed, endpoint>>

SaveFails(s) ==
  /\ s \in saving /\ saving' = saving \ {s}
  /\ UNCHANGED <<granted, subscribed, endpoint, owned, turnedOn, exceeded>>

(* deliverToUser: an endpoint that is gone answers 404 or 410, and its row   *)
(* is deleted.                                                               *)
Deliver(u) ==
  LET dead == {r \in RowsOf(u) : r.phone \notin subscribed \/ r.number # endpoint[r.phone]} IN
  /\ \E D \in SUBSET dead : owned' = owned \ D
  /\ UNCHANGED <<granted, subscribed, endpoint, saving, turnedOn, exceeded>>

-----------------------------------------------------------------------------
PushInit ==
  /\ granted = {} /\ subscribed = {} /\ turnedOn = {} /\ owned = {} /\ saving = {}
  /\ endpoint = [p \in Phones |-> 0]
  /\ exceeded = {}

PushNext ==
  \/ \E p \in Phones :
       \/ Grant(p) \/ Withdraw(p) \/ EnableKnown(p)
       \/ \E u \in Members : SubscribeAndAsk(p, u) \/ EnableAgain(p, u)
  \/ \E s \in saving : SaveFinds(s) \/ SaveUpserts(s) \/ SaveFails(s)
  \/ \E u \in Members : Deliver(u)

PushSpec == PushInit /\ [][PushNext]_pushVars

-----------------------------------------------------------------------------
(* Subscriptions, rows and requests have their types. *)
PushTypeOK ==
  /\ granted \subseteq Phones /\ subscribed \subseteq granted /\ turnedOn \subseteq Phones
  /\ endpoint \in [Phones -> 0..MaxSubscribes]
  /\ owned \subseteq OwnedRow /\ saving \subseteq Saving
  /\ exceeded \subseteq Members

(* A user has at most ten devices, unless two requests counted at the same   *)
(* time or an endpoint changed hands, and no endpoint alerts two users       *)
(* (notification-push.service.ts saveSubscription).                          *)
PhonesWithinLimit ==
  /\ \A u \in Members \ exceeded : Cardinality(RowsOf(u)) <= MaxPhones
  /\ \A r, o \in owned : r.phone = o.phone /\ r.number = o.number => r = o

=============================================================================
