------------------------------- MODULE Toggle -------------------------------
(***************************************************************************)
(* Like, recommend and follow: a button that shows its new state at once   *)
(* and sends it to the server, one request after the other, and the rows   *)
(* and counters behind it.                                                 *)
(***************************************************************************)
EXTENDS Integers, FiniteSets

CONSTANT MaxClicks    \* bound: clicks and requests

ASSUME ToggleAssumption == MaxClicks \in Nat

VARIABLES
  button,      \* which button this is: a like or recommendation, a follow in a list,
               \* a follow on a profile
  value,       \* what it shows
  confirmed,   \* lastConfirmedRef
  intent,      \* pendingIntentRef: "none", "on", "off"
  inflight,    \* inflightRef is set
  requests,    \* requests under way
  retry,       \* what the button of the last error message tries again: "none", "on", "off"
  clicks,      \* clicks and requests so far
  stored,      \* the row of the like, follow or recommendation
  counter,     \* followerCount of the target, as far as this user moved it
  faulty,      \* history: a request failed since the last click
  together,    \* history: two requests were under way at once
  resent       \* history: the counter was moved by requests that changed nothing

toggleVars == <<button, value, confirmed, intent, inflight, requests, retry, clicks, stored,
                counter, faulty, together, resent>>

Request == [number : 1..MaxClicks, want : BOOLEAN, served : BOOLEAN]
AsBool(i) == i = "on"
AsIntent(b) == IF b THEN "on" ELSE "off"

(* executeToggle: the request is sent. *)
Execute(others, want) ==
  /\ requests' = others \cup {[number |-> clicks', want |-> want, served |-> FALSE]}
  /\ together' = (together \/ others # {})

-----------------------------------------------------------------------------
Toggled(from) ==
  /\ clicks < MaxClicks /\ clicks' = clicks + 1
  /\ value' = ~from
  /\ confirmed' = from
  /\ faulty' = FALSE
  /\ IF inflight
     THEN intent' = AsIntent(~from) /\ UNCHANGED <<inflight, requests, together>>
     ELSE inflight' = TRUE /\ UNCHANGED intent /\ Execute(requests, ~from)

(* toggle: the button is disabled while a request is pending. *)
ToggleClick ==
  /\ requests = {}
  /\ Toggled(value)
  /\ UNCHANGED <<button, retry, stored, counter, resent>>

(* The error message of a like offers to try again, whatever is pending by   *)
(* then: the toggle of the click that failed, with the value of that time.   *)
ToggleRetry ==
  /\ retry # "none" /\ retry' = "none"
  /\ Toggled(~AsBool(retry))
  /\ UNCHANGED <<button, stored, counter, resent>>

Serve(r) ==
  /\ ~r.served
  /\ requests' = (requests \ {r}) \cup {[r EXCEPT !.served = TRUE]}
  /\ stored' = r.want
  /\ resent' = (resent \/ stored = r.want)
  /\ UNCHANGED <<button, value, confirmed, intent, inflight, retry, clicks, faulty, together>>

(* likeListing and unlikeListing, and those of recommendations: an upsert or *)
(* deleteMany.                                                               *)
LikeServed(r) ==
  /\ button = "like" /\ Serve(r)
  /\ UNCHANGED counter

(* followUser, unfollowUser, followPage, unfollowPage: in one transaction    *)
(* the row and the counters, which move also when the row does not.          *)
FollowServed(r) ==
  /\ button # "like" /\ Serve(r)
  /\ counter' = IF r.want THEN counter + 1 ELSE counter - 1

(* A mutant: a click made meanwhile is not sent. *)
SettleForgotten(r) ==
  /\ inflight' = FALSE
  /\ intent' = "none"
  /\ requests' = requests \ {r}
  /\ UNCHANGED <<clicks, together>>

(* The finally of executeToggle: the click made meanwhile is sent, but       *)
(* inflightRef stays empty.                                                  *)
Settle(r) ==
  /\ inflight' = FALSE
  /\ intent' = "none"
  /\ IF intent = "none"
     THEN requests' = requests \ {r} /\ UNCHANGED <<clicks, together>>
     ELSE clicks' = clicks + 1 /\ Execute(requests \ {r}, AsBool(intent))

ToggleConfirmed(r) ==
  /\ r.served /\ clicks < MaxClicks
  /\ confirmed' = r.want
  /\ Settle(r)
  /\ UNCHANGED <<button, value, retry, stored, counter, faulty, resent>>

(* The request or its answer is lost or refused: what the button showed at   *)
(* the last click comes back.                                                *)
ToggleFailed(r) ==
  /\ clicks < MaxClicks
  /\ value' = confirmed
  /\ retry' = IF button = "like" THEN AsIntent(r.want) ELSE retry
  /\ faulty' = TRUE
  /\ Settle(r)
  /\ UNCHANGED <<button, confirmed, stored, counter, resent>>

-----------------------------------------------------------------------------
ToggleInit ==
  /\ button \in {"like", "follow", "profile"}
  /\ stored \in BOOLEAN
  /\ value = IF button = "profile" THEN FALSE ELSE stored
  /\ confirmed = value /\ retry = "none"
  /\ intent = "none" /\ inflight = FALSE /\ requests = {} /\ clicks = 0
  /\ counter = IF button # "like" /\ stored THEN 1 ELSE 0
  /\ faulty = FALSE /\ together = FALSE /\ resent = FALSE

ToggleNext ==
  \/ ToggleClick \/ ToggleRetry
  \/ \E r \in requests : \/ LikeServed(r) \/ FollowServed(r)
                         \/ ToggleConfirmed(r) \/ ToggleFailed(r)

ToggleSpec == ToggleInit /\ [][ToggleNext]_toggleVars

-----------------------------------------------------------------------------
(* Button, requests and row have their types. *)
ToggleTypeOK ==
  /\ button \in {"like", "follow", "profile"}
  /\ {value, confirmed, inflight, stored, faulty, together, resent} \subseteq BOOLEAN
  /\ {intent, retry} \subseteq {"none", "on", "off"}
  /\ requests \subseteq Request /\ clicks \in 0..MaxClicks
  /\ counter \in -MaxClicks..(MaxClicks + 1)

(* Once a click is answered the button shows what is stored, however clicks, *)
(* failures and retries follow each other, unless a request failed since or  *)
(* two ever ran at once; and a follow's counter that started right is right  *)
(* unless a request asked for what was stored already (optimistic.ts         *)
(* useOptimisticToggle, users.service.ts followUser).                        *)
ButtonSettles ==
  requests = {} /\ clicks > 0 =>
    /\ ~faulty /\ ~together => value = stored
    /\ button # "like" /\ ~resent => counter = IF stored THEN 1 ELSE 0

=============================================================================
