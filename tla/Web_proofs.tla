----------------------------- MODULE Web_proofs -----------------------------
(***************************************************************************)
(* Theorems about the browser's side, for any users, tabs, calls, buttons  *)
(* and bounds: Sessions, Toggle, Comments, Forms, Feed, Bursts and Toasts. *)
(* The modules share no variables: each theorem is about the specification *)
(* of one.                                                                 *)
(***************************************************************************)
EXTENDS Sessions, Toggle, Comments, Forms, Feed, Bursts, Toasts, FiniteSetTheorems, SequenceTheorems, TLAPS

-----------------------------------------------------------------------------
(* Sessions.                                                                 *)

(* A pair that somebody knows has a row. *)
KnownPairsAreIssued ==
  /\ store \in Tokens => row[store].state # "none"
  /\ \A r \in refreshes : row[r.token].state # "none"
  /\ \A t \in Tokens : row[t].state \in {"none", "live"} => row[t].by = Nobody

(* refreshPromise: a tab has one request under way and waits for it. *)
OneRefreshPerTab ==
  /\ \A r \in refreshes : r.tab \in refreshing
  /\ \A r, q \in refreshes : r.tab = q.tab => r = q

(* The pair of an answer on its way is known to nobody else. *)
AnswersAreFresh ==
  \A r \in refreshes :
    r.st = "answered" => /\ r.got \in Tokens /\ row[r.got].state = "live" /\ r.got # store
                         /\ \A q \in refreshes : q.token # r.got /\ (q.st = "answered" /\ q.got = r.got => q = r)

(* A tab that used up the browser's pair is about to store its successor. *)
UsedByTheWaiting ==
  \A tab \in Tabs :
    store \in Tokens /\ row[store].by = tab =>
      \E r \in refreshes : r.tab = tab /\ r.st = "answered" /\ r.token = store

(* A request that was sent has not been carried out. *)
SentIsNotUsed == \A r \in refreshes : r.st = "sent" => row[r.token].by # r.tab

(* A call under way is of a tab.                                             *)
CallsHaveTabs == \A c \in Calls : call[c].st # "idle" => call[c].tab \in Tabs

(* The inductive invariant of the refreshes.                                 *)
RefreshInv == /\ SessionsTypeOK /\ CallsHaveTabs /\ KnownPairsAreIssued /\ OneRefreshPerTab /\ AnswersAreFresh
              /\ UsedByTheWaiting /\ SentIsNotUsed /\ RefusedForCause

(* The inductive invariant of the caches.                                    *)
CacheInv == RefreshInv /\ CachesAreOwn

-----------------------------------------------------------------------------
(* The numbers of pairs, and the one that is none.                           *)
LEMMA TokensAreNumbers ==
  /\ MaxTokens \in Nat /\ NoToken \notin Tokens /\ NoToken \in 0..MaxTokens
  /\ \A t : t \in 0..MaxTokens <=> t \in Tokens \/ t = NoToken
BY SessionsAssumption DEF Tokens, NoToken

(* The first state has its types.                                            *)
LEMMA SessionsTypeInit == SessionsInit => SessionsTypeOK /\ CallsHaveTabs
<1> SUFFICES ASSUME SessionsInit PROVE SessionsTypeOK /\ CallsHaveTabs
  OBVIOUS
<1>1. NoRow \in Row
  BY DEF NoRow, Row
<1>2. Idle \in Call /\ Idle.st = "idle"
  BY TokensAreNumbers DEF Idle, Call
<1>3. row \in [Tokens -> Row] /\ call \in [Calls -> Call] /\ CallsHaveTabs
  BY <1>1, <1>2 DEF SessionsInit, CallsHaveTabs
<1>4. store \in 0..MaxTokens
  BY TokensAreNumbers DEF SessionsInit
<1> QED BY <1>3, <1>4 DEF SessionsInit, SessionsTypeOK

(* What a row becomes is a row. *)
LEMMA RowsAreReplaced ==
  ASSUME NEW r \in Row, NEW st \in {"none", "live", "revoked", "expired"},
         NEW by \in Tabs \cup {NoTab, Nobody, LoggedOut}
  PROVE  /\ [r EXCEPT !.state = st] \in Row
         /\ [r EXCEPT !.state = st].by = r.by /\ [r EXCEPT !.state = st].user = r.user
         /\ [r EXCEPT !.state = st].state = st
         /\ [r EXCEPT !.by = by] \in Row
         /\ [r EXCEPT !.by = by].by = by /\ [r EXCEPT !.by = by].user = r.user
         /\ [r EXCEPT !.by = by].state = r.state
         /\ [r EXCEPT !.state = st, !.by = by] \in Row
         /\ [r EXCEPT !.state = st, !.by = by].by = by
         /\ [r EXCEPT !.state = st, !.by = by].user = r.user
         /\ [r EXCEPT !.state = st, !.by = by].state = st
BY DEF Row

(* A pair that is issued is a live row nobody has used.                      *)
LEMMA NewRowsAreRows ==
  ASSUME NEW u \in Users \cup {NoUser}
  PROVE  NewRow(u) \in Row /\ NewRow(u).state = "live" /\ NewRow(u).by = Nobody /\ NewRow(u).user = u
BY DEF Row, NewRow

(* A request to refresh goes on: its other fields stay.                      *)
LEMMA RequestsAreReplaced ==
  ASSUME NEW r \in Refresh, NEW st \in {"sent", "answered", "refused"}, NEW t \in 0..MaxTokens
  PROVE  /\ [r EXCEPT !.st = st] \in Refresh
         /\ [r EXCEPT !.st = st].st = st /\ [r EXCEPT !.st = st].tab = r.tab
         /\ [r EXCEPT !.st = st].token = r.token
         /\ [r EXCEPT !.st = st, !.got = t] \in Refresh
         /\ [r EXCEPT !.st = st, !.got = t].st = st /\ [r EXCEPT !.st = st, !.got = t].tab = r.tab
         /\ [r EXCEPT !.st = st, !.got = t].token = r.token
         /\ [r EXCEPT !.st = st, !.got = t].got = t
BY DEF Refresh

(* A call goes on: its tab stays.                                            *)
LEMMA CallsAreReplaced ==
  /\ Idle \in Call /\ Idle.st = "idle"
  /\ \A tab \in Tabs, t \in 0..MaxTokens, st \in {"sent", "again"} :
       /\ [tab |-> tab, st |-> st, token |-> t] \in Call
  /\ \A k \in Call : /\ [k EXCEPT !.st = "wait", !.token = NoToken] \in Call
                     /\ [k EXCEPT !.st = "wait", !.token = NoToken].tab = k.tab
<1>1. NoToken \in 0..MaxTokens
  BY TokensAreNumbers
<1>2. ASSUME NEW k \in Call
      PROVE  /\ [k EXCEPT !.st = "wait", !.token = NoToken] \in Call
             /\ [k EXCEPT !.st = "wait", !.token = NoToken].tab = k.tab
  BY <1>1 DEF Call
<1> QED BY <1>1, <1>2 DEF Call, Idle

(* The types of calls, caches and tabs. *)
LEMMA ReleaseType ==
  ASSUME RefreshInv, NEW tab \in Tabs, NEW next \in Call,
         next.st # "idle" => next.tab \in Tabs, Release(tab, next)
  PROVE  /\ call' \in [Calls -> Call] /\ CallsHaveTabs' /\ refreshing' = refreshing \ {tab}
         /\ refreshing' \subseteq Tabs
BY DEF Release, RefreshInv, SessionsTypeOK, CallsHaveTabs

(* clearUserSession leaves nothing behind.                                   *)
LEMMA ClearType ==
  ASSUME SessionsTypeOK, NEW tab, ClearUserSession(tab)
  PROVE  /\ store' = NoToken /\ local' = NoUser /\ outside' \subseteq Tabs
         /\ session' \in [Tabs -> Users \cup {NoUser}] /\ store' \in 0..MaxTokens
BY TokensAreNumbers DEF ClearUserSession, SessionsTypeOK

(* A tab that is reloaded leaves its requests, and the rows they named are   *)
(* used up by nobody.                                                        *)
LEMMA AbandonType ==
  ASSUME SessionsTypeOK, NEW tab \in Tabs, Abandon(tab)
  PROVE  /\ row' \in [Tokens -> Row] /\ refreshes' = {r \in refreshes : r.tab # tab}
         /\ \A t \in Tokens :
              /\ row'[t].user = row[t].user
              /\ row'[t].state = row[t].state \/ (row[t].state = "live" /\ row'[t].state = "revoked")
              /\ row'[t].by = row[t].by \/ row'[t].by = NoTab
              /\ row'[t].state = row[t].state /\ row[t].by \notin Tabs => row'[t].by = row[t].by
              /\ row'[t].state # row[t].state => row'[t].by = NoTab
              /\ row'[t].by = tab => \A r \in refreshes : r.tab = tab => r.token # t
              /\ row'[t].state # row[t].state => \E r \in refreshes : r.tab = tab /\ r.token = t
<1> DEFINE mine == {r \in refreshes : r.tab = tab}
           sent == {r.token : r \in mine}
           Revoked(t) == [row[t] EXCEPT !.state = "revoked", !.by = NoTab]
           Lost(t) == [row[t] EXCEPT !.by = NoTab]
<1>1. PICK arrived \in SUBSET {t \in sent : row[t].state = "live"} :
        row' = [t \in Tokens |-> IF t \in arrived THEN Revoked(t)
                                 ELSE IF t \in sent /\ row[t].by = tab THEN Lost(t) ELSE row[t]]
  BY DEF Abandon
<1>2. refreshes' = {r \in refreshes : r.tab # tab}
  BY DEF Abandon
<1>3. \A t \in Tokens :
        /\ Revoked(t) \in Row /\ Revoked(t).by = NoTab /\ Revoked(t).user = row[t].user
        /\ Revoked(t).state = "revoked"
        /\ Lost(t) \in Row /\ Lost(t).by = NoTab /\ Lost(t).user = row[t].user
        /\ Lost(t).state = row[t].state /\ row[t] \in Row
  <2> SUFFICES ASSUME NEW t \in Tokens
               PROVE  /\ Revoked(t) \in Row /\ Revoked(t).by = NoTab /\ Revoked(t).user = row[t].user
                      /\ Revoked(t).state = "revoked"
                      /\ Lost(t) \in Row /\ Lost(t).by = NoTab /\ Lost(t).user = row[t].user
                      /\ Lost(t).state = row[t].state /\ row[t] \in Row
    OBVIOUS
  <2>1. row[t] \in Row
    BY DEF SessionsTypeOK
  <2>2. /\ Revoked(t) \in Row /\ Revoked(t).by = NoTab /\ Revoked(t).user = row[t].user
        /\ Revoked(t).state = "revoked"
    <3> HIDE DEF Lost
    <3> QED BY <2>1 DEF Row
  <2>3. /\ Lost(t) \in Row /\ Lost(t).by = NoTab /\ Lost(t).user = row[t].user
        /\ Lost(t).state = row[t].state
    <3> HIDE DEF Revoked
    <3> QED BY <2>1 DEF Row
  <2> HIDE DEF Revoked, Lost
  <2> QED BY <2>1, <2>2, <2>3
<1>4. \A t \in sent : \E r \in refreshes : r.tab = tab /\ r.token = t
  OBVIOUS
<1>5. \A r \in refreshes : r.tab = tab => r.token \in sent
  OBVIOUS
<1> HIDE DEF sent, Revoked, Lost
<1>6. row' \in [Tokens -> Row]
  BY <1>1, <1>3
<1>7. ASSUME NEW t \in Tokens
      PROVE  /\ row'[t].user = row[t].user
             /\ row'[t].state = row[t].state \/ (row[t].state = "live" /\ row'[t].state = "revoked")
             /\ row'[t].by = row[t].by \/ row'[t].by = NoTab
             /\ row'[t].state = row[t].state /\ row[t].by \notin Tabs => row'[t].by = row[t].by
             /\ row'[t].state # row[t].state => row'[t].by = NoTab
             /\ row'[t].by = tab => \A r \in refreshes : r.tab = tab => r.token # t
             /\ row'[t].state # row[t].state => \E r \in refreshes : r.tab = tab /\ r.token = t
  <2>1. CASE t \in arrived
    <3>1. row'[t] = Revoked(t) /\ row[t].state = "live" /\ t \in sent
      BY <1>1, <2>1
    <3> QED BY <1>3, <1>4, <3>1, SessionsAssumption
  <2>2. CASE t \notin arrived /\ t \in sent /\ row[t].by = tab
    <3>1. row'[t] = Lost(t)
      BY <1>1, <2>2
    <3> QED BY <1>3, <2>2, <3>1, SessionsAssumption
  <2>3. CASE t \notin arrived /\ ~(t \in sent /\ row[t].by = tab)
    <3>1. row'[t] = row[t]
      BY <1>1, <2>3
    <3> QED BY <1>5, <2>3, <3>1
  <2> QED BY <2>1, <2>2, <2>3
<1> QED BY <1>2, <1>6, <1>7

(* Every step keeps the types. *)
LEMMA SessionsTypeStep ==
  ASSUME RefreshInv, [SessionsNext]_sessionVars PROVE SessionsTypeOK' /\ CallsHaveTabs'
<1> USE TokensAreNumbers
<1>0. SessionsTypeOK /\ CallsHaveTabs /\ \A t \in Tokens : row[t] \in Row
  BY DEF RefreshInv, SessionsTypeOK
<1>1. ASSUME NEW t \in Tokens, AccessExpires(t) PROVE SessionsTypeOK' /\ CallsHaveTabs'
  BY <1>0, <1>1 DEF AccessExpires, SessionsTypeOK, CallsHaveTabs, caches, network
<1>2. ASSUME NEW t \in Tokens, RowExpires(t) PROVE SessionsTypeOK' /\ CallsHaveTabs'
  <2>1. [row[t] EXCEPT !.state = "expired"] \in Row
    BY <1>0, RowsAreReplaced
  <2> QED BY <1>0, <1>2, <2>1 DEF RowExpires, SessionsTypeOK, CallsHaveTabs, caches, network
<1>3. ASSUME NEW r \in refreshes, RefreshAccepted(r) PROVE SessionsTypeOK' /\ CallsHaveTabs'
  <2>0. r \in Refresh /\ r.token \in Tokens /\ r.tab \in Tabs
    BY <1>0 DEF SessionsTypeOK, Refresh
  <2>1. PICK t \in FreshRow :
          /\ row' = [row EXCEPT ![r.token].state = "revoked", ![r.token].by = r.tab,
                                ![t] = NewRow(row[r.token].user)]
          /\ refreshes' = (refreshes \ {r}) \cup {[r EXCEPT !.st = "answered", !.got = t]}
    BY <1>3 DEF RefreshAccepted
  <2>2. t \in Tokens /\ t \in 0..MaxTokens
    BY DEF FreshRow
  <2>3. [r EXCEPT !.st = "answered", !.got = t] \in Refresh
    BY <2>0, <2>2, RequestsAreReplaced
  <2>4. /\ [row[r.token] EXCEPT !.state = "revoked", !.by = r.tab] \in Row
        /\ NewRow(row[r.token].user) \in Row
    <3>1. row[r.token].user \in Users \cup {NoUser}
      BY <1>0, <2>0 DEF Row
    <3>2. NewRow(row[r.token].user) \in Row
      BY <3>1, NewRowsAreRows
    <3>3. [row[r.token] EXCEPT !.state = "revoked", !.by = r.tab] \in Row
      BY <1>0, <2>0, RowsAreReplaced
    <3> QED BY <3>2, <3>3
  <2>5. row' \in [Tokens -> Row]
    BY <1>0, <2>0, <2>1, <2>4 DEF SessionsTypeOK
  <2> QED BY <1>0, <1>3, <2>1, <2>3, <2>5 DEF RefreshAccepted, SessionsTypeOK, CallsHaveTabs, caches
<1>4. ASSUME NEW r \in refreshes, RefreshRejected(r) PROVE SessionsTypeOK' /\ CallsHaveTabs'
  <2>1. [r EXCEPT !.st = "refused"] \in Refresh
    BY <1>0, RequestsAreReplaced DEF SessionsTypeOK
  <2> QED BY <1>0, <1>4, <2>1 DEF RefreshRejected, SessionsTypeOK, CallsHaveTabs, caches, server
<1>5. ASSUME NEW r \in refreshes, RefreshDone(r) PROVE SessionsTypeOK' /\ CallsHaveTabs'
  <2>0. r \in Refresh /\ r.got \in 0..MaxTokens /\ r.tab \in Tabs
    BY <1>0 DEF SessionsTypeOK, Refresh
  <2> DEFINE next == [tab |-> r.tab, st |-> "again", token |-> r.got]
  <2>1. next \in Call /\ next.tab \in Tabs
    BY <2>0, CallsAreReplaced
  <2>2. Release(r.tab, next)
    BY <1>5 DEF RefreshDone
  <2> HIDE DEF next
  <2>3. call' \in [Calls -> Call] /\ CallsHaveTabs' /\ refreshing' \subseteq Tabs
    BY <2>0, <2>1, <2>2, ReleaseType
  <2>4. mixed' \in BOOLEAN
    BY <1>0, <1>5 DEF RefreshDone, SessionsTypeOK
  <2> QED BY <1>0, <1>5, <2>0, <2>3, <2>4 DEF RefreshDone, SessionsTypeOK, caches, server
<1>6. ASSUME NEW r \in refreshes, RefreshRefused(r) PROVE SessionsTypeOK' /\ CallsHaveTabs'
  <2>0. r.tab \in Tabs
    BY <1>0 DEF SessionsTypeOK, Refresh
  <2>1. call' \in [Calls -> Call] /\ CallsHaveTabs' /\ refreshing' \subseteq Tabs
    BY <1>6, <2>0, CallsAreReplaced, ReleaseType DEF RefreshRefused
  <2>2. /\ store' \in 0..MaxTokens /\ local' = NoUser /\ outside' \subseteq Tabs
        /\ session' \in [Tabs -> Users \cup {NoUser}]
    BY <1>0, <1>6, ClearType DEF RefreshRefused
  <2> QED BY <1>0, <1>6, <2>1, <2>2 DEF RefreshRefused, SessionsTypeOK, server
<1>7. ASSUME NEW tab \in Tabs, NEW user \in Users, Login(tab, user) PROVE SessionsTypeOK' /\ CallsHaveTabs'
  <2>1. PICK t \in FreshRow : row' = [row EXCEPT ![t] = NewRow(user)] /\ SetSessionTokens(tab, t, user)
    BY <1>7 DEF Login
  <2>2. row' \in [Tokens -> Row]
    BY <1>0, <2>1, NewRowsAreRows DEF SessionsTypeOK
  <2>3. /\ store' \in 0..MaxTokens /\ outside' \subseteq Tabs /\ local' \in Users \cup {NoUser}
        /\ session' \in [Tabs -> Users \cup {NoUser}]
    BY <1>0, <2>1 DEF SetSessionTokens, SessionsTypeOK, FreshRow
  <2> QED BY <1>0, <1>7, <2>2, <2>3 DEF Login, SessionsTypeOK, CallsHaveTabs, network
<1>8. ASSUME NEW tab \in Tabs, NEW c \in Calls, Send(tab, c) PROVE SessionsTypeOK' /\ CallsHaveTabs'
  <2>1. [tab |-> tab, st |-> "sent", token |-> store] \in Call
    BY <1>0, CallsAreReplaced DEF SessionsTypeOK
  <2> QED BY <1>0, <1>8, <2>1 DEF Send, SessionsTypeOK, CallsHaveTabs, server, caches
<1>9. ASSUME NEW tab \in Tabs, Logout(tab) PROVE SessionsTypeOK' /\ CallsHaveTabs'
  <2>1. store \in Tokens
    BY <1>0, <1>9 DEF Logout, SessionsTypeOK
  <2>2. [row[store] EXCEPT !.state = "revoked", !.by = LoggedOut] \in Row
    BY <1>0, <2>1, RowsAreReplaced
  <2>3. row' \in [Tokens -> Row]
    BY <1>0, <1>9, <2>1, <2>2 DEF Logout, SessionsTypeOK
  <2>4. /\ store' \in 0..MaxTokens /\ local' = NoUser /\ outside' \subseteq Tabs
        /\ session' \in [Tabs -> Users \cup {NoUser}]
    BY <1>0, <1>9, ClearType DEF Logout
  <2> QED BY <1>0, <1>9, <2>3, <2>4 DEF Logout, SessionsTypeOK, CallsHaveTabs, network
<1>10. ASSUME NEW tab \in Tabs, RefreshFails(tab) PROVE SessionsTypeOK' /\ CallsHaveTabs'
  <2>1. row' \in [Tokens -> Row] /\ refreshes' \subseteq Refresh
    BY <1>0, <1>10, AbandonType DEF RefreshFails, SessionsTypeOK
  <2>2. call' \in [Calls -> Call] /\ CallsHaveTabs' /\ refreshing' \subseteq Tabs
    BY <1>10, CallsAreReplaced, ReleaseType DEF RefreshFails
  <2>3. /\ store' \in 0..MaxTokens /\ local' = NoUser /\ outside' \subseteq Tabs
        /\ session' \in [Tabs -> Users \cup {NoUser}]
    BY <1>0, <1>10, ClearType DEF RefreshFails
  <2> QED BY <1>0, <1>10, <2>1, <2>2, <2>3 DEF RefreshFails, SessionsTypeOK
<1>11. ASSUME NEW tab \in Tabs, Unload(tab) PROVE SessionsTypeOK' /\ CallsHaveTabs'
  <2>1. row' \in [Tokens -> Row] /\ refreshes' \subseteq Refresh
    BY <1>0, <1>11, AbandonType DEF Unload, SessionsTypeOK
  <2>2. call' \in [Calls -> Call] /\ CallsHaveTabs' /\ refreshing' \subseteq Tabs
    BY <1>0, <1>11, CallsAreReplaced DEF Unload, SessionsTypeOK, CallsHaveTabs
  <2> QED BY <1>0, <1>11, <2>1, <2>2 DEF Unload, SessionsTypeOK, caches
<1>12. ASSUME NEW c \in Calls, Answer(c) PROVE SessionsTypeOK' /\ CallsHaveTabs'
  <2>0. call[c].token \in Tokens /\ Owner(call[c].token) \in Users \cup {NoUser}
    BY <1>0, <1>12 DEF Answer, Owner, Row
  <2>1. mixed' \in BOOLEAN
    BY <1>0, <1>12 DEF Answer, SessionsTypeOK
  <2>2. call' \in [Calls -> Call] /\ CallsHaveTabs'
    BY <1>0, <1>12, CallsAreReplaced DEF Answer, SessionsTypeOK, CallsHaveTabs
  <2> QED BY <1>0, <1>12, <2>0, <2>1, <2>2 DEF Answer, SessionsTypeOK, server
<1>13. ASSUME NEW c \in Calls, call' = [call EXCEPT ![c] = Idle] PROVE call' \in [Calls -> Call] /\ CallsHaveTabs'
  BY <1>0, <1>13, CallsAreReplaced DEF SessionsTypeOK, CallsHaveTabs
<1>14. ASSUME NEW c \in Calls, Fail(c) PROVE SessionsTypeOK' /\ CallsHaveTabs'
  BY <1>0, <1>13, <1>14 DEF Fail, SessionsTypeOK, server, caches
<1>15. ASSUME NEW c \in Calls, UnauthorizedAlone(c) PROVE SessionsTypeOK' /\ CallsHaveTabs'
  BY <1>0, <1>13, <1>15, ClearType DEF UnauthorizedAlone, SessionsTypeOK, server
<1>16. ASSUME NEW c \in Calls, Unauthorized(c) PROVE SessionsTypeOK' /\ CallsHaveTabs'
  <2>1. call[c].tab \in Tabs /\ call[c] \in Call /\ store \in Tokens
    BY <1>0, <1>16 DEF Unauthorized, CallsHaveTabs, SessionsTypeOK
  <2>2. call' \in [Calls -> Call] /\ CallsHaveTabs'
    <3> DEFINE k == [call[c] EXCEPT !.st = "wait", !.token = NoToken]
    <3>1. k \in Call /\ k.tab \in Tabs
      BY <2>1, CallsAreReplaced
    <3>2. call' = [call EXCEPT ![c] = k]
      BY <1>16 DEF Unauthorized, Await
    <3> HIDE DEF k
    <3> QED BY <1>0, <3>1, <3>2 DEF SessionsTypeOK, CallsHaveTabs
  <2>3. [tab |-> call[c].tab, token |-> store, st |-> "sent", got |-> NoToken] \in Refresh
    BY <2>1 DEF Refresh
  <2>4. refreshing' \subseteq Tabs /\ refreshes' \subseteq Refresh
    BY <1>0, <1>16, <2>1, <2>3 DEF Unauthorized, SendRefresh, SessionsTypeOK
  <2> QED BY <1>0, <1>16, <2>2, <2>4 DEF Unauthorized, SessionsTypeOK, server, caches
<1>17. ASSUME NEW c \in Calls, FailAgain(c) PROVE SessionsTypeOK' /\ CallsHaveTabs'
  BY <1>0, <1>13, <1>17, ClearType DEF FailAgain, SessionsTypeOK, server
<1>18. CASE UNCHANGED sessionVars
  BY <1>0, <1>18 DEF sessionVars, SessionsTypeOK, CallsHaveTabs
<1> QED BY <1>1, <1>2, <1>3, <1>4, <1>5, <1>6, <1>7, <1>8, <1>9, <1>10, <1>11, <1>12, <1>14,
           <1>15, <1>16, <1>17, <1>18 DEF SessionsNext

-----------------------------------------------------------------------------
(* Requests to refresh. *)

LEMMA RefreshInit == SessionsInit => RefreshInv
<1> SUFFICES ASSUME SessionsInit PROVE RefreshInv
  OBVIOUS
<1>1. SessionsTypeOK /\ CallsHaveTabs
  BY SessionsTypeInit
<1>2. KnownPairsAreIssued
  BY TokensAreNumbers DEF SessionsInit, KnownPairsAreIssued, NoRow
<1>3. UsedByTheWaiting
  BY TokensAreNumbers DEF SessionsInit, UsedByTheWaiting
<1>4. OneRefreshPerTab /\ AnswersAreFresh /\ SentIsNotUsed /\ RefusedForCause
  BY DEF SessionsInit, OneRefreshPerTab, AnswersAreFresh, SentIsNotUsed, RefusedForCause
<1> QED BY <1>1, <1>2, <1>3, <1>4 DEF RefreshInv

(* Nothing of this changes but the browser's pair, which may be dropped.     *)
LEMMA PairIsDropped ==
  ASSUME RefreshInv, SessionsTypeOK', CallsHaveTabs', UNCHANGED <<row, refreshing, refreshes>>,
         store' \in {store, NoToken}
  PROVE  RefreshInv'
BY TokensAreNumbers
   DEF RefreshInv, KnownPairsAreIssued, OneRefreshPerTab, AnswersAreFresh, UsedByTheWaiting,
       SentIsNotUsed, RefusedForCause

(* A request is gone with its tab. *)
LEMMA RefreshIsAbandoned ==
  ASSUME RefreshInv, SessionsTypeOK', CallsHaveTabs', NEW tab \in Tabs, Abandon(tab),
         refreshing' = refreshing \ {tab}, store' \in {store, NoToken}
  PROVE  RefreshInv'
<1> USE TokensAreNumbers
<1>0. SessionsTypeOK
  BY DEF RefreshInv
<1>1. /\ refreshes' = {r \in refreshes : r.tab # tab}
      /\ \A t \in Tokens :
           /\ row'[t].user = row[t].user
           /\ row'[t].state = row[t].state \/ (row[t].state = "live" /\ row'[t].state = "revoked")
           /\ row'[t].by = row[t].by \/ row'[t].by = NoTab
           /\ row'[t].state = row[t].state /\ row[t].by \notin Tabs => row'[t].by = row[t].by
           /\ row'[t].state # row[t].state => row'[t].by = NoTab
           /\ row'[t].by = tab => \A r \in refreshes : r.tab = tab => r.token # t
           /\ row'[t].state # row[t].state => \E r \in refreshes : r.tab = tab /\ r.token = t
  BY <1>0, AbandonType
<1>2. /\ \A r \in refreshes : r.token \in Tokens /\ r.tab \in Tabs /\ r \in Refresh
      /\ \A t \in Tokens : row[t].state \in {"none", "live", "revoked", "expired"}
  BY <1>0 DEF SessionsTypeOK, Refresh, Row
<1>3. KnownPairsAreIssued'
  BY <1>1, <1>2, SessionsAssumption DEF RefreshInv, KnownPairsAreIssued
<1>4. OneRefreshPerTab'
  BY <1>1, <1>2 DEF RefreshInv, OneRefreshPerTab
<1>5. AnswersAreFresh'
  BY <1>1, <1>2 DEF RefreshInv, AnswersAreFresh
<1>6. UsedByTheWaiting'
  BY <1>1, <1>2, SessionsAssumption DEF RefreshInv, UsedByTheWaiting
<1>7. SentIsNotUsed'
  BY <1>1, <1>2, SessionsAssumption DEF RefreshInv, SentIsNotUsed
<1>8. RefusedForCause'
  BY <1>1, <1>2, SessionsAssumption DEF RefreshInv, RefusedForCause
<1> QED BY <1>3, <1>4, <1>5, <1>6, <1>7, <1>8 DEF RefreshInv

(* One step per action. *)
LEMMA RefreshStep ==
  ASSUME RefreshInv, [SessionsNext]_sessionVars PROVE RefreshInv'
<1> USE TokensAreNumbers
<1>0. SessionsTypeOK' /\ CallsHaveTabs' /\ SessionsTypeOK
  BY SessionsTypeStep DEF RefreshInv
<1>1. /\ \A r \in refreshes : r \in Refresh /\ r.token \in Tokens /\ r.tab \in Tabs /\ r.tab # NoTab
                             /\ r.tab # Nobody /\ r.tab # LoggedOut /\ r.got \in 0..MaxTokens
                             /\ r.st \in {"sent", "answered", "refused"}
      /\ \A t \in Tokens : row[t] \in Row /\ row[t].user \in Users \cup {NoUser}
                          /\ row[t].state \in {"none", "live", "revoked", "expired"}
  BY <1>0, SessionsAssumption DEF SessionsTypeOK, Refresh, Row
<1>2. ASSUME NEW t \in Tokens, AccessExpires(t) PROVE RefreshInv'
  BY <1>0, <1>2, PairIsDropped DEF AccessExpires, network
<1>3. ASSUME NEW t \in Tokens, NEW x \in Row, row' = [row EXCEPT ![t] = x], x.state = "expired",
             row[t].state = "live", x.by = row[t].by, UNCHANGED <<store, refreshing, refreshes>>,
             t = store
      PROVE  RefreshInv'
  <2>1. \A o \in Tokens : row'[o] = IF o = t THEN x ELSE row[o]
    BY <1>0, <1>3 DEF SessionsTypeOK
  <2> QED BY <1>0, <1>1, <1>3, <2>1
          DEF RefreshInv, KnownPairsAreIssued, OneRefreshPerTab, AnswersAreFresh, UsedByTheWaiting,
              SentIsNotUsed, RefusedForCause
<1>4. ASSUME NEW t \in Tokens, RowExpires(t) PROVE RefreshInv'
  <2> DEFINE x == [row[t] EXCEPT !.state = "expired"]
  <2>1. x \in Row /\ x.state = "expired" /\ x.by = row[t].by
    BY <1>1, RowsAreReplaced
  <2>2. row' = [row EXCEPT ![t] = x]
    BY <1>4 DEF RowExpires
  <2> HIDE DEF x
  <2> QED BY <1>3, <1>4, <2>1, <2>2 DEF RowExpires, network
<1>5. ASSUME NEW r \in refreshes, RefreshAccepted(r) PROVE RefreshInv'
  <2>1. PICK t \in FreshRow :
          /\ row' = [row EXCEPT ![r.token].state = "revoked", ![r.token].by = r.tab,
                                ![t] = NewRow(row[r.token].user)]
          /\ refreshes' = (refreshes \ {r}) \cup {[r EXCEPT !.st = "answered", !.got = t]}
    BY <1>5 DEF RefreshAccepted
  <2> DEFINE x == [row[r.token] EXCEPT !.state = "revoked", !.by = r.tab]
             y == NewRow(row[r.token].user)
             q == [r EXCEPT !.st = "answered", !.got = t]
  <2>2. x.state = "revoked" /\ x.by = r.tab /\ y.state = "live" /\ y.by = Nobody
    <3>1. x.state = "revoked" /\ x.by = r.tab
      BY <1>1 DEF Row
    <3>2. y.state = "live" /\ y.by = Nobody
      BY <1>1, NewRowsAreRows
    <3> QED BY <3>1, <3>2
  <2>3. t \in Tokens /\ row[t].state = "none" /\ t # r.token /\ row[r.token].state = "live" /\ t \in 0..MaxTokens
    BY <1>1, <1>5 DEF FreshRow, RefreshAccepted
  <2>4. q.st = "answered" /\ q.got = t /\ q.tab = r.tab /\ q.token = r.token
    BY <1>1, <2>3 DEF Refresh
  <2>5. \A o \in Tokens : row'[o] = IF o = t THEN y ELSE IF o = r.token THEN x ELSE row[o]
    BY <1>0, <1>1, <2>1, <2>3 DEF SessionsTypeOK
  <2>6. refreshes' = (refreshes \ {r}) \cup {q} /\ store' = store /\ refreshing' = refreshing /\ r.st = "sent"
    BY <1>5, <2>1 DEF RefreshAccepted
  <2> HIDE DEF x, y, q
  <2>7. KnownPairsAreIssued'
    BY <1>1, <2>2, <2>3, <2>4, <2>5, <2>6 DEF RefreshInv, KnownPairsAreIssued
  <2>8. OneRefreshPerTab'
    BY <1>1, <2>4, <2>6 DEF RefreshInv, OneRefreshPerTab
  <2>9. AnswersAreFresh'
    BY <1>1, <2>2, <2>3, <2>4, <2>5, <2>6 DEF RefreshInv, AnswersAreFresh, KnownPairsAreIssued
  <2>10. UsedByTheWaiting'
    BY <1>1, <2>2, <2>3, <2>4, <2>5, <2>6, SessionsAssumption
       DEF RefreshInv, UsedByTheWaiting, KnownPairsAreIssued
  <2>11. SentIsNotUsed'
    BY <1>1, <2>2, <2>3, <2>4, <2>5, <2>6 DEF RefreshInv, SentIsNotUsed, OneRefreshPerTab
  <2>12. RefusedForCause'
    BY <1>1, <2>2, <2>3, <2>4, <2>5, <2>6
       DEF RefreshInv, RefusedForCause, OneRefreshPerTab, KnownPairsAreIssued
  <2> QED BY <1>0, <2>7, <2>8, <2>9, <2>10, <2>11, <2>12 DEF RefreshInv
<1>6. ASSUME NEW r \in refreshes, RefreshRejected(r) PROVE RefreshInv'
  <2> DEFINE q == [r EXCEPT !.st = "refused"]
  <2>1. q.st = "refused" /\ q.tab = r.tab /\ q.token = r.token
    BY <1>1, RequestsAreReplaced
  <2>2. /\ refreshes' = (refreshes \ {r}) \cup {q} /\ UNCHANGED <<store, refreshing, row>>
        /\ r.st = "sent" /\ row[r.token].state # "live"
    BY <1>6 DEF RefreshRejected, server
  <2> HIDE DEF q
  <2> QED BY <1>0, <1>1, <2>1, <2>2
          DEF RefreshInv, KnownPairsAreIssued, OneRefreshPerTab, AnswersAreFresh, UsedByTheWaiting,
              SentIsNotUsed, RefusedForCause
<1>7. ASSUME NEW r \in refreshes, RefreshDone(r) PROVE RefreshInv'
  <2>1. /\ store' = r.got /\ refreshing' = refreshing \ {r.tab} /\ refreshes' = refreshes \ {r}
        /\ row' = row /\ r.st = "answered"
    BY <1>7 DEF RefreshDone, Release, server
  <2> QED BY <1>0, <1>1, <2>1, SessionsAssumption
          DEF RefreshInv, KnownPairsAreIssued, OneRefreshPerTab, AnswersAreFresh, UsedByTheWaiting,
              SentIsNotUsed, RefusedForCause
<1>8. ASSUME NEW r \in refreshes, RefreshRefused(r) PROVE RefreshInv'
  <2>1. /\ store' = NoToken /\ refreshing' = refreshing \ {r.tab} /\ refreshes' = refreshes \ {r}
        /\ row' = row
    BY <1>8 DEF RefreshRefused, Release, ClearUserSession, server
  <2> QED BY <1>0, <1>1, <2>1
          DEF RefreshInv, KnownPairsAreIssued, OneRefreshPerTab, AnswersAreFresh, UsedByTheWaiting,
              SentIsNotUsed, RefusedForCause
<1>9. ASSUME NEW tab \in Tabs, NEW user \in Users, Login(tab, user) PROVE RefreshInv'
  <2>1. PICK t \in FreshRow : row' = [row EXCEPT ![t] = NewRow(user)] /\ SetSessionTokens(tab, t, user)
    BY <1>9 DEF Login
  <2>2. t \in Tokens /\ row[t].state = "none"
    BY DEF FreshRow
  <2> DEFINE y == NewRow(user)
  <2>3. y.state = "live" /\ y.by = Nobody
    BY NewRowsAreRows
  <2>4. \A o \in Tokens : row'[o] = IF o = t THEN y ELSE row[o]
    BY <1>0, <2>1 DEF SessionsTypeOK
  <2>5. store' = t /\ UNCHANGED <<refreshing, refreshes>>
    BY <1>9, <2>1 DEF SetSessionTokens, Login, network
  <2> HIDE DEF y
  <2>7. KnownPairsAreIssued'
    BY <1>1, <2>2, <2>3, <2>4, <2>5 DEF RefreshInv, KnownPairsAreIssued
  <2>8. OneRefreshPerTab'
    BY <2>5 DEF RefreshInv, OneRefreshPerTab
  <2>9. AnswersAreFresh'
    BY <1>1, <2>2, <2>3, <2>4, <2>5 DEF RefreshInv, AnswersAreFresh
  <2>10. UsedByTheWaiting'
    BY <2>2, <2>3, <2>4, <2>5, SessionsAssumption DEF UsedByTheWaiting
  <2>11. SentIsNotUsed' /\ RefusedForCause'
    BY <1>1, <2>2, <2>3, <2>4, <2>5 DEF RefreshInv, SentIsNotUsed, RefusedForCause, KnownPairsAreIssued
  <2> QED BY <1>0, <2>7, <2>8, <2>9, <2>10, <2>11 DEF RefreshInv
<1>10. ASSUME NEW tab \in Tabs, NEW c \in Calls, Send(tab, c) PROVE RefreshInv'
  BY <1>0, <1>10, PairIsDropped DEF Send, server
<1>11. ASSUME NEW tab \in Tabs, Logout(tab) PROVE RefreshInv'
  <2>1. store \in Tokens /\ store' = NoToken /\ UNCHANGED <<refreshing, refreshes>>
    BY <1>0, <1>11 DEF Logout, ClearUserSession, SessionsTypeOK, network
  <2>2. CASE row' = row
    BY <1>0, <2>1, <2>2, PairIsDropped
  <2>3. CASE /\ row[store].state = "live"
             /\ row' = [row EXCEPT ![store].state = "revoked", ![store].by = LoggedOut]
    <3> DEFINE x == [row[store] EXCEPT !.state = "revoked", !.by = LoggedOut]
    <3>1. x.state = "revoked" /\ x.by = LoggedOut
      BY <1>1, <2>1 DEF Row
    <3>2. \A o \in Tokens : row'[o] = IF o = store THEN x ELSE row[o]
      BY <1>0, <2>1, <2>3 DEF SessionsTypeOK
    <3>5a. row[store].state = "live"
      BY <2>3
    <3> HIDE DEF x
    <3>3. KnownPairsAreIssued' /\ UsedByTheWaiting'
      BY <1>1, <2>1, <3>1, <3>2, <3>5a DEF RefreshInv, KnownPairsAreIssued, UsedByTheWaiting
    <3>4. OneRefreshPerTab' /\ AnswersAreFresh'
      BY <1>1, <2>1, <3>1, <3>2, <3>5a DEF RefreshInv, OneRefreshPerTab, AnswersAreFresh
    <3>5. SentIsNotUsed' /\ RefusedForCause'
      BY <1>1, <2>1, <3>1, <3>2, <3>5a DEF RefreshInv, SentIsNotUsed, RefusedForCause
    <3> QED BY <1>0, <3>3, <3>4, <3>5 DEF RefreshInv
  <2> QED BY <1>11, <2>2, <2>3 DEF Logout
<1>12. ASSUME NEW tab \in Tabs, RefreshFails(tab) PROVE RefreshInv'
  BY <1>0, <1>12, RefreshIsAbandoned DEF RefreshFails, Release, ClearUserSession
<1>13. ASSUME NEW tab \in Tabs, Unload(tab) PROVE RefreshInv'
  BY <1>0, <1>13, RefreshIsAbandoned DEF Unload
<1>14. ASSUME NEW c \in Calls, Answer(c) PROVE RefreshInv'
  BY <1>0, <1>14, PairIsDropped DEF Answer, server
<1>15. ASSUME NEW c \in Calls, Fail(c) PROVE RefreshInv'
  BY <1>0, <1>15, PairIsDropped DEF Fail, server
<1>16. ASSUME NEW c \in Calls, UnauthorizedAlone(c) \/ FailAgain(c) PROVE RefreshInv'
  BY <1>0, <1>16, PairIsDropped DEF UnauthorizedAlone, FailAgain, ClearUserSession, server
<1>17. ASSUME NEW c \in Calls, Unauthorized(c) PROVE RefreshInv'
  <2>1. CASE call[c].tab \in refreshing
    BY <1>0, <1>17, <2>1, PairIsDropped DEF Unauthorized, server
  <2>2. CASE call[c].tab \notin refreshing
    <3> DEFINE q == [tab |-> call[c].tab, token |-> store, st |-> "sent", got |-> NoToken]
    <3>1. q.tab = call[c].tab /\ q.token = store /\ q.st = "sent"
      OBVIOUS
    <3>2. /\ refreshes' = refreshes \cup {q} /\ refreshing' = refreshing \cup {call[c].tab}
          /\ UNCHANGED <<row, store>> /\ store \in Tokens /\ call[c].tab \in Tabs
      BY <1>0, <1>17, <2>2 DEF Unauthorized, SendRefresh, server, SessionsTypeOK, RefreshInv, CallsHaveTabs
    <3> HIDE DEF q
    <3> QED BY <1>0, <1>1, <2>2, <3>1, <3>2
            DEF RefreshInv, KnownPairsAreIssued, OneRefreshPerTab, AnswersAreFresh, UsedByTheWaiting,
                SentIsNotUsed, RefusedForCause
  <2> QED BY <2>1, <2>2
<1>18. CASE UNCHANGED sessionVars
  BY <1>0, <1>18, PairIsDropped DEF sessionVars
<1> QED BY <1>2, <1>4, <1>5, <1>6, <1>7, <1>8, <1>9, <1>10, <1>11, <1>12, <1>13, <1>14, <1>15,
           <1>16, <1>17, <1>18 DEF SessionsNext

(* What is known of the refreshes holds always.                              *)
LEMMA RefreshInvariance == SessionsSpec => []RefreshInv
BY RefreshInit, RefreshStep, PTL DEF SessionsSpec

(* Who is signed in stays the same while the pair does, as rows keep their   *)
(* users.                                                                    *)
LEMMA UsersAreKept ==
  ASSUME RefreshInv, [SessionsNext]_sessionVars, store' = store PROVE SignedIn' = SignedIn
<1> USE TokensAreNumbers
<1>1. SessionsTypeOK /\ row \in [Tokens -> Row] /\ (store \in Tokens => row[store].state # "none")
  BY DEF RefreshInv, SessionsTypeOK, KnownPairsAreIssued
<1>2. ASSUME store \in Tokens PROVE row'[store].user = row[store].user
  <2>1. ASSUME NEW t \in FreshRow, NEW x, row' = [row EXCEPT ![t] = x] PROVE row'[store].user = row[store].user
    BY <1>1, <1>2, <2>1 DEF FreshRow
  <2>2. ASSUME NEW t \in Tokens, RowExpires(t) PROVE row'[store].user = row[store].user
    <3>1. [row[t] EXCEPT !.state = "expired"].user = row[t].user
      BY <1>1 DEF Row
    <3> QED BY <1>1, <1>2, <2>2, <3>1 DEF RowExpires
  <2>3. ASSUME NEW r \in refreshes, RefreshAccepted(r) PROVE row'[store].user = row[store].user
    <3>1. PICK t \in FreshRow :
            row' = [row EXCEPT ![r.token].state = "revoked", ![r.token].by = r.tab,
                               ![t] = NewRow(row[r.token].user)]
      BY <2>3 DEF RefreshAccepted
    <3>2. t \in Tokens /\ t # store /\ r.token \in Tokens /\ r.tab \in Tabs
      BY <1>1, <1>2 DEF FreshRow, SessionsTypeOK, Refresh
    <3> DEFINE x == [row[r.token] EXCEPT !.state = "revoked", !.by = r.tab]
    <3>3. x.user = row[r.token].user
      BY <1>1, <3>2 DEF Row
    <3>4. row'[store] = IF store = r.token THEN x ELSE row[store]
      BY <1>1, <1>2, <3>1, <3>2
    <3> HIDE DEF x
    <3> QED BY <3>3, <3>4
  <2>4. ASSUME NEW tab \in Tabs, Abandon(tab) PROVE row'[store].user = row[store].user
    BY <1>1, <1>2, <2>4, AbandonType
  <2>5. ASSUME NEW tab \in Tabs, Logout(tab) PROVE row'[store].user = row[store].user
    BY <1>2, <2>5 DEF Logout, ClearUserSession
  <2>6. ASSUME row' = row PROVE row'[store].user = row[store].user
    BY <2>6
  <2> QED BY <2>1, <2>2, <2>3, <2>4, <2>5, <2>6
          DEF SessionsNext, AccessExpires, RefreshRejected, RefreshDone, RefreshRefused, Login, Send,
              RefreshFails, Unload, Answer, Fail, UnauthorizedAlone, Unauthorized, FailAgain,
              server, sessionVars
<1> QED BY <1>1, <1>2 DEF SignedIn, Owner

(* The caches are emptied or nobody is signed in. *)
LEMMA CachesAreCleared ==
  ASSUME NEW tab, ClearUserSession(tab) PROVE CachesAreOwn'
BY TokensAreNumbers DEF ClearUserSession, CachesAreOwn, SignedIn, Owner

(* A step that touches no cache keeps them.                                  *)
LEMMA CachesStay ==
  ASSUME CachesAreOwn, SignedIn' = SignedIn, UNCHANGED <<caches, outside>>, mixed' = FALSE => ~mixed
  PROVE  CachesAreOwn'
BY DEF CachesAreOwn, caches

(* Every step keeps the caches own.                                          *)
LEMMA CacheStep ==
  ASSUME RefreshInv, CachesAreOwn, [SessionsNext]_sessionVars PROVE CachesAreOwn'
<1> USE TokensAreNumbers
<1>0. SessionsTypeOK /\ mixed \in BOOLEAN
  BY DEF RefreshInv, SessionsTypeOK
<1>1. ASSUME UNCHANGED <<store, caches, outside, mixed>> PROVE CachesAreOwn'
  BY <1>1, <1>0, UsersAreKept, CachesStay
<1>2. ASSUME NEW tab, ClearUserSession(tab) PROVE CachesAreOwn'
  BY <1>2, CachesAreCleared
<1>3. ASSUME NEW r \in refreshes, RefreshDone(r) PROVE CachesAreOwn'
  <2>1. SignedIn' = Owner(r.got)
    BY <1>3 DEF RefreshDone, SignedIn, Owner, server
  <2>2. CASE SignedIn = Owner(r.got)
    BY <1>0, <1>3, <2>1, <2>2, CachesStay DEF RefreshDone
  <2>3. CASE SignedIn # Owner(r.got)
    BY <1>3, <2>3 DEF RefreshDone, CachesAreOwn
  <2> QED BY <2>2, <2>3
<1>4. ASSUME NEW tab \in Tabs, NEW user \in Users, Login(tab, user) PROVE CachesAreOwn'
  <2>1. PICK t \in FreshRow : row' = [row EXCEPT ![t] = NewRow(user)] /\ SetSessionTokens(tab, t, user)
    BY <1>4 DEF Login
  <2>2. SignedIn' = user
    BY <1>0, <2>1, NewRowsAreRows DEF SetSessionTokens, SignedIn, Owner, SessionsTypeOK, FreshRow
  <2>3. CASE user = SignedIn
    BY <1>0, <1>4, <2>1, <2>2, <2>3, CachesStay DEF SetSessionTokens, Login, caches
  <2>4. CASE user # SignedIn
    BY <1>0, <2>1, <2>2, <2>4 DEF SetSessionTokens, CachesAreOwn, SessionsTypeOK
  <2> QED BY <2>3, <2>4
<1>5. ASSUME NEW c \in Calls, Answer(c) PROVE CachesAreOwn'
  <2>1. SignedIn' = SignedIn
    BY <1>5, UsersAreKept DEF Answer
  <2>2. CASE Owner(call[c].token) = SignedIn
    BY <1>0, <1>5, <2>1, <2>2 DEF Answer, CachesAreOwn, SessionsTypeOK
  <2>3. CASE Owner(call[c].token) # SignedIn
    BY <1>5, <2>3 DEF Answer, CachesAreOwn
  <2> QED BY <2>2, <2>3
<1> QED BY <1>1, <1>2, <1>3, <1>4, <1>5
        DEF SessionsNext, AccessExpires, RowExpires, RefreshAccepted, RefreshRejected, RefreshRefused,
            Send, Logout, RefreshFails, Unload, Fail, UnauthorizedAlone, Unauthorized, FailAgain,
            sessionVars, caches

(* The calls of a tab never use up each other's token.                       *)
THEOREM RefusalsHaveACause == SessionsSpec => []RefusedForCause
<1>1. RefreshInv => RefusedForCause
  BY DEF RefreshInv
<1> QED BY <1>1, RefreshInvariance, PTL

(* The caches hold the answers of who is signed in, unless a late answer or  *)
(* another tab crossed the change of user.                                   *)
THEOREM CachesStayOwn == SessionsSpec => []CachesAreOwn
<1>1. SessionsInit => CachesAreOwn
  BY DEF SessionsInit, CachesAreOwn
<1>2. RefreshInv /\ CachesAreOwn /\ [SessionsNext]_sessionVars => CachesAreOwn'
  BY CacheStep
<1> QED BY <1>1, <1>2, RefreshInvariance, PTL DEF SessionsSpec

(* Type correctness. *)
THEOREM SessionsTypeCorrect == SessionsSpec => []SessionsTypeOK
<1>1. RefreshInv => SessionsTypeOK
  BY DEF RefreshInv
<1> QED BY <1>1, RefreshInvariance, PTL

-----------------------------------------------------------------------------
(* Toggle.                                                                   *)

(* The types; that the counter stays within its bounds is left to the runs.  *)
Flags ==
  /\ value \in BOOLEAN /\ confirmed \in BOOLEAN /\ inflight \in BOOLEAN /\ stored \in BOOLEAN
  /\ faulty \in BOOLEAN /\ together \in BOOLEAN /\ resent \in BOOLEAN

(* Intents, requests and counts.                                             *)
ButtonTypes ==
  /\ Flags
  /\ intent \in {"none", "on", "off"} /\ retry \in {"none", "on", "off"}
  /\ requests \subseteq Request /\ clicks \in 0..MaxClicks /\ counter \in Int

(* inflightRef: a click is only kept for later while a request is under way. *)
KeptForLater == intent # "none" => inflight
(* The flag that blocks a second request is only set with one under way.     *)
InflightIsPending == inflight => requests # {}

(* A request comes of a click.                                               *)
RequestsAreClicks == requests # {} => clicks > 0

(* Unless two ran at once there is one request at most.                      *)
OneAtATime == ~together => \A r, q \in requests : r = q

(* What a request that ran alone has had served is stored.                   *)
ServedIsStored == ~together => \A r \in requests : r.served => stored = r.want

(* What was clicked last is what the last request wants. *)
ValueIsWanted ==
  clicks > 0 /\ ~faulty /\ ~together =>
    /\ intent # "none" => AsBool(intent) = value
    /\ \A r \in requests : intent = "none" => r.want = value
    /\ requests = {} => stored = value

(* The counter of a like counts it once, unless a request was sent again.    *)
CounterCounts == button # "like" /\ ~resent => counter = IF stored THEN 1 ELSE 0

(* The inductive invariant.                                                  *)
ToggleInv == /\ ButtonTypes /\ KeptForLater /\ InflightIsPending /\ RequestsAreClicks
             /\ OneAtATime /\ ServedIsStored /\ ValueIsWanted /\ CounterCounts

-----------------------------------------------------------------------------
(* A request that is served is the same request.                             *)
LEMMA RequestsAreTyped ==
  ASSUME NEW r \in Request
  PROVE  /\ r.want \in BOOLEAN /\ r.served \in BOOLEAN
         /\ [r EXCEPT !.served = TRUE] \in Request
         /\ [r EXCEPT !.served = TRUE].served = TRUE
         /\ [r EXCEPT !.served = TRUE].want = r.want
BY DEF Request

(* An intent stands for what the button shows.                               *)
LEMMA IntentsAreClicks ==
  ASSUME NEW b \in BOOLEAN
  PROVE  AsIntent(b) \in {"on", "off"} /\ AsBool(AsIntent(b)) = b /\ AsIntent(b) # "none"
BY DEF AsIntent, AsBool

(* The invariant holds at first.                                             *)
LEMMA ToggleInitInv == ToggleInit => ToggleInv
<1> SUFFICES ASSUME ToggleInit PROVE ToggleInv
  OBVIOUS
<1>1. ButtonTypes
  <2>1. value \in BOOLEAN /\ stored \in BOOLEAN
    BY DEF ToggleInit
  <2>2. counter \in Int /\ clicks \in 0..MaxClicks
    BY ToggleAssumption DEF ToggleInit
  <2> QED BY <2>1, <2>2 DEF ToggleInit, ButtonTypes, Flags
<1>2. KeptForLater /\ InflightIsPending /\ OneAtATime /\ ServedIsStored /\ CounterCounts /\ RequestsAreClicks
  BY DEF ToggleInit, RequestsAreClicks, KeptForLater, InflightIsPending, OneAtATime, ServedIsStored, CounterCounts
<1>3. ValueIsWanted
  BY DEF ToggleInit, ValueIsWanted
<1> QED BY <1>1, <1>2, <1>3 DEF ToggleInv

(* A click, or the retry of one. *)
LEMMA ClickKeeps ==
  ASSUME ToggleInv, NEW from \in BOOLEAN, Toggled(from),
         UNCHANGED <<button, stored, counter, resent>>, retry' \in {"none", "on", "off"}
  PROVE  ToggleInv'
<1>0. ButtonTypes /\ MaxClicks \in Nat
  BY ToggleAssumption DEF ToggleInv
<1>1. /\ clicks < MaxClicks /\ clicks' = clicks + 1 /\ value' = ~from /\ confirmed' = from
      /\ faulty' = FALSE /\ clicks' \in 1..MaxClicks
  BY <1>0 DEF Toggled, ButtonTypes
<1>1a. RequestsAreClicks'
  BY <1>1 DEF RequestsAreClicks
<1>2. value' \in BOOLEAN /\ (~from) \in BOOLEAN /\ confirmed' \in BOOLEAN
  BY <1>1
<1>3. CASE inflight
  <2>1. intent' = AsIntent(~from) /\ UNCHANGED <<inflight, requests, together>>
    BY <1>3 DEF Toggled
  <2>2. intent' \in {"on", "off"} /\ AsBool(intent') = value' /\ intent' # "none"
    BY <1>1, <1>2, <2>1, IntentsAreClicks
  <2>3. ButtonTypes'
    <3>1. faulty' \in BOOLEAN
      BY <1>1
    <3>2. Flags'
      BY <1>0, <1>2, <2>1, <3>1 DEF ButtonTypes, Flags
    <3> QED BY <1>0, <1>1, <2>1, <2>2, <3>2 DEF ButtonTypes
  <2>4. KeptForLater' /\ InflightIsPending' /\ OneAtATime' /\ ServedIsStored' /\ CounterCounts'
    BY <1>3, <2>1 DEF ToggleInv, KeptForLater, InflightIsPending, OneAtATime, ServedIsStored, CounterCounts
  <2>5. ValueIsWanted'
    BY <1>3, <2>1, <2>2 DEF ValueIsWanted, ToggleInv, InflightIsPending
  <2> QED BY <1>1a, <2>3, <2>4, <2>5 DEF ToggleInv
<1>4. CASE ~inflight
  <2> DEFINE r == [number |-> clicks', want |-> ~from, served |-> FALSE]
  <2>1. r \in Request /\ r.want = (~from) /\ ~r.served
    BY <1>1, <1>2 DEF Request
  <2>2. /\ inflight' = TRUE /\ intent' = intent /\ requests' = requests \cup {r}
        /\ together' = (together \/ requests # {})
    BY <1>4 DEF Toggled, Execute
  <2> HIDE DEF r
  <2>3. intent = "none"
    BY <1>4 DEF ToggleInv, KeptForLater
  <2>4. ~together' => ~together /\ requests = {}
    BY <2>2
  <2>5. ButtonTypes'
    <3>1. together' \in BOOLEAN
      BY <1>0, <2>2 DEF ButtonTypes, Flags
    <3>2. faulty' \in BOOLEAN /\ inflight' \in BOOLEAN
      BY <1>1, <2>2
    <3>3. Flags'
      BY <1>0, <1>2, <3>1, <3>2 DEF ButtonTypes, Flags
    <3> QED BY <1>0, <1>1, <2>1, <2>2, <3>3 DEF ButtonTypes
  <2>6. KeptForLater' /\ InflightIsPending' /\ CounterCounts'
    BY <2>2 DEF ToggleInv, KeptForLater, InflightIsPending, CounterCounts
  <2>7. OneAtATime' /\ ServedIsStored'
    BY <2>1, <2>2, <2>4 DEF OneAtATime, ServedIsStored
  <2>8. ValueIsWanted'
    BY <1>1, <2>1, <2>2, <2>3, <2>4 DEF ValueIsWanted
  <2> QED BY <1>1a, <2>5, <2>6, <2>7, <2>8 DEF ToggleInv
<1> QED BY <1>3, <1>4

(* The server carries a request out. *)
LEMMA ServeKeeps ==
  ASSUME ToggleInv, NEW r \in requests, Serve(r),
         \/ button = "like" /\ counter' = counter
         \/ counter' = IF r.want THEN counter + 1 ELSE counter - 1
  PROVE  ToggleInv'
<1>0. ButtonTypes /\ r \in Request /\ r.want \in BOOLEAN /\ counter' \in Int
  <2>1. ButtonTypes /\ r \in Request
    BY DEF ToggleInv, ButtonTypes
  <2>2. r.want \in BOOLEAN
    BY <2>1, RequestsAreTyped
  <2>3. counter' \in Int
    BY <2>1 DEF ButtonTypes
  <2> QED BY <2>1, <2>2, <2>3
<1> DEFINE q == [r EXCEPT !.served = TRUE]
<1>1. q \in Request /\ q.served = TRUE /\ q.want = r.want
  BY <1>0, RequestsAreTyped
<1>2. /\ requests' = (requests \ {r}) \cup {q} /\ stored' = r.want
      /\ resent' = (resent \/ stored = r.want)
      /\ UNCHANGED <<button, value, confirmed, intent, inflight, retry, clicks, faulty, together>>
  BY DEF Serve
<1> HIDE DEF q
<1>3. ButtonTypes'
  <2>1. resent' \in BOOLEAN
    BY <1>0, <1>2 DEF ButtonTypes, Flags
  <2> QED BY <1>0, <1>1, <1>2, <2>1 DEF ButtonTypes, Flags
<1>4. KeptForLater' /\ InflightIsPending' /\ RequestsAreClicks'
  BY <1>2 DEF ToggleInv, KeptForLater, InflightIsPending, RequestsAreClicks
<1>5. OneAtATime' /\ ServedIsStored'
  <2> SUFFICES ASSUME ~together' PROVE (\A x, y \in requests' : x = y) /\ \A x \in requests' : stored' = x.want
    BY DEF OneAtATime, ServedIsStored
  <2>1. requests' = {q}
    BY <1>2 DEF ToggleInv, OneAtATime
  <2> QED BY <1>1, <1>2, <2>1
<1>6. ValueIsWanted'
  <2> SUFFICES ASSUME clicks' > 0, ~faulty', ~together'
               PROVE  /\ intent' # "none" => AsBool(intent') = value'
                      /\ \A x \in requests' : intent' = "none" => x.want = value'
                      /\ requests' = {} => stored' = value'
    BY DEF ValueIsWanted
  <2>1. /\ intent # "none" => AsBool(intent) = value
        /\ \A x \in requests : intent = "none" => x.want = value
    BY <1>2 DEF ToggleInv, ValueIsWanted
  <2> QED BY <1>1, <1>2, <2>1
<1>7. CounterCounts'
  <2> SUFFICES ASSUME button # "like", ~resent, stored # r.want
               PROVE  counter' = IF r.want THEN 1 ELSE 0
    BY <1>2 DEF CounterCounts
  <2>1. counter = IF stored THEN 1 ELSE 0
    BY DEF ToggleInv, CounterCounts
  <2>2. counter' = IF r.want THEN counter + 1 ELSE counter - 1
    OBVIOUS
  <2>3. CASE r.want
    <3>1. ~stored
      BY <1>0, <2>3 DEF ButtonTypes, Flags
    <3> QED BY <2>1, <2>2, <2>3, <3>1
  <2>4. CASE ~r.want
    <3>1. stored
      BY <1>0, <2>4 DEF ButtonTypes, Flags
    <3> QED BY <2>1, <2>2, <2>4, <3>1
  <2> QED BY <2>3, <2>4
<1> QED BY <1>3, <1>4, <1>5, <1>6, <1>7 DEF ToggleInv

(* A request is over, and the click kept for later is sent.                  *)
LEMMA SettleKeeps ==
  ASSUME ToggleInv, NEW r \in requests, Settle(r), UNCHANGED <<button, stored, counter, resent>>,
         clicks < MaxClicks, value' \in BOOLEAN, confirmed' \in BOOLEAN, retry' \in {"none", "on", "off"},
         \/ faulty' = TRUE
         \/ faulty' = faulty /\ value' = value /\ r.served
  PROVE  ToggleInv'
<1>0. ButtonTypes /\ MaxClicks \in Nat /\ clicks + 1 \in 1..MaxClicks /\ faulty' \in BOOLEAN
  <2>1. ButtonTypes /\ MaxClicks \in Nat
    BY ToggleAssumption DEF ToggleInv
  <2>2. clicks + 1 \in 1..MaxClicks
    BY <2>1 DEF ButtonTypes
  <2>3. faulty' \in BOOLEAN
    BY <2>1 DEF ButtonTypes, Flags
  <2> QED BY <2>1, <2>2, <2>3
<1>1. inflight' = FALSE /\ intent' = "none"
  BY DEF Settle
<1>2a. clicks > 0 /\ clicks' > 0
  BY <1>0 DEF ToggleInv, RequestsAreClicks, ButtonTypes, Settle
<1>2. KeptForLater' /\ InflightIsPending' /\ CounterCounts' /\ RequestsAreClicks'
  BY <1>1, <1>2a DEF RequestsAreClicks, ToggleInv, KeptForLater, InflightIsPending, CounterCounts
<1>3. CASE intent = "none"
  <2>1. requests' = requests \ {r} /\ UNCHANGED <<clicks, together>>
    BY <1>3 DEF Settle
  <2>2. ButtonTypes'
    BY <1>0, <1>1, <2>1 DEF ButtonTypes, Flags
  <2>3. OneAtATime' /\ ServedIsStored'
    BY <2>1 DEF ToggleInv, OneAtATime, ServedIsStored
  <2>4. ValueIsWanted'
    <3> SUFFICES ASSUME clicks' > 0, ~faulty', ~together'
                 PROVE  requests' = {} /\ stored' = value'
      BY <1>1 DEF ValueIsWanted
    <3>1. requests' = {}
      BY <2>1 DEF ToggleInv, OneAtATime
    <3>2. r.want = value /\ value' = value /\ r.served
      BY <1>3, <2>1 DEF ToggleInv, ValueIsWanted
    <3>3. stored = r.want
      BY <2>1, <3>2 DEF ToggleInv, ServedIsStored
    <3> QED BY <3>1, <3>2, <3>3
  <2> QED BY <1>2, <2>2, <2>3, <2>4 DEF ToggleInv
<1>4. CASE intent # "none"
  <2> DEFINE q == [number |-> clicks', want |-> AsBool(intent), served |-> FALSE]
  <2>1. /\ clicks' = clicks + 1 /\ requests' = (requests \ {r}) \cup {q}
        /\ together' = (together \/ requests \ {r} # {})
    BY <1>4 DEF Settle, Execute
  <2>2. AsBool(intent) \in BOOLEAN
    BY DEF AsBool
  <2>3. q \in Request /\ q.want = AsBool(intent) /\ ~q.served
    BY <1>0, <2>1, <2>2 DEF Request
  <2> HIDE DEF q
  <2>4. ~together' => ~together /\ requests' = {q}
    BY <2>1
  <2>5. ButtonTypes'
    <3>1. together' \in BOOLEAN
      BY <1>0, <2>1 DEF ButtonTypes, Flags
    <3>2. inflight' \in BOOLEAN
      BY <1>1
    <3>3. Flags'
      BY <1>0, <3>1, <3>2 DEF ButtonTypes, Flags
    <3> QED BY <1>0, <1>1, <2>1, <2>3, <3>3 DEF ButtonTypes
  <2>6. OneAtATime' /\ ServedIsStored'
    BY <2>3, <2>4 DEF OneAtATime, ServedIsStored
  <2>7. ValueIsWanted'
    <3> SUFFICES ASSUME clicks' > 0, ~faulty', ~together'
                 PROVE  \A x \in requests' : x.want = value'
      BY <1>1, <2>4 DEF ValueIsWanted
    <3>1. value' = value /\ ~faulty /\ ~together
      BY <2>4
    <3>2. clicks > 0
      BY <1>2a
    <3>3. AsBool(intent) = value
      BY <1>4, <3>1, <3>2 DEF ToggleInv, ValueIsWanted
    <3> QED BY <2>3, <2>4, <3>1, <3>3
  <2> QED BY <1>2, <2>5, <2>6, <2>7 DEF ToggleInv
<1> QED BY <1>3, <1>4

(* Every step keeps it, by the lemmas above.                                 *)
LEMMA ToggleStep == ASSUME ToggleInv, [ToggleNext]_toggleVars PROVE ToggleInv'
<1>0. ButtonTypes /\ ToggleInv
  BY DEF ToggleInv
<1>1. ASSUME ToggleClick PROVE ToggleInv'
  BY <1>0, <1>1, ClickKeeps DEF ToggleClick, ButtonTypes, Flags
<1>2. ASSUME ToggleRetry PROVE ToggleInv'
  <2>1. (~AsBool(retry)) \in BOOLEAN
    OBVIOUS
  <2> QED BY <1>0, <1>2, <2>1, ClickKeeps DEF ToggleRetry
<1>3. ASSUME NEW r \in requests, LikeServed(r) \/ FollowServed(r) PROVE ToggleInv'
  BY <1>0, <1>3, ServeKeeps DEF LikeServed, FollowServed
<1>4. ASSUME NEW r \in requests, ToggleConfirmed(r) PROVE ToggleInv'
  <2>1. r.want \in BOOLEAN
    BY <1>0, RequestsAreTyped DEF ButtonTypes, Flags
  <2> QED BY <1>0, <1>4, <2>1, SettleKeeps DEF ToggleConfirmed, ButtonTypes, Flags
<1>5. ASSUME NEW r \in requests, ToggleFailed(r) PROVE ToggleInv'
  <2>1. retry' \in {"none", "on", "off"}
    BY <1>0, <1>5 DEF ToggleFailed, ButtonTypes, AsIntent
  <2> QED BY <1>0, <1>5, <2>1, SettleKeeps DEF ToggleFailed, ButtonTypes, Flags
<1>6. CASE UNCHANGED toggleVars
  BY <1>0, <1>6 DEF toggleVars, ToggleInv, ButtonTypes, Flags, KeptForLater, InflightIsPending,
                    RequestsAreClicks, OneAtATime, ServedIsStored, ValueIsWanted, CounterCounts
<1> QED BY <1>1, <1>2, <1>3, <1>4, <1>5, <1>6 DEF ToggleNext

(* Once a click is answered the button shows what is stored, and a follow    *)
(* counted once.                                                             *)
THEOREM ButtonsSettle == ToggleSpec => []ButtonSettles
<1>1. ToggleInv => ButtonSettles
  BY DEF ToggleInv, ValueIsWanted, CounterCounts, ButtonSettles
<1> QED BY <1>1, ToggleInitInv, ToggleStep, PTL DEF ToggleSpec

-----------------------------------------------------------------------------
(* Comments.                                                                 *)

(* Whatever is listed, cached or under way are rows. *)
Rows == 1..comments

(* What is listed, cached and under way are comments.                        *)
RowsAreListed ==
  /\ thread \subseteq Rows /\ own \subseteq Rows /\ crossing \subseteq Rows 
  /\ \A l \in listings : l.got \subseteq Rows
  /\ cachedList # NoEntry => cachedList \subseteq Rows
  /\ \A c \in Rows : parentOf[c] \in 0..comments
  /\ posting.pc = "stored" => posting.row \in Rows /\ parentOf[posting.row] = posting.parent

(* While the dialog waits for its list, all it lists and posts crosses it.   *)
LoadingCrosses ==
  /\ dialog = "closed" => posting.pc = "idle"
  /\ \A l \in listings : l.shown => dialog = "loading"
  /\ \A k, l \in listings : k.shown /\ l.shown => k = l
  /\ dialog = "loading" => /\ thread \subseteq crossing /\ own \subseteq crossing
                           /\ posting.pc # "idle" => posting.crossed

(* The comment that is answered to is listed, or was when the list came.     *)
ParentsAreListed ==
  /\ replyTo # 0 => replyTo \in thread \cup crossing
  /\ posting.pc # "idle" /\ posting.parent # 0 => posting.parent \in thread \cup crossing

(* A row of this dialog's is not listed before it is answered. *)
PostIsNew ==
  posting.pc = "stored" =>
    posting.row \notin own /\ (~posting.crossed => posting.row \notin thread)

(* A comment of one's own that crosses no list is listed, and so is the one  *)
(* it answers.                                                               *)
OwnAreListed ==
  \A c \in own \ crossing :
    c \in thread /\ c \notin listedTwice /\ (parentOf[c] = 0 \/ parentOf[c] \in thread \cup crossing)

(* The inductive invariant.                                                  *)
CommentsInv == /\ CommentsTypeOK /\ RowsAreListed /\ LoadingCrosses /\ ParentsAreListed
               /\ PostIsNew /\ OwnAreListed

-----------------------------------------------------------------------------
(* A list that is asked for has its fields.                                  *)
LEMMA ListingTypes ==
  \A b \in BOOLEAN : /\ NewListing(b) \in Listing /\ NewListing(b).got = {}
                      /\ NewListing(b).shown = b
BY DEF NewListing, Listing

(* The invariant holds at first.                                             *)
LEMMA CommentsBegin == CommentsInit => CommentsInv
<1> SUFFICES ASSUME CommentsInit PROVE CommentsInv
  OBVIOUS
<1>1. CommentsTypeOK
  BY CommentsAssumption, ListingTypes DEF CommentsInit, CommentsTypeOK, NoEntry, NoPost, Comment
<1>2. RowsAreListed
  BY CommentsAssumption, ListingTypes DEF CommentsInit, RowsAreListed, Rows, NoPost, NoEntry
<1>3. LoadingCrosses /\ ParentsAreListed /\ PostIsNew /\ OwnAreListed
  BY DEF CommentsInit, LoadingCrosses, ParentsAreListed, PostIsNew, OwnAreListed, NoPost
<1> QED BY <1>1, <1>2, <1>3 DEF CommentsInv

(* A row is added: those that were there keep their parents. *)
LEMMA RowIsAdded ==
  ASSUME CommentsTypeOK, RowsAreListed, NEW parent, AddComment(parent)
  PROVE  /\ comments' \in 0..MaxComments /\ parentOf' \in [Comment -> 0..MaxComments]
         /\ comments + 1 \in Comment /\ comments + 1 \notin Rows /\ comments + 1 # 0
         /\ Rows' = Rows \cup {comments + 1} /\ 0..comments \subseteq 0..comments'
         /\ \A c \in Rows' : parentOf'[c] \in 0..comments'
         /\ \A c \in Rows : parentOf'[c] = parentOf[c]
         /\ parentOf'[comments + 1] = parent
<1>1. /\ comments \in Nat /\ MaxComments \in Nat /\ comments < MaxComments /\ comments' = comments + 1
      /\ parent \in 0..comments /\ parentOf \in [Comment -> 0..MaxComments]
      /\ parentOf' = [parentOf EXCEPT ![comments + 1] = parent]
  BY CommentsAssumption DEF AddComment, CommentsTypeOK
<1>2. comments + 1 \in Comment /\ parent \in 0..MaxComments /\ Rows \subseteq Comment
  BY <1>1 DEF Comment, Rows
<1>3. \A c \in Comment : parentOf'[c] = IF c = comments + 1 THEN parent ELSE parentOf[c]
  BY <1>1
<1>4. Rows' = Rows \cup {comments + 1} /\ comments + 1 \notin Rows
  BY <1>1 DEF Rows
<1>5. \A c \in Rows : parentOf[c] \in 0..comments
  BY DEF RowsAreListed
<1>6. parentOf' \in [Comment -> 0..MaxComments]
  BY <1>1, <1>2
<1> HIDE DEF Rows
<1> QED BY <1>1, <1>2, <1>3, <1>4, <1>5, <1>6

(* Somebody adds a comment, and of the dialog nothing changes. *)
LEMMA RowsGrow ==
  ASSUME CommentsInv, NEW parent, AddComment(parent),
         UNCHANGED <<cachedList, cacheFresh, dialog, listings, thread, listedTwice, replyTo, posting,
                     own, crossing>>
  PROVE  CommentsInv'
<1>0. CommentsTypeOK /\ RowsAreListed
  BY DEF CommentsInv
<1>1. /\ comments' \in 0..MaxComments /\ parentOf' \in [Comment -> 0..MaxComments]
      /\ Rows' = Rows \cup {comments + 1} /\ 0..comments \subseteq 0..comments'
      /\ \A c \in Rows' : parentOf'[c] \in 0..comments'
      /\ \A c \in Rows : parentOf'[c] = parentOf[c]
  BY <1>0, RowIsAdded
<1> HIDE DEF Rows
<1>2. CommentsTypeOK'
  BY <1>0, <1>1 DEF CommentsTypeOK
<1>3. RowsAreListed'
  BY <1>0, <1>1 DEF RowsAreListed
<1>4. LoadingCrosses' /\ ParentsAreListed' /\ PostIsNew'
  BY DEF CommentsInv, LoadingCrosses, ParentsAreListed, PostIsNew
<1>5. OwnAreListed'
  BY <1>0, <1>1 DEF CommentsInv, OwnAreListed, RowsAreListed
<1> QED BY <1>2, <1>3, <1>4, <1>5 DEF CommentsInv

(* Every step keeps it.                                                      *)
LEMMA CommentsStep == ASSUME CommentsInv, [CommentsNext]_commentVars PROVE CommentsInv'
<1>0. CommentsTypeOK /\ RowsAreListed /\ Rows \subseteq Comment
  BY CommentsAssumption DEF CommentsInv, CommentsTypeOK, Rows, Comment
<1> DEFINE Posts == [pc : {"idle", "sent", "stored"}, parent : 0..MaxComments,
                     row : 0..MaxComments, crossed : BOOLEAN]
<1>0a. NoPost \in Posts /\ NoPost.pc = "idle"
  BY CommentsAssumption DEF NoPost
<1>0b. posting \in Posts /\ listings \subseteq Listing
  BY <1>0 DEF CommentsTypeOK
<1>1. CASE CommentElsewhere
  BY <1>1, RowsGrow DEF CommentElsewhere
<1>2. CASE OpenComments
  <2>1. /\ dialog' \in {"ready", "loading"} /\ listings' \subseteq Listing
        /\ \A l \in listings' : /\ l \in listings \/ l.got = {}
                                /\ l.shown => l \in listings \/ dialog' = "loading"
    BY <1>2, <1>0b, ListingTypes DEF OpenComments
  <2>1a. \A l \in listings : ~l.shown
    BY <1>2, <1>0b DEF OpenComments, CommentsInv, LoadingCrosses, Listing
  <2>2. /\ dialog' = "loading" => thread' = {}
        /\ thread' \subseteq Rows /\ own' = {} /\ crossing' = {} /\ listedTwice' = {} /\ replyTo' = 0
        /\ UNCHANGED <<comments, parentOf, cachedList, cacheFresh, posting>> /\ posting.pc = "idle"
    BY <1>0, <1>2 DEF OpenComments, RowsAreListed, CommentsInv, LoadingCrosses
  <2>3. CommentsTypeOK'
    <3>1. 0 \in 0..MaxComments
      BY CommentsAssumption
    <3> HIDE DEF Rows
    <3> QED BY <1>0, <2>1, <2>2, <3>1 DEF CommentsTypeOK
  <2>3a. ASSUME NEW l \in listings' PROVE l.got \subseteq Rows
    <3>1. l \in listings => l.got \subseteq Rows
      BY <1>0 DEF RowsAreListed
    <3>2. l \in listings \/ l.got = {}
      BY <2>1
    <3> QED BY <3>1, <3>2
  <2>4. RowsAreListed'
    BY <1>0, <2>2, <2>3a DEF RowsAreListed, Rows
  <2>4a. /\ \A l \in listings' : l.shown => dialog' = "loading"
         /\ \A k, l \in listings' : k.shown /\ l.shown => k = l
    <3>1. PICK n : listings' \in {listings, listings \cup {n}}
      BY <1>2 DEF OpenComments
    <3>2. ASSUME NEW l \in listings', l.shown PROVE l = n /\ dialog' = "loading"
      BY <2>1, <2>1a, <3>1, <3>2
    <3> QED BY <3>2
  <2>5. LoadingCrosses' /\ ParentsAreListed' /\ PostIsNew' /\ OwnAreListed'
    BY <2>2, <2>4a DEF LoadingCrosses, ParentsAreListed, PostIsNew, OwnAreListed
  <2> QED BY <2>3, <2>4, <2>5 DEF CommentsInv
<1>3. CASE CloseComments
  <2>1. /\ dialog' = "closed" /\ thread' = {} /\ listedTwice' = {} /\ own' = {} /\ crossing' = {}
        /\ replyTo' = 0 /\ posting' = NoPost /\ UNCHANGED <<cachedList, cacheFresh>>
    BY <1>3 DEF CloseComments
  <2>1a. listings' \subseteq Listing /\ \A l \in listings' : ~l.shown /\ \E k \in listings : l.got = k.got
    <3>1. \A l \in Listing : /\ [l EXCEPT !.shown = FALSE] \in Listing
                              /\ ~[l EXCEPT !.shown = FALSE].shown
                              /\ [l EXCEPT !.shown = FALSE].got = l.got
      BY DEF Listing
    <3>2. ASSUME NEW l \in listings' PROVE l \in Listing /\ ~l.shown /\ \E k \in listings : l.got = k.got
      <4>1. PICK k \in listings : l = [k EXCEPT !.shown = FALSE]
        BY <1>3 DEF CloseComments
      <4> QED BY <1>0b, <3>1, <4>1
    <3> QED BY <3>2
  <2>2. /\ comments' \in 0..MaxComments /\ parentOf' \in [Comment -> 0..MaxComments]
        /\ Rows \subseteq Rows' /\ \A c \in Rows' : parentOf'[c] \in 0..comments'
    <3>1. CASE AddComment(posting.parent)
      BY <1>0, <3>1, RowIsAdded
    <3>2. CASE UNCHANGED <<comments, parentOf>>
      BY <1>0, <3>2 DEF CommentsTypeOK, RowsAreListed, Rows
    <3> QED BY <1>3, <3>1, <3>2 DEF CloseComments
  <2> HIDE DEF Rows
  <2>3. CommentsTypeOK'
    BY <1>0, <1>0a, <2>1, <2>1a, <2>2, CommentsAssumption DEF CommentsTypeOK
  <2>4. RowsAreListed'
    BY <1>0, <1>0a, <2>1, <2>1a, <2>2 DEF RowsAreListed
  <2>5. LoadingCrosses' /\ ParentsAreListed' /\ PostIsNew' /\ OwnAreListed'
    BY <1>0a, <2>1, <2>1a DEF LoadingCrosses, ParentsAreListed, PostIsNew, OwnAreListed
  <2> QED BY <2>3, <2>4, <2>5 DEF CommentsInv
<1>4. ASSUME NEW l \in listings, ListServed(l) PROVE CommentsInv'
  <2>1. Listed \subseteq Rows
    BY DEF Listed, Rows
  <2> DEFINE x == [l EXCEPT !.served = TRUE, !.got = Listed]
  <2>2. x \in Listing /\ x.got = Listed /\ x.shown = l.shown
    BY <1>0, <1>0b, <2>1 DEF Listing
  <2>3. listings' = (listings \ {l}) \cup {x}
    BY <1>4 DEF ListServed
  <2> HIDE DEF x
  <2>4. CommentsTypeOK'
    BY <1>0, <1>0b, <1>4, <2>2, <2>3 DEF ListServed, CommentsTypeOK
  <2>5. RowsAreListed'
    BY <1>0, <1>4, <2>1, <2>2, <2>3 DEF ListServed, RowsAreListed, Rows
  <2>6. LoadingCrosses' /\ ParentsAreListed' /\ PostIsNew' /\ OwnAreListed'
    BY <1>4, <2>2, <2>3
       DEF ListServed, CommentsInv, LoadingCrosses, ParentsAreListed, PostIsNew, OwnAreListed
  <2> QED BY <2>4, <2>5, <2>6 DEF CommentsInv
<1>5. ASSUME NEW l \in listings, ListArrives(l) PROVE CommentsInv'
  <2>1. /\ cachedList' = l.got /\ cacheFresh' = TRUE /\ listings' = listings \ {l} /\ l.got \subseteq Rows
        /\ UNCHANGED <<comments, parentOf, replyTo, posting, own, crossing>>
    BY <1>0, <1>5 DEF ListArrives, RowsAreListed
  <2>1a. cachedList' \subseteq 0..MaxComments /\ l.got \subseteq Comment
    <3>1. Comment \subseteq 0..MaxComments
      BY CommentsAssumption DEF Comment
    <3> QED BY <1>0, <2>1, <3>1
  <2>2. CASE l.shown
    <3>1. /\ dialog = "loading" /\ thread \subseteq crossing /\ own \subseteq crossing
          /\ posting.pc # "idle" => posting.crossed
          /\ thread' = l.got /\ listedTwice' = {} /\ dialog' = "ready"
      BY <1>5, <2>2 DEF ListArrives, CommentsInv, LoadingCrosses
    <3>2. CommentsTypeOK'
      BY <1>0, <2>1, <2>1a, <3>1 DEF CommentsTypeOK
    <3>3. RowsAreListed'
      BY <1>0, <2>1, <3>1 DEF RowsAreListed, Rows
    <3>4. \A k \in listings' : ~k.shown
      BY <1>0b, <2>1, <2>2 DEF CommentsInv, LoadingCrosses, Listing
    <3>5. LoadingCrosses' /\ ParentsAreListed' /\ OwnAreListed' /\ PostIsNew'
      BY <2>1, <3>1, <3>4 DEF CommentsInv, LoadingCrosses, ParentsAreListed, OwnAreListed, PostIsNew
    <3> QED BY <3>2, <3>3, <3>5 DEF CommentsInv
  <2>3. CASE ~l.shown
    <3>1. UNCHANGED <<thread, listedTwice, dialog>>
      BY <1>5, <2>3 DEF ListArrives
    <3>2. CommentsTypeOK'
      BY <1>0, <2>1, <2>1a, <3>1 DEF CommentsTypeOK
    <3>3. RowsAreListed'
      BY <1>0, <2>1, <3>1 DEF RowsAreListed, Rows
    <3>4. LoadingCrosses' /\ ParentsAreListed' /\ OwnAreListed' /\ PostIsNew'
      BY <2>1, <3>1 DEF CommentsInv, LoadingCrosses, ParentsAreListed, OwnAreListed, PostIsNew
    <3> QED BY <3>2, <3>3, <3>4 DEF CommentsInv
  <2> QED BY <2>2, <2>3
<1>6. ASSUME NEW l \in listings, ListFails(l) PROVE CommentsInv'
  <2>1. /\ listings' = listings \ {l} /\ dialog' = IF l.shown THEN "ready" ELSE dialog
        /\ UNCHANGED <<comments, parentOf, cachedList, cacheFresh, thread, listedTwice, replyTo, posting,
                       own, crossing>>
    BY <1>6 DEF ListFails
  <2>2. CommentsTypeOK'
    BY <1>0, <2>1 DEF CommentsTypeOK
  <2>3. RowsAreListed'
    BY <1>0, <2>1 DEF RowsAreListed, Rows
  <2>4. LoadingCrosses'
    <3>1. CASE l.shown
      <4>1. \A k \in listings' : ~k.shown
        BY <1>0b, <2>1, <3>1 DEF CommentsInv, LoadingCrosses, Listing
      <4> QED BY <2>1, <3>1, <4>1 DEF CommentsInv, LoadingCrosses
    <3>2. CASE ~l.shown
      BY <2>1, <3>2 DEF CommentsInv, LoadingCrosses
    <3> QED BY <3>1, <3>2
  <2>5. ParentsAreListed' /\ OwnAreListed' /\ PostIsNew'
    BY <2>1 DEF CommentsInv, ParentsAreListed, OwnAreListed, PostIsNew
  <2> QED BY <2>2, <2>3, <2>4, <2>5 DEF CommentsInv
<1>7. CASE ListAges \/ UNCHANGED commentVars
  <2>1. /\ cacheFresh' \in BOOLEAN
        /\ UNCHANGED <<comments, parentOf, cachedList, dialog, listings, thread, listedTwice, replyTo,
                       posting, own, crossing>>
    BY <1>0, <1>7 DEF ListAges, commentVars, CommentsTypeOK
  <2> QED BY <1>0, <2>1 DEF CommentsInv, CommentsTypeOK, RowsAreListed, Rows, LoadingCrosses,
                            ParentsAreListed, OwnAreListed, PostIsNew
<1>8. ASSUME NEW c \in {0} \cup thread, ChooseParent(c) PROVE CommentsInv'
  <2>1. /\ replyTo' = c /\ (c # 0 => c \in thread)
        /\ UNCHANGED <<comments, parentOf, cachedList, cacheFresh, dialog, listings, thread, listedTwice,
                       posting, own, crossing>>
    BY <1>8 DEF ChooseParent, InTree
  <2>2. replyTo' \in 0..MaxComments
    BY <1>0, <2>1, CommentsAssumption DEF CommentsTypeOK, Comment
  <2>3. CommentsTypeOK'
    BY <1>0, <2>1, <2>2 DEF CommentsTypeOK
  <2>4. RowsAreListed'
    BY <1>0, <2>1 DEF RowsAreListed, Rows
  <2> QED BY <2>1, <2>3, <2>4 DEF CommentsInv, LoadingCrosses, ParentsAreListed, OwnAreListed, PostIsNew
<1>9. CASE SubmitComment
  <2> DEFINE x == [NoPost EXCEPT !.pc = "sent", !.parent = replyTo, !.crossed = dialog = "loading"]
  <2>1. x \in Posts /\ x.pc = "sent" /\ x.parent = replyTo /\ (dialog = "loading" => x.crossed)
    <3>1. (dialog = "loading") \in BOOLEAN /\ replyTo \in 0..MaxComments
      BY <1>0 DEF CommentsTypeOK
    <3> HIDE DEF CommentsInv
    <3> QED BY <3>1, <1>0a DEF NoPost
  <2>2. /\ posting' = x /\ dialog # "closed"
        /\ UNCHANGED <<comments, parentOf, cachedList, cacheFresh, dialog, listings, thread, listedTwice,
                       replyTo, own, crossing>>
    BY <1>9 DEF SubmitComment
  <2> HIDE DEF x
  <2>3. CommentsTypeOK'
    BY <1>0, <2>1, <2>2 DEF CommentsTypeOK
  <2>4. RowsAreListed'
    BY <1>0, <2>1, <2>2 DEF RowsAreListed, Rows
  <2>5. LoadingCrosses' /\ ParentsAreListed' /\ OwnAreListed' /\ PostIsNew'
    BY <2>1, <2>2 DEF CommentsInv, LoadingCrosses, ParentsAreListed, OwnAreListed, PostIsNew
  <2> QED BY <2>3, <2>4, <2>5 DEF CommentsInv
<1>10. CASE CommentStored
  <2>1. /\ comments' \in 0..MaxComments /\ parentOf' \in [Comment -> 0..MaxComments]
        /\ comments + 1 \in Comment /\ comments + 1 \notin Rows
        /\ Rows' = Rows \cup {comments + 1} /\ 0..comments \subseteq 0..comments'
        /\ \A c \in Rows' : parentOf'[c] \in 0..comments'
        /\ \A c \in Rows : parentOf'[c] = parentOf[c]
        /\ parentOf'[comments + 1] = posting.parent
    BY <1>0, <1>10, RowIsAdded DEF CommentStored
  <2> DEFINE x == [posting EXCEPT !.pc = "stored", !.row = comments + 1]
  <2>2. x \in Posts /\ x.pc = "stored" /\ x.parent = posting.parent /\ x.row = comments + 1
        /\ x.crossed = posting.crossed
    <3>1. comments + 1 \in 0..MaxComments
      BY <2>1, CommentsAssumption DEF Comment
    <3> QED BY <1>0b, <3>1
  <2>3. /\ posting' = x /\ posting.pc = "sent"
        /\ UNCHANGED <<cachedList, cacheFresh, dialog, listings, thread, listedTwice, replyTo, own,
                       crossing>>
    BY <1>10 DEF CommentStored
  <2> HIDE DEF x, Rows
  <2>4. CommentsTypeOK'
    BY <1>0, <2>1, <2>2, <2>3 DEF CommentsTypeOK
  <2>5. RowsAreListed'
    BY <1>0, <2>1, <2>2, <2>3 DEF RowsAreListed
  <2>6. LoadingCrosses' /\ ParentsAreListed'
    BY <2>2, <2>3 DEF CommentsInv, LoadingCrosses, ParentsAreListed
  <2>7. PostIsNew'
    BY <1>0, <2>1, <2>2, <2>3 DEF RowsAreListed, PostIsNew
  <2>8. OwnAreListed'
    BY <1>0, <2>1, <2>2, <2>3 DEF CommentsInv, OwnAreListed, RowsAreListed
  <2> QED BY <2>4, <2>5, <2>6, <2>7, <2>8 DEF CommentsInv
<1>11. CASE CommentAnswered
  <2> DEFINE c == posting.row
  <2>1. /\ c \in Rows /\ parentOf[c] = posting.parent /\ posting.pc = "stored" /\ dialog # "closed"
        /\ c \notin own /\ (~posting.crossed => c \notin thread) /\ c \in Comment
    BY <1>0, <1>11 DEF CommentAnswered, RowsAreListed, CommentsInv, PostIsNew
  <2>2. /\ thread' = thread \cup {c}
        /\ listedTwice' = IF c \in thread THEN listedTwice \cup {c} ELSE listedTwice
        /\ own' = own \cup {c}
        /\ crossing' = IF posting.crossed THEN crossing \cup {c} ELSE crossing
        /\ replyTo' = 0 /\ posting' = NoPost
        /\ UNCHANGED <<comments, parentOf, cachedList, cacheFresh, dialog, listings>>
    BY <1>11 DEF CommentAnswered
  <2> HIDE DEF c
  <2>3. CommentsTypeOK'
    <3>1. replyTo' \in 0..MaxComments
      BY <2>2, CommentsAssumption
    <3>2. thread' \subseteq Comment /\ listedTwice' \subseteq thread' /\ own' \subseteq Comment /\ crossing' \subseteq Comment
      BY <1>0, <2>1, <2>2 DEF CommentsTypeOK
    <3> QED BY <1>0, <1>0a, <2>2, <3>1, <3>2 DEF CommentsTypeOK
  <2>4. RowsAreListed'
    BY <1>0, <1>0a, <2>1, <2>2 DEF RowsAreListed, Rows
  <2>5. LoadingCrosses' /\ ParentsAreListed' /\ PostIsNew'
    BY <1>0a, <2>1, <2>2 DEF CommentsInv, LoadingCrosses, ParentsAreListed, PostIsNew
  <2>6. OwnAreListed'
    <3> SUFFICES ASSUME NEW k \in own' \ crossing'
                 PROVE  k \in thread' /\ k \notin listedTwice'
                        /\ (parentOf[k] = 0 \/ parentOf[k] \in thread' \cup crossing')
      BY <2>2 DEF OwnAreListed
    <3>1. CASE k = c
      <4>1. ~posting.crossed /\ c \notin thread
        BY <2>1, <2>2, <3>1
      <4>2. c \notin listedTwice
        BY <1>0, <4>1 DEF CommentsTypeOK
      <4>3. posting.parent = 0 \/ posting.parent \in thread \cup crossing
        BY <2>1 DEF CommentsInv, ParentsAreListed
      <4> QED BY <2>1, <2>2, <3>1, <4>1, <4>2, <4>3
    <3>2. CASE k # c
      BY <2>2, <3>2 DEF CommentsInv, OwnAreListed
    <3> QED BY <3>1, <3>2
  <2> QED BY <2>3, <2>4, <2>5, <2>6 DEF CommentsInv
<1>12. CASE CommentFails
  <2>1. /\ posting' = NoPost
        /\ UNCHANGED <<comments, parentOf, cachedList, cacheFresh, dialog, listings, thread, listedTwice,
                       replyTo, own, crossing>>
    BY <1>12 DEF CommentFails
  <2>2. CommentsTypeOK'
    BY <1>0, <1>0a, <2>1 DEF CommentsTypeOK
  <2>3. RowsAreListed'
    BY <1>0, <1>0a, <2>1 DEF RowsAreListed, Rows
  <2>4. LoadingCrosses' /\ ParentsAreListed' /\ OwnAreListed' /\ PostIsNew'
    BY <1>0a, <2>1 DEF CommentsInv, LoadingCrosses, ParentsAreListed, OwnAreListed, PostIsNew
  <2> QED BY <2>2, <2>3, <2>4 DEF CommentsInv
<1> QED BY <1>1, <1>2, <1>3, <1>4, <1>5, <1>6, <1>7, <1>8, <1>9, <1>10, <1>11, <1>12 DEF CommentsNext

(* A comment that was posted is in the tree once.                            *)
THEOREM OwnCommentsStayShown == CommentsSpec => []OwnCommentsShown
<1>1. CommentsInv => OwnCommentsShown
  BY DEF CommentsInv, OwnAreListed, OwnCommentsShown, InTree
<1> QED BY <1>1, CommentsBegin, CommentsStep, PTL DEF CommentsSpec

-----------------------------------------------------------------------------
(* Forms.                                                                    *)

(* Types, but that of the step. *)
FormsHaveFields ==
  /\ wizard \in {"signup", "student", "page"} /\ review \in Reviews
  /\ field \in Field /\ files \subseteq Files
  /\ draft.field \in Field /\ draft.files \subseteq Files
  /\ \A u \in uploads : u.file \in Files /\ u.field \in Field /\ u.files \subseteq Files
  /\ submitting = [pc |-> submitting.pc, field |-> submitting.field, files |-> submitting.files,
                    keyed |-> submitting.keyed]

(* Signing up has no files. *)
SignupHasNoFiles == wizard = "signup" => files = {} /\ draft.files = {} /\ uploads = {}

(* What is being sent has passed the rules of every step. *)
SentIsComplete ==
  submitting.pc # "idle" =>
    submitting.files = NeededFiles /\ \A t \in Texts : submitting.field[t] = "ok"

(* The draft also follows the form of a student who waits for a review.      *)
DraftFollows ==
  view \notin {"closed", "leaving"} /\ keyed /\ ~writeDue => draft = DraftOf(step, field, files)

(* The inductive invariant.                                                  *)
FormsInv == /\ FormsHaveFields /\ SignupHasNoFiles /\ SentIsComplete /\ ReceivedIsComplete
            /\ DraftFollows

-----------------------------------------------------------------------------
(* A form that is filled in has its fields.                                  *)
LEMMA FieldsAreFields ==
  /\ Blank \in Field /\ Filled \in Field
  /\ \A f \in Field, t \in Texts, v \in {"bad", "ok"} : [f EXCEPT ![t] = v] \in Field
BY DEF Blank, Filled, Field, Texts

(* A draft has the form's fields.                                            *)
LEMMA DraftsAreDrafts ==
  ASSUME NEW n, NEW f \in Field, NEW w
  PROVE  DraftOf(n, f, w).field \in Field /\ DraftOf(n, f, w).files = w
BY FieldsAreFields DEF DraftOf, Texts

(* The invariant holds at first.                                             *)
LEMMA FormsBegin == FormsInit => FormsInv
<1> SUFFICES ASSUME FormsInit PROVE FormsInv
  OBVIOUS
<1>1. FormsHaveFields
  BY FieldsAreFields DEF FormsInit, FormsHaveFields, NoDraft, NotSent, Reviews
<1>2. SignupHasNoFiles /\ SentIsComplete /\ ReceivedIsComplete /\ DraftFollows
  BY DEF FormsInit, SignupHasNoFiles, SentIsComplete, ReceivedIsComplete, DraftFollows, NoDraft, NotSent
<1> QED BY <1>1, <1>2 DEF FormsInv

(* Nothing is sent or taken by the server. *)
LEMMA NothingIsTaken ==
  ASSUME FormsInv, UNCHANGED <<wizard, submitting, received, review>>,
         FormsHaveFields', SignupHasNoFiles', DraftFollows'
  PROVE  FormsInv'
BY DEF FormsInv, SentIsComplete, ReceivedIsComplete, NeededFiles

(* The form changes with its draft, or its write is due. *)
LEMMA FormChanges ==
  ASSUME FormsInv, UNCHANGED <<wizard, submitting, received, review>>,
         field' \in Field, files' \subseteq Files, wizard = "signup" => files' = {},
         draft' = draft \/ draft' = NoDraft \/ (\E n : \E f \in Field : draft' = DraftOf(n, f, files')),
         uploads' \subseteq uploads,
         DraftFollows'
  PROVE  FormsInv'
<1>1. draft'.field \in Field /\ draft'.files \subseteq Files /\ (wizard = "signup" => draft'.files = {})
  <2>1. CASE draft' = draft
    BY <2>1 DEF FormsInv, FormsHaveFields, SignupHasNoFiles
  <2>2. CASE draft' = NoDraft
    BY <2>2, FieldsAreFields DEF NoDraft
  <2>3. CASE \E n : \E f \in Field : draft' = DraftOf(n, f, files')
    BY <2>3, DraftsAreDrafts
  <2> QED BY <2>1, <2>2, <2>3
<1>2. FormsHaveFields' /\ SignupHasNoFiles'
  BY <1>1 DEF FormsInv, FormsHaveFields, SignupHasNoFiles
<1> QED BY <1>1, <1>2, NothingIsTaken

(* Every step keeps it.                                                      *)
LEMMA FormsStep == ASSUME FormsInv, [FormsNext]_formVars PROVE FormsInv'
<1>0. /\ FormsHaveFields /\ SignupHasNoFiles /\ DraftFollows /\ field \in Field /\ files \subseteq Files
      /\ wizard = "signup" => files = {} /\ draft.files = {}
      /\ draft.field \in Field /\ draft.files \subseteq Files
  BY DEF FormsInv, FormsHaveFields, SignupHasNoFiles
<1>1. CASE OpenSignup \/ OpenProfile
  <2>1. field' \in Field /\ writeDue' = TRUE
        /\ UNCHANGED <<wizard, files, submitting, received, review, draft, uploads>>
    BY <1>0, <1>1 DEF OpenSignup, OpenProfile, formData, reviewed
  <2> QED BY <1>0, <2>1, FormChanges DEF DraftFollows
<1>2. CASE ProfileServed \/ ProfileLost \/ PageElsewhere
  <2>1. /\ ~keyed' /\ UNCHANGED <<wizard, field, files, submitting, received, review, draft, uploads>>
    BY <1>0, <1>2 DEF FormsHaveFields, ProfileServed, ProfileLost, PageElsewhere, keyed, Reviews, formData, reviewed
  <2> QED BY <1>0, <2>1, FormChanges DEF DraftFollows
<1>3. CASE StudentLoaded
  <2>1. writeDue' = TRUE /\ UNCHANGED <<wizard, submitting, received, review, draft, uploads>>
    BY <1>3 DEF StudentLoaded, Arrived, reviewed
  <2>2. wizard = "student" /\ field' \in Field /\ files' \subseteq Files
    BY <1>0, <1>3, FieldsAreFields DEF StudentLoaded
  <2> QED BY <2>1, <2>2, FormChanges DEF DraftFollows
<1>4. CASE PageLoaded
  <2>1. writeDue' = TRUE /\ wizard = "page" /\ UNCHANGED <<wizard, submitting, received, review, uploads>>
    BY <1>4 DEF PageLoaded, Arrived, reviewed
  <2>2. field' \in Field
    BY <1>0, <1>4, FieldsAreFields DEF PageLoaded
  <2>3. files' \subseteq Files
    BY <1>0, <1>4 DEF PageLoaded
  <2>4. draft' = draft \/ (\E n : \E f \in Field : draft' = DraftOf(n, f, files'))
    BY <1>4, <2>2 DEF PageLoaded
  <2> QED BY <2>1, <2>2, <2>3, <2>4, FormChanges DEF DraftFollows
<1>5. CASE CloseForm
  <2>1. /\ view' = "closed" /\ uploads' = {} /\ submitting' = NotSent /\ field' = Blank /\ files' = {}
        /\ UNCHANGED <<wizard, draft, received, review>>
    BY <1>5 DEF CloseForm, reviewed
  <2>2. FormsHaveFields' /\ SignupHasNoFiles' /\ DraftFollows'
    BY <1>0, <2>1, FieldsAreFields DEF FormsHaveFields, SignupHasNoFiles, DraftFollows, NotSent
  <2> QED BY <2>1, <2>2 DEF FormsInv, SentIsComplete, ReceivedIsComplete, NeededFiles, NotSent
<1>6. ASSUME NEW w, WriteDraft(w) PROVE FormsInv'
  <2>1. draft' = DraftOf(step, field, files)
        /\ UNCHANGED <<wizard, load, step, field, files, submitting, received, review, uploads>>
    BY <1>6 DEF WriteDraft, formData, reviewed
  <2>2. DraftFollows'
    BY <2>1 DEF DraftFollows, keyed, DraftOf
  <2> QED BY <1>0, <2>1, <2>2, FormChanges
<1>7. ASSUME NEW w, Discard(w) PROVE FormsInv'
  <2>1. draft' = NoDraft /\ field' = Blank /\ files' = {} /\ writeDue' = TRUE
        /\ UNCHANGED <<wizard, uploads, submitting, received, review>>
    BY <1>7 DEF Discard, reviewed
  <2>2. DraftFollows'
    BY <2>1 DEF DraftFollows
  <2> QED BY <2>1, <2>2, FormChanges, FieldsAreFields
<1>8. ASSUME NEW w, NEW t \in Texts, TypeText(w, t) PROVE FormsInv'
  <2>1. PICK v \in {"bad", "ok"} : field' = [field EXCEPT ![t] = v]
    BY <1>8 DEF TypeText
  <2>2. /\ wizard = w /\ (~writeDue' => ~writeDue /\ w = "signup" /\ t # "first")
        /\ UNCHANGED <<wizard, view, load, step, files, draft, uploads, submitting, received, review>>
    BY <1>8 DEF TypeText, reviewed
  <2>3. field' \in Field
    BY <1>0, <2>1, FieldsAreFields
  <2>4. DraftFollows'
    <3> SUFFICES ASSUME view \notin {"closed", "leaving"}, keyed, ~writeDue'
                 PROVE  draft = DraftOf(step, field', files)
      BY <2>2 DEF DraftFollows, keyed, DraftOf
    <3>1. ~writeDue /\ wizard = "signup" /\ t = "second"
      BY <2>2 DEF Texts
    <3>2. [field EXCEPT !["second"] = "bad"] = [field' EXCEPT !["second"] = "bad"]
      BY <1>0, <2>1, <3>1 DEF Field
    <3> QED BY <1>0, <2>2, <3>1, <3>2 DEF DraftFollows, keyed, DraftOf
  <2> QED BY <1>0, <2>2, <2>3, <2>4, FormChanges
<1>9. ASSUME NEW n, GoTo(n) PROVE FormsInv'
  <2>1. /\ step' = n /\ (~writeDue' => ~writeDue /\ n = step)
        /\ UNCHANGED <<wizard, view, load, field, files, draft, uploads, submitting, received, review>>
    BY <1>9 DEF GoTo, formData, reviewed
  <2>2. DraftFollows'
    BY <1>0, <2>1 DEF DraftFollows, keyed, DraftOf
  <2> QED BY <1>0, <2>1, <2>2, FormChanges
<1>10. ASSUME NEW w, NEW allowed, Forth(w, allowed) \/ Back(w) PROVE FormsInv'
  BY <1>9, <1>10 DEF Forth, Back
<1>11. ASSUME NEW f \in Files, NEW swap, Begin(f, swap)
       PROVE  \A u \in uploads' : u.file \in Files /\ u.field \in Field /\ u.files \subseteq Files
  <2> DEFINE x == [file |-> f, swap |-> swap,
                   field |-> IF wizard = "page" THEN field ELSE Blank,
                   files |-> IF wizard = "page" THEN files ELSE {},
                   keyed |-> wizard = "page" /\ keyed]
  <2>1. x.file \in Files /\ x.field \in Field /\ x.files \subseteq Files
    BY <1>0, FieldsAreFields
  <2>2. uploads' = uploads \cup {x}
    BY <1>11 DEF Begin
  <2> HIDE DEF x
  <2> QED BY <1>0, <2>1, <2>2 DEF FormsHaveFields
<1>12. ASSUME NEW f \in Files, StudentUpload(f) \/ PageUpload(f) PROVE FormsInv'
  <2>1. /\ wizard \in {"student", "page"} /\ Begin(f, FALSE)
        /\ UNCHANGED <<wizard, view, load, step, field, files, draft, writeDue, submitting, received, review>>
    BY <1>12 DEF StudentUpload, PageUpload, formData, reviewed
  <2>2. FormsHaveFields' /\ SignupHasNoFiles' /\ DraftFollows'
    BY <1>0, <1>11, <2>1 DEF FormsHaveFields, SignupHasNoFiles, DraftFollows, keyed, DraftOf
  <2> QED BY <2>1, <2>2, NothingIsTaken
<1>13. ASSUME NEW f \in Files, ChooseFile(f) PROVE FormsInv'
  <2>1. wizard = "page" /\ UNCHANGED <<wizard, view, load, step, field, submitting, received, review>>
    BY <1>13 DEF ChooseFile, reviewed
  <2>2. CASE f \in files
    <3>1. Begin(f, TRUE) /\ UNCHANGED <<files, draft, writeDue>>
      BY <1>13, <2>2 DEF ChooseFile
    <3>2. FormsHaveFields' /\ SignupHasNoFiles' /\ DraftFollows'
      BY <1>0, <1>11, <2>1, <3>1 DEF FormsHaveFields, SignupHasNoFiles, DraftFollows, keyed, DraftOf
    <3> QED BY <2>1, <3>2, NothingIsTaken
  <2>3. CASE f \notin files
    <3>1. /\ files' = files \cup {f} /\ draft' = DraftOf(step, field, files') /\ writeDue' = TRUE
          /\ uploads' = uploads
      BY <1>13, <2>3 DEF ChooseFile
    <3>2. DraftFollows'
      BY <3>1 DEF DraftFollows
    <3> QED BY <1>0, <2>1, <3>1, <3>2, FormChanges
  <2> QED BY <2>2, <2>3
<1>14. ASSUME NEW u \in uploads
       PROVE  u.file \in Files /\ u.field \in Field /\ u.files \subseteq Files /\ wizard # "signup"
  BY <1>0 DEF FormsHaveFields, SignupHasNoFiles
<1>15. ASSUME NEW u \in uploads, StudentFileUploaded(u) PROVE FormsInv'
  <2>1. /\ files' = files \cup {u.file} /\ writeDue' = TRUE /\ uploads' = uploads \ {u}
        /\ UNCHANGED <<wizard, field, draft, submitting, received, review>>
    BY <1>15 DEF StudentFileUploaded, reviewed
  <2>2. DraftFollows'
    BY <2>1 DEF DraftFollows
  <2> QED BY <1>0, <1>14, <2>1, <2>2, FormChanges
<1>16. ASSUME NEW u \in uploads, PageFileUploaded(u) PROVE FormsInv'
  <2>1. /\ files' = u.files \cup {u.file} /\ field' = u.field
        /\ draft' = IF u.keyed THEN DraftOf(2, u.field, files') ELSE draft
        /\ writeDue' = TRUE /\ uploads' = uploads \ {u} /\ UNCHANGED <<wizard, submitting, received, review>>
    BY <1>16 DEF PageFileUploaded, reviewed
  <2>2. DraftFollows'
    BY <2>1 DEF DraftFollows
  <2> QED BY <1>0, <1>14, <2>1, <2>2, FormChanges
<1>17. ASSUME NEW u \in uploads, UploadFails(u) PROVE FormsInv'
  <2>1. /\ uploads' = uploads \ {u} /\ (~writeDue' => ~writeDue /\ step' = step)
        /\ UNCHANGED <<wizard, view, load, field, files, draft, submitting, received, review>>
    BY <1>17 DEF UploadFails, formData, reviewed
  <2>2. DraftFollows'
    BY <1>0, <2>1 DEF DraftFollows, keyed, DraftOf
  <2> QED BY <1>0, <2>1, <2>2, FormChanges
<1>18. ASSUME UNCHANGED <<wizard, load, step, field, files, draft, writeDue, uploads, submitting, received, review>>,
              view' = view \/ (view = "waiting" /\ view' = "form")
       PROVE  FormsInv'
  <2>1. DraftFollows'
    BY <1>0, <1>18 DEF DraftFollows, keyed, DraftOf
  <2> QED BY <1>0, <1>18, <2>1, FormChanges
<1>30. CASE ReviewDecided
  <2>1. /\ review' \in Reviews
        /\ UNCHANGED <<wizard, view, load, step, field, files, draft, writeDue, uploads, submitting,
                       received>>
    BY <1>30 DEF ReviewDecided, formData, Reviews
  <2>2. FormsHaveFields' /\ SignupHasNoFiles' /\ DraftFollows'
    BY <1>0, <2>1 DEF FormsHaveFields, SignupHasNoFiles, DraftFollows, keyed, DraftOf
  <2> QED BY <2>1, <2>2 DEF FormsInv, SentIsComplete, ReceivedIsComplete, NeededFiles
<1>19. CASE CheckMedia \/ ReviewSeen \/ UNCHANGED formVars
  BY <1>18, <1>19 DEF CheckMedia, ReviewSeen, formVars, formData, reviewed
<1>20. CASE SignupRefused \/ StudentRefused \/ PageRefused
  BY <1>9, <1>20 DEF SignupRefused, StudentRefused, PageRefused
<1>21. ASSUME NEW w \in {"signup", "student", "page"}, CanSubmit(w), Refused = {}, SendForm PROVE FormsInv'
  <2>1. /\ submitting' = [pc |-> "sent", field |-> field, files |-> files, keyed |-> keyed] /\ wizard = w
        /\ UNCHANGED <<wizard, view, load, step, field, files, draft, writeDue, uploads, received, review>>
    BY <1>21 DEF SendForm, CanSubmit, formData, reviewed
  <2>2. files = NeededFiles /\ \A t \in Texts : field[t] = "ok"
    <3>1. CASE wizard = "signup"
      <4>1. SignupStepHolds(0) /\ SignupStepHolds(1)
        BY <1>21, <3>1 DEF Refused
      <4> QED BY <1>0, <3>1, <4>1 DEF SignupStepHolds, SignupStep, Texts, NeededFiles
    <3>2. CASE wizard = "student"
      <4>1. StudentStepHolds(1) /\ StudentStepHolds(2) /\ StudentStepHolds(3)
        BY <1>21, <3>2 DEF Refused
      <4> QED BY <1>0, <3>2, <4>1 DEF StudentStepHolds, ProfileStep, Texts, NeededFiles
    <3>3. CASE wizard = "page"
      <4>1. PageStepHolds(1) /\ PageStepHolds(2) /\ PageStepHolds(3)
        BY <1>21, <3>3 DEF Refused
      <4> QED BY <1>0, <3>3, <4>1 DEF PageStepHolds, ProfileStep, Texts, NeededFiles
    <3> QED BY <2>1, <3>1, <3>2, <3>3
  <2>3. FormsHaveFields' /\ SignupHasNoFiles' /\ DraftFollows'
    BY <1>0, <2>1 DEF FormsHaveFields, SignupHasNoFiles, DraftFollows, keyed, DraftOf
  <2>4. SentIsComplete' /\ ReceivedIsComplete'
    BY <2>1, <2>2 DEF FormsInv, SentIsComplete, ReceivedIsComplete, NeededFiles
  <2> QED BY <2>3, <2>4 DEF FormsInv
<1>22. CASE SubmitSignup \/ SubmitStudent \/ SubmitPage
  BY <1>21, <1>22 DEF SubmitSignup, SubmitStudent, SubmitPage
<1>23. CASE SubmitArrives
  <2> DEFINE x == [submitting EXCEPT !.pc = "stored"]
             y == [field |-> submitting.field, files |-> submitting.files]
  <2>1. /\ x = [pc |-> "stored", field |-> submitting.field, files |-> submitting.files,
              keyed |-> submitting.keyed]
        /\ y.field = submitting.field /\ y.files = submitting.files
    BY <1>0 DEF FormsHaveFields
  <2>2. /\ review' \in Reviews /\ received' = received \cup {y} /\ submitting' = x /\ submitting.pc = "sent"
        /\ UNCHANGED <<wizard, view, load, step, field, files, draft, writeDue, uploads>>
    BY <1>23 DEF SubmitArrives, formData, Reviews
  <2> HIDE DEF x, y
  <2>3. FormsHaveFields' /\ SignupHasNoFiles' /\ DraftFollows'
    BY <1>0, <2>1, <2>2 DEF FormsHaveFields, SignupHasNoFiles, DraftFollows, keyed, DraftOf
  <2>4. SentIsComplete' /\ ReceivedIsComplete'
    BY <2>1, <2>2 DEF FormsInv, SentIsComplete, ReceivedIsComplete, NeededFiles
  <2> QED BY <2>3, <2>4 DEF FormsInv
<1>24. CASE SubmitDone
  <2>1. /\ submitting' = NotSent /\ draft' \in {NoDraft, draft} /\ view' = "leaving"
        /\ UNCHANGED <<wizard, field, files, uploads, received, review>>
    BY <1>24 DEF SubmitDone, formData, reviewed
  <2>2. FormsHaveFields' /\ SignupHasNoFiles' /\ DraftFollows'
    BY <1>0, <2>1, FieldsAreFields DEF FormsHaveFields, SignupHasNoFiles, DraftFollows, NotSent, NoDraft
  <2> QED BY <2>1, <2>2 DEF FormsInv, SentIsComplete, ReceivedIsComplete, NeededFiles, NotSent
<1>25. CASE SubmitFails
  <2>1. /\ submitting' = NotSent
        /\ UNCHANGED <<wizard, view, load, step, field, files, draft, writeDue, uploads, received, review>>
    BY <1>25 DEF SubmitFails, formData, reviewed
  <2>2. FormsHaveFields' /\ SignupHasNoFiles' /\ DraftFollows'
    BY <1>0, <2>1 DEF FormsHaveFields, SignupHasNoFiles, DraftFollows, keyed, DraftOf, NotSent
  <2> QED BY <2>1, <2>2 DEF FormsInv, SentIsComplete, ReceivedIsComplete, NeededFiles, NotSent
<1>26. CASE WriteSignupDraft \/ WriteStudentDraft \/ WritePageDraft
  BY <1>6, <1>26 DEF WriteSignupDraft, WriteStudentDraft, WritePageDraft
<1>27. CASE DiscardSignup \/ DiscardStudent \/ DiscardPage
  BY <1>7, <1>27 DEF DiscardSignup, DiscardStudent, DiscardPage
<1>28. CASE TypeAccount \/ TypePassword \/ TypeStudy \/ TypeContact \/ TypePage \/ TypePayout
  BY <1>8, <1>28 DEF TypeAccount, TypePassword, TypeStudy, TypeContact, TypePage, TypePayout, Texts
<1>29. CASE SignupNext \/ StudentNext \/ PageNext \/ SignupBack \/ StudentBack \/ PageBack
  BY <1>10, <1>29 DEF SignupNext, StudentNext, PageNext, SignupBack, StudentBack, PageBack
<1> QED BY <1>1, <1>2, <1>3, <1>4, <1>5, <1>12, <1>13, <1>15, <1>16, <1>17, <1>19, <1>20, <1>22, <1>23,
           <1>24, <1>25, <1>26, <1>27, <1>28, <1>29, <1>30 DEF FormsNext

(* The invariant holds always.                                               *)
LEMMA FormsInvariance == FormsSpec => []FormsInv
BY FormsBegin, FormsStep, PTL DEF FormsSpec

(* What the server took had passed the rules of every step at once.          *)
THEOREM ReceivedFormsAreComplete == FormsSpec => []ReceivedIsComplete
<1>1. FormsInv => ReceivedIsComplete
  BY DEF FormsInv
<1> QED BY <1>1, FormsInvariance, PTL

(* When no write is due the draft is the form that is shown.                 *)
THEOREM DraftsAreCurrent == FormsSpec => []DraftIsCurrent
<1>1. FormsInv => DraftIsCurrent
  BY DEF FormsInv, DraftFollows, DraftIsCurrent, shown
<1> QED BY <1>1, FormsInvariance, PTL

-----------------------------------------------------------------------------
(* Feed.                                                                     *)

(* The requests to read and to write.                                        *)
Loads == [kind : {"first", "list", "page", "entry"}, visit : Nat, value : Seen, doubt : BOOLEAN]
Writes == [number : Nat, want : BOOLEAN, from : {"feed", "home", "nobody"}, visit : Nat, served : BOOLEAN,
           doubt : BOOLEAN]

(* Pages, caches, reads and writes keep to their types.                      *)
FeedIsTyped ==
  /\ kept \in BOOLEAN /\ flag \in BOOLEAN /\ doubt \in BOOLEAN
  /\ visit \in Nat /\ acts \in Nat
  /\ cache \in Entry /\ detail \in Entry /\ offer \in [want : Seen, visit : Nat]
  /\ loads \subseteq Loads /\ writes \subseteq Writes

(* What is kept is what was kept before the writes under way.                *)
NoneServed == \A r \in writes : ~r.served

(* No write that was given up may still be done.                             *)
NoStray == \A r \in writes : r.from # "nobody"

(* A read begun beside no write, and not crossed by one.                     *)
LoadIsSound(l) == ~l.doubt => writes = {} /\ l.value \in {"none", AsSeen(kept)}

(* A write beside no other decides what is kept.                             *)
WriteIsSound(r) ==
  /\ ~r.doubt => writes = {r} /\ (r.served => AsSeen(r.want) = AsSeen(kept))
  /\ r.from = "nobody" => r.doubt /\ ~r.served

(* A copy that is not in doubt is what is kept, unless a write was served    *)
(* meanwhile.                                                                *)
EntryIsSound(e) == ~e.doubt /\ e.value # "none" /\ NoneServed => e.value = AsSeen(kept) /\ NoStray

(* What the home's page shows is the opposite of what it asked for.          *)
TurnIsSound(r) ==
  r.from = "home" =>
    /\ r.visit <= visit
    /\ ~r.doubt /\ place = "home" /\ r.visit = visit /\ ~doubt => AsSeen(r.want) # AsSeen(flag)

(* The page will be told: its own read, or the feed's first, is under way.   *)
PageIsAwaited ==
  \E l \in loads : (l.kind = "first" /\ place = "feed") \/ (l.kind = "page" /\ l.visit = visit)

(* A page that asked shows what is kept, or a read it waits for will bring   *)
(* it.                                                                       *)
FlagIsSound ==
  place # "away" /\ asks /\ ~doubt /\ NoneServed =>
    (AsSeen(flag) = AsSeen(kept) /\ NoStray) \/ PageIsAwaited

(* Only likes have entries of homes.                                         *)
EntriesAreLikes == thing # "like" => detail.value = "none" /\ \A l \in loads : l.kind # "entry"

(* The inductive invariant.                                                  *)
FeedInv ==
  /\ FeedIsTyped /\ EntriesAreLikes /\ FlagIsSound
  /\ EntryIsSound(cache) /\ EntryIsSound(detail)
  /\ \A l \in loads : LoadIsSound(l)
  /\ \A r \in writes : WriteIsSound(r) /\ TurnIsSound(r)

-----------------------------------------------------------------------------
(* The invariant holds at first.                                             *)
LEMMA FeedBegins == FeedInit => FeedInv
<1> SUFFICES ASSUME FeedInit PROVE FeedInv
  OBVIOUS
<1>1. FeedIsTyped
  BY DEF FeedInit, FeedIsTyped, NotCached, Entry, NoOffer, Seen
<1>2. EntriesAreLikes /\ FlagIsSound /\ EntryIsSound(cache) /\ EntryIsSound(detail)
  BY DEF FeedInit, EntriesAreLikes, FlagIsSound, EntryIsSound, NotCached
<1>3. writes = {} /\ loads = {}
  BY DEF FeedInit
<1> QED BY <1>1, <1>2, <1>3 DEF FeedInv

(* A page is opened or left, or reads go on: writes and what is kept stay.   *)
LEMMA ReadsGoOn ==
  ASSUME FeedInv, UNCHANGED <<thing, kept, writes>>, FeedIsTyped',
         EntryIsSound(cache'), EntryIsSound(detail'), \A l \in loads' : LoadIsSound(l),
         EntriesAreLikes', FlagIsSound',
         \/ UNCHANGED <<place, visit, flag, doubt>>
         \/ visit' = visit /\ (place' # "home" \/ doubt' \/ writes = {})
         \/ visit' = visit + 1
  PROVE  FeedInv'
<1>1. EntryIsSound(cache)' /\ EntryIsSound(detail)'
  BY DEF EntryIsSound, NoneServed, NoStray
<1>2. \A l \in loads' : LoadIsSound(l)'
  BY DEF LoadIsSound
<1>3. ASSUME NEW r \in writes PROVE WriteIsSound(r)' /\ TurnIsSound(r)'
  <2>1. WriteIsSound(r) /\ TurnIsSound(r) /\ r.visit \in Nat /\ visit \in Nat
    BY DEF FeedInv, FeedIsTyped, Writes
  <2>2. WriteIsSound(r)'
    BY <2>1 DEF WriteIsSound
  <2>3. TurnIsSound(r)'
    BY <2>1 DEF TurnIsSound
  <2> QED BY <2>2, <2>3
<1> QED BY <1>1, <1>2, <1>3 DEF FeedInv

(* A read that a page starts. *)
LEMMA ReadingStarts ==
  ASSUME FeedInv, NEW kind \in {"first", "list", "page", "entry"}, NEW found \in Seen,
         NEW uncertain \in BOOLEAN,
         ~uncertain /\ NoneServed /\ found # "none" => found = AsSeen(kept)
  PROVE  LET l == Reading(kind, found, uncertain)
         IN  l \in Loads /\ LoadIsSound(l) /\ l.kind = kind /\ l.visit = visit + 1
<1> DEFINE l == Reading(kind, found, uncertain)
<1>1. l = [kind |-> kind, visit |-> visit + 1, value |-> found, doubt |-> uncertain \/ writes # {}]
  BY DEF Reading
<1>2. visit + 1 \in Nat
  BY DEF FeedInv, FeedIsTyped
<1>3. (uncertain \/ writes # {}) \in BOOLEAN
  OBVIOUS
<1>4. l \in Loads
  BY <1>1, <1>2, <1>3 DEF Loads
<1>5. ~l.doubt => ~uncertain /\ writes = {}
  <2>1. l.doubt = (uncertain \/ writes # {})
    BY <1>1
  <2> HIDE DEF l
  <2> QED BY <2>1, Zenon
<1>6. l.kind = kind /\ l.visit = visit + 1 /\ l.value = found
  BY <1>1
<1> HIDE DEF l
<1>7. writes = {} => NoneServed
  BY DEF NoneServed
<1>8. LoadIsSound(l)
  BY <1>5, <1>6, <1>7 DEF LoadIsSound
<1> QED BY <1>4, <1>6, <1>8 DEF l

(* The four ways a page is opened. *)
LEMMA FeedOpens ==
  ASSUME FeedInv, OpenFeedForLikes \/ OpenFeedForIds PROVE FeedInv'
<1>1. /\ UNCHANGED <<thing, kept, writes, acts, offer, cache>> /\ visit' = visit + 1 /\ place' = "feed"
      /\ cache \in Entry /\ detail \in Entry /\ visit \in Nat /\ loads \subseteq Loads
  BY DEF FeedInv, FeedIsTyped, OpenFeedForLikes, OpenFeedForIds, Enter, others
<1> DEFINE first == Reading("first", "none", FALSE)
           list  == Reading("list", "none", FALSE)
           page  == Reading("page", cache.value, cache.doubt)
<1>2. first \in Loads /\ LoadIsSound(first) /\ first.kind = "first" /\ first.visit = visit + 1
  BY ReadingStarts DEF Seen
<1>3. list \in Loads /\ LoadIsSound(list) /\ list.kind = "list" /\ list.visit = visit + 1
  BY ReadingStarts DEF Seen
<1>4. page \in Loads /\ LoadIsSound(page) /\ page.kind = "page" /\ page.visit = visit + 1
  BY <1>1, ReadingStarts DEF Entry, FeedInv, EntryIsSound
<1>5. loads' \subseteq loads \cup {first, list, page}
  <2>1. CASE OpenFeedForLikes
    BY <2>1 DEF OpenFeedForLikes
  <2>2. CASE OpenFeedForIds
    <3>1. loads' \in {loads, loads \cup (IF cache.value # "none" THEN {page} ELSE {first})
             \cup (IF cache.value # "none" /\ ~cache.fresh THEN {list} ELSE {})}
      BY <2>2 DEF OpenFeedForIds
    <3> QED BY <3>1
  <2> QED BY <2>1, <2>2
<1>6. detail' \in {detail, [cache EXCEPT !.fresh = TRUE]} /\ (thing # "like" => detail' = detail)
  BY DEF OpenFeedForLikes, OpenFeedForIds
<1>7. doubt' \in BOOLEAN /\ flag' \in BOOLEAN
  BY <1>1 DEF OpenFeedForLikes, OpenFeedForIds, Entry
<1>8. asks' /\ ~doubt' =>
                 /\ ~cache.doubt /\ AsSeen(flag') = AsSeen(cache.value = "on")
                 /\ cache.value = "none" => first \in loads'
  <2>1. CASE OpenFeedForLikes
    BY <2>1 DEF OpenFeedForLikes
  <2>2. CASE OpenFeedForIds
    BY <2>2 DEF OpenFeedForIds
  <2> QED BY <2>1, <2>2
<1> HIDE DEF first, list, page
<1>9. FeedIsTyped'
  <2>1. detail' \in Entry
    BY <1>1, <1>6 DEF Entry
  <2>2. visit' \in Nat
    BY <1>1
  <2> QED BY <1>1, <1>2, <1>3, <1>4, <1>5, <1>7, <2>1, <2>2 DEF FeedInv, FeedIsTyped
<1>10. EntryIsSound(cache') /\ EntryIsSound(detail')
  BY <1>1, <1>6 DEF FeedInv, EntryIsSound, Entry
<1>11. \A l \in loads' : LoadIsSound(l)
  BY <1>2, <1>3, <1>4, <1>5 DEF FeedInv
<1>12. EntriesAreLikes'
  BY <1>1, <1>2, <1>3, <1>4, <1>5, <1>6 DEF FeedInv, EntriesAreLikes
<1>13. FlagIsSound'
  <2> SUFFICES ASSUME asks', ~doubt', NoneServed
               PROVE  (AsSeen(flag') = AsSeen(kept) /\ NoStray) \/ PageIsAwaited'
    BY <1>1 DEF FlagIsSound, NoneServed, NoStray
  <2>1. CASE cache.value = "none"
    BY <1>1, <1>2, <1>8, <2>1 DEF PageIsAwaited
  <2>2. CASE cache.value # "none"
    <3>1. cache.value = AsSeen(kept) /\ NoStray
      BY <1>8, <2>2 DEF FeedInv, EntryIsSound
    <3> QED BY <1>8, <3>1 DEF AsSeen
  <2> QED BY <2>1, <2>2
<1> QED BY <1>1, <1>9, <1>10, <1>11, <1>12, <1>13, ReadsGoOn

(* A home's page opens with what the copies say.                             *)
LEMMA HomeOpens ==
  ASSUME FeedInv, OpenHomeForLikes \/ OpenHomeForIds PROVE FeedInv'
<1>1. /\ UNCHANGED <<thing, kept, writes, acts, offer, cache, detail>> /\ visit' = visit + 1 /\ place' = "home"
      /\ cache \in Entry /\ detail \in Entry /\ visit \in Nat /\ loads \subseteq Loads
  BY DEF FeedInv, FeedIsTyped, OpenHomeForLikes, OpenHomeForIds, Enter, others
<1> DEFINE entry == Reading("entry", "none", FALSE)
           page  == Reading("page", "none", FALSE)
           known == Reading("page", detail.value, detail.doubt)
<1>2. entry \in Loads /\ LoadIsSound(entry) /\ entry.kind = "entry" /\ entry.visit = visit + 1
  BY ReadingStarts DEF Seen
<1>3. page \in Loads /\ LoadIsSound(page) /\ page.kind = "page" /\ page.visit = visit + 1
  BY ReadingStarts DEF Seen
<1>4. known \in Loads /\ LoadIsSound(known) /\ known.kind = "page" /\ known.visit = visit + 1
  BY <1>1, ReadingStarts DEF Entry, FeedInv, EntryIsSound
<1>5. /\ loads' \subseteq loads \cup {entry, page, known}
      /\ asks' /\ ~doubt' => page \in loads' \/ known \in loads'
      /\ thing # "like" => loads' \subseteq loads \cup {page}
  <2>1. CASE OpenHomeForLikes
    BY <2>1 DEF OpenHomeForLikes
  <2>2. CASE OpenHomeForIds
    <3>1. /\ thing # "like" /\ loads' = (IF asks' THEN loads \cup {page} ELSE loads)
          /\ doubt' = (asks' \/ writes # {})
      BY <2>2 DEF OpenHomeForIds
    <3> HIDE DEF entry, page, known
    <3> QED BY <3>1
  <2> QED BY <2>1, <2>2
<1>6. doubt' \in BOOLEAN /\ flag' \in BOOLEAN
  BY <1>1 DEF OpenHomeForLikes, OpenHomeForIds, Entry
<1> HIDE DEF entry, page, known
<1>7. FeedIsTyped'
  <2>1. visit' \in Nat
    BY <1>1
  <2> QED BY <1>1, <1>2, <1>3, <1>4, <1>5, <1>6, <2>1 DEF FeedInv, FeedIsTyped
<1>8. EntryIsSound(cache') /\ EntryIsSound(detail')
  BY <1>1 DEF FeedInv, EntryIsSound
<1>9. \A l \in loads' : LoadIsSound(l)
  BY <1>2, <1>3, <1>4, <1>5 DEF FeedInv
<1>10. EntriesAreLikes'
  BY <1>1, <1>3, <1>5 DEF FeedInv, EntriesAreLikes
<1>11. FlagIsSound'
  BY <1>1, <1>3, <1>4, <1>5 DEF FlagIsSound, PageIsAwaited
<1> QED BY <1>1, <1>7, <1>8, <1>9, <1>10, <1>11, ReadsGoOn

(* What the page shows stays, and so does what it waits for. *)
LEMMA PageWaits ==
  ASSUME FeedInv, UNCHANGED <<kept, writes, place, visit, flag, doubt, asks>>,
         PageIsAwaited => PageIsAwaited'
  PROVE  FlagIsSound'
  BY DEF FeedInv, FlagIsSound, NoneServed, NoStray

(* A page is left: nobody waits any more.                                    *)
LEMMA PageIsLeft == ASSUME FeedInv, LeavePage PROVE FeedInv'
<1>1. /\ UNCHANGED <<thing, kept, writes, loads, cache, detail, visit, offer, acts>>
      /\ place' = "away" /\ doubt' = TRUE /\ flag' = FALSE
  BY DEF LeavePage, others
<1>2. FeedIsTyped'
  BY <1>1 DEF FeedInv, FeedIsTyped
<1>3. EntriesAreLikes' /\ FlagIsSound' /\ EntryIsSound(cache') /\ EntryIsSound(detail')
  BY <1>1 DEF FeedInv, EntriesAreLikes, FlagIsSound
<1> QED BY <1>1, <1>2, <1>3, ReadsGoOn DEF FeedInv

(* The feed is asked for again.                                              *)
LEMMA FeedIsRefreshed == ASSUME FeedInv, RefreshFeed PROVE FeedInv'
<1> DEFINE l == [kind |-> "page", visit |-> visit, value |-> "none", doubt |-> writes # {}]
<1>1. /\ UNCHANGED <<thing, asks, kept, writes, detail, offer, acts, place, visit, flag, doubt>>
      /\ loads' = loads \cup {l} /\ cache' = NotCached
  BY DEF RefreshFeed, others, pageVars
<1>2. l \in Loads /\ l.kind = "page" /\ l.value = "none" /\ l.visit = visit
  BY DEF Loads, FeedInv, FeedIsTyped, Seen
<1>3. l.doubt = (writes # {})
  OBVIOUS
<1> HIDE DEF l
<1>4. LoadIsSound(l)
  BY <1>2, <1>3 DEF LoadIsSound
<1>5. FeedIsTyped'
  BY <1>1, <1>2 DEF FeedInv, FeedIsTyped, NotCached, Entry, Seen
<1>6. EntryIsSound(cache') /\ EntryIsSound(detail')
  BY <1>1 DEF FeedInv, EntryIsSound, NotCached
<1>7. EntriesAreLikes'
  BY <1>1, <1>2 DEF FeedInv, EntriesAreLikes
<1>8. FlagIsSound'
  BY <1>1, PageWaits DEF PageIsAwaited
<1> QED BY <1>1, <1>4, <1>5, <1>6, <1>7, <1>8, ReadsGoOn DEF FeedInv

(* Copies age and are dropped.                                               *)
LEMMA CachesAge == ASSUME FeedInv, CacheAges \/ ListDropped PROVE FeedInv'
<1>1. /\ UNCHANGED <<thing, asks, kept, writes, loads, offer, acts, place, visit, flag, doubt>>
      /\ cache' \in {NotCached, [cache EXCEPT !.fresh = FALSE]}
      /\ detail' \in {detail, [detail EXCEPT !.fresh = FALSE]}
  BY DEF CacheAges, ListDropped, others, pageVars
<1>2. cache \in Entry /\ detail \in Entry
  BY DEF FeedInv, FeedIsTyped
<1>3. /\ cache' \in Entry /\ detail' \in Entry /\ detail'.value = detail.value /\ (detail'.doubt => detail.doubt)
      /\ (detail.doubt => detail'.doubt)
      /\ cache'.value = "none" \/ (cache'.value = cache.value /\ (cache.doubt => cache'.doubt))
  <2> DEFINE c == [cache EXCEPT !.fresh = FALSE]
             d == [detail EXCEPT !.fresh = FALSE]
  <2>1. c \in Entry /\ c.value = cache.value /\ c.doubt = cache.doubt
    BY <1>2 DEF Entry
  <2>2. d \in Entry /\ d.value = detail.value /\ d.doubt = detail.doubt
    BY <1>2 DEF Entry
  <2>3. NotCached \in Entry /\ NotCached.value = "none"
    BY DEF NotCached, Entry, Seen
  <2>4. cache' \in {NotCached, c} /\ detail' \in {detail, d}
    BY <1>1
  <2> HIDE DEF c, d
  <2> QED BY <1>2, <2>1, <2>2, <2>3, <2>4
<1>4. FeedIsTyped'
  BY <1>1, <1>3 DEF FeedInv, FeedIsTyped
<1>5. EntryIsSound(cache') /\ EntryIsSound(detail')
  BY <1>3 DEF FeedInv, EntryIsSound
<1>6. EntriesAreLikes' /\ FlagIsSound'
  BY <1>1, <1>3, PageWaits DEF FeedInv, EntriesAreLikes, PageIsAwaited
<1> QED BY <1>1, <1>4, <1>5, <1>6, ReadsGoOn DEF FeedInv

(* The server answers a read. *)
LEMMA ReadIsServed == ASSUME FeedInv, NEW l \in loads, LoadServed(l) PROVE FeedInv'
<1> DEFINE n == [l EXCEPT !.value = AsSeen(kept)]
<1>1. /\ UNCHANGED <<thing, asks, kept, writes, cache, detail, offer, acts, place, visit, flag, doubt>>
      /\ loads' = (loads \ {l}) \cup {n}
  BY DEF LoadServed, others, pageVars
<1>2. l \in Loads /\ LoadIsSound(l)
  BY DEF FeedInv, FeedIsTyped
<1>3. n \in Loads /\ n.kind = l.kind /\ n.visit = l.visit /\ n.doubt = l.doubt /\ n.value = AsSeen(kept)
  BY <1>2 DEF Loads, AsSeen, Seen
<1> HIDE DEF n
<1>4. LoadIsSound(n)
  BY <1>2, <1>3 DEF LoadIsSound
<1>5. FeedIsTyped'
  BY <1>1, <1>3 DEF FeedInv, FeedIsTyped
<1>6. EntryIsSound(cache') /\ EntryIsSound(detail')
  BY <1>1 DEF FeedInv
<1>7. EntriesAreLikes'
  BY <1>1, <1>3 DEF FeedInv, EntriesAreLikes
<1>8. FlagIsSound'
  BY <1>1, <1>3, PageWaits DEF PageIsAwaited
<1> QED BY <1>1, <1>4, <1>5, <1>6, <1>7, <1>8, ReadsGoOn DEF FeedInv

(* What a read has brought is an entry, as sound as the read. *)
LEMMA WhatIsWritten ==
  ASSUME FeedInv, NEW l \in loads, l.value # "none"
  PROVE  /\ l \in Loads /\ Written(l) \in Entry /\ EntryIsSound(Written(l))
         /\ ~l.doubt => AsSeen(l.value = "on") = AsSeen(kept) /\ writes = {}
<1>1. l \in Loads /\ LoadIsSound(l)
  BY DEF FeedInv, FeedIsTyped
<1>2. Written(l) \in Entry /\ Written(l).value = l.value /\ Written(l).doubt = l.doubt
  BY <1>1 DEF Written, Entry, Loads
<1>3. ~l.doubt => l.value = AsSeen(kept) /\ writes = {}
  BY <1>1 DEF LoadIsSound
<1>4. EntryIsSound(Written(l))
  BY <1>2, <1>3 DEF EntryIsSound, NoStray
<1> QED BY <1>1, <1>2, <1>3, <1>4 DEF AsSeen

(* The list of the feed arrives.                                             *)
LEMMA HomesHaveArrived == ASSUME FeedInv, NEW l \in loads, HomesArrive(l) PROVE FeedInv'
<1> DEFINE n == [l EXCEPT !.kind = "page"]
<1>1. /\ UNCHANGED <<thing, asks, kept, writes, offer, acts, place, visit>>
      /\ loads \ {l} \subseteq loads' /\ loads' \subseteq (loads \ {l}) \cup {n}
      /\ cache' = Written(l) /\ detail' \in {detail, Written(l)} /\ (thing # "like" => detail' = detail)
      /\ l.value # "none" /\ l.kind \in {"first", "list"}
      /\ place = "feed" => AsSeen(flag') = AsSeen(l.value = "on") /\ flag' \in BOOLEAN /\ doubt' = l.doubt
      /\ place # "feed" => UNCHANGED <<flag, doubt>>
  BY DEF HomesArrive, others, AsSeen
<1>2. l \in Loads /\ Written(l) \in Entry /\ EntryIsSound(Written(l))
      /\ (~l.doubt => AsSeen(l.value = "on") = AsSeen(kept) /\ writes = {} /\ NoStray) /\ LoadIsSound(l)
  BY <1>1, WhatIsWritten DEF FeedInv, NoStray
<1>3. n \in Loads /\ n.kind = "page" /\ n.visit = l.visit /\ n.doubt = l.doubt /\ n.value = l.value
  BY <1>2 DEF Loads
<1> HIDE DEF n
<1>4. LoadIsSound(n)
  BY <1>2, <1>3 DEF LoadIsSound
<1>5. flag' \in BOOLEAN /\ doubt' \in BOOLEAN
  BY <1>1, <1>2 DEF Loads, FeedInv, FeedIsTyped
<1>6. FeedIsTyped'
  BY <1>1, <1>2, <1>3, <1>5 DEF FeedInv, FeedIsTyped
<1>7. EntryIsSound(cache') /\ EntryIsSound(detail')
  BY <1>1, <1>2 DEF FeedInv
<1>8. EntriesAreLikes'
  BY <1>1, <1>3 DEF FeedInv, EntriesAreLikes
<1>9. FlagIsSound'
  <2>1. CASE place = "feed"
    BY <1>1, <1>2, <2>1 DEF FlagIsSound, NoStray
  <2>2. CASE place # "feed"
    BY <1>1, <2>2, PageWaits DEF PageIsAwaited
  <2> QED BY <2>1, <2>2
<1>10. place' # "home" \/ UNCHANGED <<place, visit, flag, doubt>>
  BY <1>1
<1> QED BY <1>1, <1>4, <1>6, <1>7, <1>8, <1>9, <1>10, ReadsGoOn DEF FeedInv

(* What a home's page has read arrives.                                      *)
LEMMA PageHasArrived == ASSUME FeedInv, NEW l \in loads, PageArrives(l) PROVE FeedInv'
<1>1. /\ UNCHANGED <<thing, asks, kept, writes, offer, acts, place, visit, cache>>
      /\ loads' = loads \ {l} /\ l.value # "none" /\ l.kind = "page"
      /\ detail' \in {detail, Written(l)} /\ (thing # "like" => detail' = detail)
      /\ place # "away" /\ l.visit = visit =>
           AsSeen(flag') = AsSeen(l.value = "on") /\ flag' \in BOOLEAN /\ doubt' = l.doubt
      /\ ~(place # "away" /\ l.visit = visit) => UNCHANGED <<flag, doubt>>
  BY DEF PageArrives, others, AsSeen
<1>2. l \in Loads /\ Written(l) \in Entry /\ EntryIsSound(Written(l))
      /\ (~l.doubt => AsSeen(l.value = "on") = AsSeen(kept) /\ writes = {})
  BY <1>1, WhatIsWritten
<1>3. flag' \in BOOLEAN /\ doubt' \in BOOLEAN
  BY <1>1, <1>2 DEF Loads, FeedInv, FeedIsTyped
<1>4. FeedIsTyped'
  BY <1>1, <1>2, <1>3 DEF FeedInv, FeedIsTyped
<1>5. EntryIsSound(cache') /\ EntryIsSound(detail')
  BY <1>1, <1>2 DEF FeedInv
<1>6. EntriesAreLikes'
  BY <1>1 DEF FeedInv, EntriesAreLikes
<1>7. FlagIsSound'
  <2>1. CASE place # "away" /\ l.visit = visit
    BY <1>1, <1>2, <2>1 DEF FlagIsSound, NoStray
  <2>2. CASE place # "away" /\ l.visit # visit
    BY <1>1, <2>2, PageWaits DEF PageIsAwaited
  <2>3. CASE place = "away"
    BY <1>1, <2>3 DEF FlagIsSound
  <2> QED BY <2>1, <2>2, <2>3
<1>8. \/ UNCHANGED <<place, visit, flag, doubt>>
      \/ visit' = visit /\ (doubt' \/ writes = {})
  BY <1>1, <1>2
<1> QED BY <1>1, <1>4, <1>5, <1>6, <1>7, <1>8, ReadsGoOn DEF FeedInv

(* A home is read ahead, or its entry comes. *)
LEMMA EntryIsRead ==
  ASSUME FeedInv, PrefetchHome \/ \E l \in loads : EntryArrives(l) PROVE FeedInv'
<1>1. UNCHANGED <<thing, asks, kept, writes, offer, acts, place, visit, flag, doubt, cache>>
  BY DEF PrefetchHome, EntryArrives, others, pageVars
<1>2. detail \in Entry /\ visit \in Nat
  BY DEF FeedInv, FeedIsTyped
<1>3. CASE PrefetchHome
  <2> DEFINE m == [kind |-> "entry", visit |-> visit, value |-> detail.value, doubt |-> detail.doubt \/ writes # {}]
             n == [kind |-> "entry", visit |-> visit, value |-> "none", doubt |-> writes # {}]
  <2>1. loads \subseteq loads' /\ loads' \subseteq loads \cup {m, n} /\ detail' = detail /\ thing = "like"
    BY <1>3 DEF PrefetchHome
  <2>2. (detail.doubt \/ writes # {}) \in BOOLEAN /\ (writes # {}) \in BOOLEAN
    OBVIOUS
  <2>3. m \in Loads /\ n \in Loads
    BY <1>2, <2>2 DEF Loads, Entry, Seen
  <2>4. m.doubt = (detail.doubt \/ writes # {}) /\ m.value = detail.value
    OBVIOUS
  <2>5. n.doubt = (writes # {}) /\ n.value = "none"
    OBVIOUS
  <2> HIDE DEF m, n
  <2>6. ~m.doubt => ~detail.doubt /\ writes = {}
    BY <2>4, Zenon
  <2>7. writes = {} => NoneServed
    BY DEF NoneServed
  <2>8. LoadIsSound(m)
    BY <2>4, <2>6, <2>7 DEF LoadIsSound, FeedInv, EntryIsSound
  <2>9. LoadIsSound(n)
    BY <2>5 DEF LoadIsSound
  <2>10. FeedIsTyped' /\ EntriesAreLikes'
    BY <1>1, <2>1, <2>3 DEF FeedInv, FeedIsTyped, EntriesAreLikes
  <2>11. FlagIsSound'
    BY <1>1, <2>1, PageWaits DEF PageIsAwaited
  <2> QED BY <1>1, <2>1, <2>8, <2>9, <2>10, <2>11, ReadsGoOn DEF FeedInv
<1>4. ASSUME NEW l \in loads, EntryArrives(l) PROVE FeedInv'
  <2>1. loads' = loads \ {l} /\ detail' = Written(l) /\ l.kind = "entry" /\ l.value # "none"
    BY <1>4 DEF EntryArrives
  <2>2. l \in Loads /\ Written(l) \in Entry /\ EntryIsSound(Written(l))
    BY <2>1, WhatIsWritten
  <2>3. FeedIsTyped' /\ EntriesAreLikes'
    BY <1>1, <2>1, <2>2 DEF FeedInv, FeedIsTyped, EntriesAreLikes
  <2>4. FlagIsSound'
    BY <1>1, <2>1, PageWaits DEF PageIsAwaited
  <2> QED BY <1>1, <2>1, <2>2, <2>3, <2>4, ReadsGoOn DEF FeedInv
<1> QED BY <1>3, <1>4

(* A read fails.                                                             *)
LEMMA ReadHasFailed == ASSUME FeedInv, NEW l \in loads, LoadFails(l) PROVE FeedInv'
<1>1. /\ UNCHANGED <<thing, asks, kept, writes, cache, detail, offer, acts, place, visit>>
      /\ loads' = loads \ {l} /\ doubt' = TRUE /\ flag' \in BOOLEAN
  BY DEF LoadFails, others, FeedInv, FeedIsTyped
<1>2. FeedIsTyped' /\ EntriesAreLikes' /\ FlagIsSound'
  BY <1>1 DEF FeedInv, FeedIsTyped, EntriesAreLikes, FlagIsSound
<1> QED BY <1>1, <1>2, ReadsGoOn DEF FeedInv

(* While a write is under way every read is in doubt. *)
LEMMA ReadsAreCrossed == FeedInv /\ writes # {} => \A l \in loads : l.doubt
  BY DEF FeedInv, LoadIsSound

(* The page keeps what it shows and asks for a write. *)
LEMMA WriteIsSent ==
  ASSUME FeedInv, NEW want \in BOOLEAN, NEW from \in {"feed", "home"}, NEW number \in Nat,
         SendWrite(want, from, number),
         UNCHANGED <<thing, kept, asks, flag, doubt, place, visit, cache, detail>>,
         offer' \in [want : Seen, visit : Nat],
         from = "home" => number = visit /\ AsSeen(want) # AsSeen(flag)
  PROVE  FeedInv'
<1> DEFINE new == [number |-> acts', want |-> want, from |-> from, visit |-> number, served |-> FALSE,
                   doubt |-> writes # {} \/ (from = "home" /\ loads # {})]
           D(r) == [r EXCEPT !.doubt = TRUE]
<1>0. PICK w : w = new
  OBVIOUS
<1>1. writes' = {D(r) : r \in writes} \cup {w} /\ loads' = {D(l) : l \in loads} /\ acts' = acts + 1
  BY <1>0 DEF SendWrite
<1>2. acts' \in Nat /\ visit \in Nat /\ writes \subseteq Writes /\ loads \subseteq Loads
  BY <1>1 DEF FeedInv, FeedIsTyped
<1>3. w \in Writes /\ w.served = FALSE /\ w.want = want /\ w.from = from /\ w.visit = number
  <2>1. (writes # {} \/ (from = "home" /\ loads # {})) \in BOOLEAN
    OBVIOUS
  <2> QED BY <1>0, <1>2, <2>1 DEF Writes
<1>4. ~w.doubt => writes = {}
  <2>1. w.doubt = (writes # {} \/ (from = "home" /\ loads # {}))
    BY <1>0
  <2> HIDE DEF new
  <2> QED BY <2>1, Zenon
<1>5. ASSUME NEW r \in writes
      PROVE  D(r) \in Writes /\ D(r).doubt = TRUE /\ D(r).served = r.served /\ D(r).from = r.from
             /\ D(r).visit = r.visit
  BY <1>2 DEF Writes
<1>6. ASSUME NEW l \in loads
      PROVE  D(l) \in Loads /\ D(l).doubt = TRUE /\ D(l).kind = l.kind /\ D(l).visit = l.visit
  BY <1>2 DEF Loads
<1> HIDE DEF new, D
<1>7. FeedIsTyped'
  <2>1. writes' \subseteq Writes
    <3>1. \A r \in writes : D(r) \in Writes
      BY <1>5
    <3> QED BY <1>1, <1>3, <3>1
  <2>2. loads' \subseteq Loads
    BY <1>1, <1>6
  <2> QED BY <1>2, <2>1, <2>2 DEF FeedInv, FeedIsTyped
<1>8. (NoneServed' => NoneServed) /\ (NoStray => NoStray')
  <2>1. NoneServed' => NoneServed
    BY <1>1, <1>5 DEF NoneServed
  <2>2. NoStray => NoStray'
    <3>1. w.from # "nobody"
      BY <1>3
    <3>2. ASSUME NoStray, NEW x \in writes', x # w PROVE x.from # "nobody"
      <4>1. PICK r \in writes : x = D(r)
        BY <1>1, <3>2
      <4>2. D(r).from = r.from /\ r.from # "nobody"
        BY <1>5, <3>2 DEF NoStray
      <4> QED BY <4>1, <4>2
    <3> QED BY <3>1, <3>2 DEF NoStray
  <2> QED BY <2>1, <2>2
<1>9. EntriesAreLikes'
  BY <1>1, <1>6 DEF FeedInv, EntriesAreLikes
<1>10. PageIsAwaited => PageIsAwaited'
  BY <1>1, <1>6 DEF PageIsAwaited
<1>11. FlagIsSound'
  BY <1>8, <1>10 DEF FeedInv, FlagIsSound
<1>12. EntryIsSound(cache)' /\ EntryIsSound(detail)'
  BY <1>8 DEF FeedInv, EntryIsSound
<1>13. \A l \in loads' : LoadIsSound(l)'
  BY <1>1, <1>6 DEF LoadIsSound
<1>14. WriteIsSound(w)' /\ TurnIsSound(w)'
  <2>1. writes = {} => writes' = {w}
    BY <1>1
  <2>2. WriteIsSound(w)'
    BY <1>3, <1>4, <2>1 DEF WriteIsSound
  <2>3. from = "home" => number <= visit
    BY <1>2
  <2>4. TurnIsSound(w)'
    BY <1>3, <2>3 DEF TurnIsSound
  <2> QED BY <2>2, <2>4
<1>15. ASSUME NEW r \in writes PROVE WriteIsSound(D(r))' /\ TurnIsSound(D(r))'
  BY <1>5, <1>15 DEF FeedInv, WriteIsSound, TurnIsSound
<1>16. \A r \in writes' : WriteIsSound(r)' /\ TurnIsSound(r)'
  BY <1>1, <1>14, <1>15
<1> QED BY <1>7, <1>9, <1>11, <1>12, <1>13, <1>16 DEF FeedInv

(* Buttons, and "Try again". *)
LEMMA StudentActs ==
  ASSUME FeedInv, LikeInFeed \/ RecommendInFeed \/ SaveInFeed \/ ActAtHome \/ TryAgain PROVE FeedInv'
<1>1. visit \in Nat /\ offer \in [want : Seen, visit : Nat]
  BY DEF FeedInv, FeedIsTyped
<1>2. CASE LikeInFeed
  <2>1. (heart = "off") \in BOOLEAN
    OBVIOUS
  <2> QED BY <1>1, <1>2, <2>1, WriteIsSent DEF LikeInFeed, others
<1>3. CASE RecommendInFeed \/ SaveInFeed
  <2>1. (~flag) \in BOOLEAN
    OBVIOUS
  <2> QED BY <1>1, <1>3, <2>1, WriteIsSent DEF RecommendInFeed, SaveInFeed, others, pageVars
<1>4. CASE ActAtHome
  <2>1. (~flag) \in BOOLEAN /\ AsSeen(~flag) # AsSeen(flag)
    BY DEF AsSeen
  <2> QED BY <1>1, <1>4, <2>1, WriteIsSent DEF ActAtHome, others, pageVars
<1>5. CASE TryAgain
  <2>1. (offer.want = "on") \in BOOLEAN /\ offer.visit \in Nat
    BY <1>1
  <2>2. NoOffer \in [want : Seen, visit : Nat]
    BY DEF NoOffer, Seen
  <2> QED BY <1>5, <2>1, <2>2, WriteIsSent DEF TryAgain, others, pageVars
<1> QED BY <1>2, <1>3, <1>4, <1>5

(* The server does what a write asks for. *)
LEMMA WriteIsServed == ASSUME FeedInv, NEW r \in writes, WriteServed(r) PROVE FeedInv'
<1> DEFINE n == [r EXCEPT !.served = TRUE]
<1>1. /\ UNCHANGED <<thing, asks, loads, cache, detail, offer, acts, place, visit, flag, doubt>>
      /\ writes' = (writes \ {r}) \cup {n} /\ kept' = r.want /\ r.from # "nobody"
  BY DEF WriteServed, others, pageVars
<1>2. r \in Writes /\ WriteIsSound(r) /\ TurnIsSound(r)
  BY DEF FeedInv, FeedIsTyped
<1>3. n \in Writes /\ n.served = TRUE /\ n.want = r.want /\ n.from = r.from /\ n.visit = r.visit
      /\ n.doubt = r.doubt
  BY <1>2 DEF Writes
<1> HIDE DEF n
<1>4. FeedIsTyped'
  BY <1>1, <1>2, <1>3 DEF FeedInv, FeedIsTyped, Writes
<1>5. ~NoneServed'
  BY <1>1, <1>3 DEF NoneServed
<1>6. FlagIsSound' /\ EntryIsSound(cache)' /\ EntryIsSound(detail)'
  BY <1>5 DEF FlagIsSound, EntryIsSound
<1>7. EntriesAreLikes'
  BY <1>1 DEF FeedInv, EntriesAreLikes
<1>8. \A l \in loads' : LoadIsSound(l)'
  BY <1>1, ReadsAreCrossed DEF LoadIsSound
<1>9. WriteIsSound(n)' /\ TurnIsSound(n)'
  BY <1>1, <1>2, <1>3 DEF WriteIsSound, TurnIsSound
<1>10. ASSUME NEW x \in writes, x # r PROVE WriteIsSound(x)' /\ TurnIsSound(x)'
  BY <1>1, <1>10 DEF FeedInv, WriteIsSound, TurnIsSound
<1> QED BY <1>1, <1>4, <1>6, <1>7, <1>8, <1>9, <1>10 DEF FeedInv

(* A write is over: what the page and the caches hold is right or in doubt.  *)
LEMMA WriteIsOver ==
  ASSUME FeedInv, NEW r \in writes, writes' = writes \ {r}, FeedIsTyped',
         UNCHANGED <<thing, place, visit>>,
         \A l \in loads' : l.doubt /\ \E k \in loads : l.kind = k.kind,
         thing # "like" => detail'.value = "none",
         FlagIsSound', EntryIsSound(cache)', EntryIsSound(detail)',
         UNCHANGED <<flag, doubt>> \/ doubt' \/ writes = {r} \/ place # "home"
  PROVE  FeedInv'
<1>1. EntriesAreLikes'
  BY DEF FeedInv, EntriesAreLikes
<1>2. \A l \in loads' : LoadIsSound(l)'
  BY DEF LoadIsSound
<1>3. ASSUME NEW x \in writes, x # r PROVE WriteIsSound(x)' /\ TurnIsSound(x)'
  BY <1>3 DEF FeedInv, WriteIsSound, TurnIsSound
<1> QED BY <1>1, <1>2, <1>3 DEF FeedInv

(* What a write leaves of an entry, when its answer comes or not. *)
LEMMA EntryIsDoubted ==
  ASSUME NEW e \in Entry PROVE Doubted(e) \in Entry /\ Doubted(e).doubt = TRUE /\ Doubted(e).value = e.value
  BY DEF Entry, Doubted

(* What the error message offers to try again is a write.                    *)
LEMMA TryIsTyped ==
  ASSUME FeedInv, NEW r \in Writes PROVE TryOffered(r) \in [want : Seen, visit : Nat]
<1> DEFINE o == [want |-> AsSeen(r.want), visit |-> r.visit]
<1>1. o \in [want : Seen, visit : Nat]
  BY DEF AsSeen, Seen, Writes
<1>2. TryOffered(r) \in {o, offer}
  BY DEF TryOffered
<1> HIDE DEF o
<1> QED BY <1>1, <1>2 DEF FeedInv, FeedIsTyped

(* The answer of a write arrives: page and copies are set to it.             *)
LEMMA WriteIsAnswered ==
  ASSUME FeedInv, NEW r \in writes, FeedAnswered(r) \/ HomeAnswered(r) PROVE FeedInv'
<1>1. /\ UNCHANGED <<thing, kept, asks, place, visit, loads, offer, acts>> /\ writes' = writes \ {r}
      /\ cache' = CacheAfter(r) /\ detail' = Patched(r) /\ r.served
  BY DEF FeedAnswered, HomeAnswered, others
<1>2. r \in Writes /\ WriteIsSound(r) /\ TurnIsSound(r) /\ cache \in Entry /\ detail \in Entry
      /\ flag \in BOOLEAN /\ doubt \in BOOLEAN
  BY DEF FeedInv, FeedIsTyped
<1>3. ~r.doubt => writes = {r} /\ AsSeen(r.want) = AsSeen(kept)
  BY <1>1, <1>2 DEF WriteIsSound
<1>4. cache' \in Entry /\ (cache'.doubt \/ cache'.value = "none")
  BY <1>1, <1>2, EntryIsDoubted DEF CacheAfter, NotCached, Entry, Seen
<1>5. detail' \in Entry /\ EntryIsSound(detail)' /\ (thing # "like" => detail'.value = "none")
  <2>1. CASE thing = "like" /\ detail.value # "none"
    <3>1. Patched(r) = [value |-> AsSeen(r.want), fresh |-> TRUE, doubt |-> r.doubt]
      BY <2>1 DEF Patched
    <3>2. Patched(r) \in Entry /\ Patched(r).value = AsSeen(r.want) /\ Patched(r).doubt = r.doubt
      BY <1>2, <3>1 DEF Entry, Writes, AsSeen, Seen
    <3> QED BY <1>1, <1>3, <2>1, <3>2 DEF EntryIsSound, NoStray
  <2>2. CASE ~(thing = "like" /\ detail.value # "none")
    <3>1. detail' = detail /\ detail.value = "none"
      BY <1>1, <2>2 DEF Patched, FeedInv, EntriesAreLikes
    <3> QED BY <1>2, <3>1 DEF EntryIsSound
  <2> QED BY <2>1, <2>2
<1>6. flag' \in BOOLEAN /\ doubt' \in BOOLEAN
  BY <1>2 DEF FeedAnswered, HomeAnswered, Writes
<1>7. FeedIsTyped'
  BY <1>1, <1>4, <1>5, <1>6 DEF FeedInv, FeedIsTyped
<1>8. doubt' \/ (~r.doubt /\ AsSeen(flag') = AsSeen(r.want))
  <2>1. CASE FeedAnswered(r)
    BY <1>2, <2>1 DEF FeedAnswered, Writes
  <2>2. CASE HomeAnswered(r) /\ place = "home" /\ r.visit = visit
    <3>1. r.from = "home" /\ doubt' = (doubt \/ r.doubt)
      BY <2>2 DEF HomeAnswered
    <3>2. CASE doubt \/ r.doubt
      BY <3>1, <3>2
    <3>3. CASE ~doubt /\ ~r.doubt
      <4>1. AsSeen(r.want) # AsSeen(flag)
        BY <1>2, <2>2, <3>1, <3>3 DEF TurnIsSound
      <4>2. AsSeen(flag') # AsSeen(flag)
        BY <2>2 DEF HomeAnswered, AsSeen
      <4> QED BY <3>3, <4>1, <4>2 DEF AsSeen
    <3> QED BY <3>2, <3>3
  <2>3. CASE HomeAnswered(r) /\ ~(place = "home" /\ r.visit = visit)
    BY <2>3 DEF HomeAnswered
  <2> QED BY <2>1, <2>2, <2>3
<1>9. FlagIsSound'
  BY <1>1, <1>3, <1>8 DEF FlagIsSound, NoStray
<1>10. EntryIsSound(cache)'
  BY <1>4 DEF EntryIsSound
<1>11. \A l \in loads' : l.doubt /\ \E k \in loads : l.kind = k.kind
  BY <1>1, ReadsAreCrossed
<1>12. doubt' \/ writes = {r}
  BY <1>3, <1>8
<1> QED BY <1>1, <1>5, <1>7, <1>9, <1>10, <1>11, <1>12, WriteIsOver

(* A write is refused or its answer is lost: page and copies are put in      *)
(* doubt or stay.                                                            *)
LEMMA WriteHasFailed == ASSUME FeedInv, NEW r \in writes, WriteFails(r) PROVE FeedInv'
<1>1. /\ UNCHANGED <<thing, kept, asks, place, visit, flag, acts, loads>> /\ writes' = writes \ {r}
      /\ cache' = (IF r.served THEN Doubted(cache) ELSE cache)
      /\ detail' = (IF r.served THEN Doubted(detail) ELSE detail)
      /\ offer' = TryOffered(r) /\ r.from # "nobody"
  BY DEF WriteFails, others
<1>2. r \in Writes /\ cache \in Entry /\ detail \in Entry /\ doubt \in BOOLEAN
  BY DEF FeedInv, FeedIsTyped
<1>3. doubt' = (doubt \/ r.served)
  BY DEF WriteFails
<1>4. doubt' \in BOOLEAN /\ (doubt => doubt') /\ (r.served => doubt')
  BY <1>3, Zenon
<1>5. cache' \in Entry /\ detail' \in Entry /\ detail'.value = detail.value
      /\ (r.served => cache'.doubt /\ detail'.doubt)
      /\ (~r.served => cache' = cache /\ detail' = detail)
  BY <1>1, <1>2, EntryIsDoubted
<1>6. FeedIsTyped'
  BY <1>1, <1>2, <1>4, <1>5, TryIsTyped DEF FeedInv, FeedIsTyped
<1>7. (~r.served /\ NoneServed' => NoneServed) /\ (NoStray => NoStray')
  BY <1>1 DEF NoneServed, NoStray
<1>8. EntryIsSound(cache)' /\ EntryIsSound(detail)'
  BY <1>1, <1>5, <1>7 DEF FeedInv, EntryIsSound
<1>9. FlagIsSound'
  BY <1>1, <1>4, <1>7 DEF FeedInv, FlagIsSound, PageIsAwaited
<1>10. \A l \in loads' : l.doubt /\ \E k \in loads : l.kind = k.kind
  BY <1>1, ReadsAreCrossed
<1>11. thing # "like" => detail'.value = "none"
  BY <1>5 DEF FeedInv, EntriesAreLikes
<1>12. UNCHANGED <<flag, doubt>> \/ doubt'
  BY <1>1, <1>2, <1>3
<1> QED BY <1>1, <1>6, <1>8, <1>9, <1>10, <1>11, <1>12, WriteIsOver

(* A write is given up and may be done yet: page and copies are in doubt.    *)
LEMMA WriteIsGivenUp == ASSUME FeedInv, NEW r \in writes, WriteGivenUp(r) PROVE FeedInv'
<1> DEFINE n == [r EXCEPT !.from = "nobody", !.doubt = TRUE]
<1>1. /\ UNCHANGED <<thing, kept, asks, place, visit, flag, acts, loads>>
      /\ writes' = (writes \ {r}) \cup {n} /\ offer' = TryOffered(r) /\ ~r.served
      /\ doubt' = TRUE /\ cache' = Doubted(cache) /\ detail' = Doubted(detail)
  BY DEF WriteGivenUp, others
<1>2. r \in Writes /\ cache \in Entry /\ detail \in Entry
  BY DEF FeedInv, FeedIsTyped
<1>3. n \in Writes /\ n.from = "nobody" /\ n.doubt = TRUE /\ n.served = r.served
  BY <1>2 DEF Writes
<1> HIDE DEF n
<1>4. /\ cache' \in Entry /\ detail' \in Entry /\ detail'.value = detail.value
      /\ cache'.doubt /\ detail'.doubt
  BY <1>1, <1>2, EntryIsDoubted
<1>5. FeedIsTyped'
  BY <1>1, <1>3, <1>4, <1>2, TryIsTyped DEF FeedInv, FeedIsTyped
<1>6. EntryIsSound(cache)' /\ EntryIsSound(detail)' /\ FlagIsSound' /\ EntriesAreLikes'
  BY <1>1, <1>4 DEF FeedInv, EntryIsSound, FlagIsSound, EntriesAreLikes
<1>7. \A l \in loads' : LoadIsSound(l)'
  BY <1>1, ReadsAreCrossed DEF LoadIsSound
<1>8. WriteIsSound(n)' /\ TurnIsSound(n)'
  BY <1>1, <1>3 DEF WriteIsSound, TurnIsSound
<1>9. ASSUME NEW x \in writes, x # r PROVE WriteIsSound(x)' /\ TurnIsSound(x)'
  <2>1. WriteIsSound(x) /\ TurnIsSound(x) /\ x.doubt
    BY <1>9 DEF FeedInv, WriteIsSound
  <2> QED BY <1>1, <2>1 DEF WriteIsSound, TurnIsSound
<1> QED BY <1>1, <1>5, <1>6, <1>7, <1>8, <1>9 DEF FeedInv

(* A write that was given up is done after all, or never will be.            *)
LEMMA StrayHasEnded == ASSUME FeedInv, NEW r \in writes, StrayEnds(r) PROVE FeedInv'
<1>1. /\ UNCHANGED <<thing, asks, place, visit, flag, doubt, cache, detail, loads, offer, acts>>
      /\ writes' = writes \ {r} /\ r.from = "nobody" /\ kept' \in {kept, r.want}
  BY DEF StrayEnds, others, pageVars
<1>2. r \in Writes /\ ~r.served /\ ~NoStray
  BY <1>1 DEF FeedInv, FeedIsTyped, WriteIsSound, NoStray
<1>3. FeedIsTyped'
  BY <1>1, <1>2 DEF FeedInv, FeedIsTyped, Writes
<1>4. NoneServed' => NoneServed
  BY <1>1, <1>2 DEF NoneServed
<1>5. EntryIsSound(cache)' /\ EntryIsSound(detail)'
  BY <1>1, <1>2, <1>4 DEF FeedInv, EntryIsSound
<1>6. FlagIsSound'
  BY <1>1, <1>2, <1>4 DEF FeedInv, FlagIsSound, PageIsAwaited
<1>7. \A l \in loads' : l.doubt /\ \E k \in loads : l.kind = k.kind
  BY <1>1, ReadsAreCrossed
<1> QED BY <1>1, <1>3, <1>5, <1>6, <1>7, WriteIsOver DEF FeedInv, EntriesAreLikes

-----------------------------------------------------------------------------
(* Every step keeps the invariant.                                           *)
LEMMA FeedStep == ASSUME FeedInv, [FeedNext]_feedVars PROVE FeedInv'
<1>1. CASE StandingChanges \/ StatusSeen \/ RefreshStatus \/ AccountCached \/ UNCHANGED feedVars
  <2>1. UNCHANGED <<thing, kept, asks, flag, doubt, visit, place, cache, detail, writes, loads, offer, acts>>
    BY <1>1 DEF StandingChanges, StatusSeen, RefreshStatus, AccountCached, feedVars, pageVars
  <2> QED BY <2>1 DEF FeedInv, FeedIsTyped, EntriesAreLikes, FlagIsSound, PageIsAwaited, EntryIsSound,
                      NoneServed, NoStray, LoadIsSound, WriteIsSound, TurnIsSound
<1>2. ASSUME NEW l \in loads,
             LoadServed(l) \/ HomesArrive(l) \/ PageArrives(l) \/ EntryArrives(l) \/ LoadFails(l)
      PROVE  FeedInv'
  BY <1>2, ReadIsServed, HomesHaveArrived, PageHasArrived, EntryIsRead, ReadHasFailed
<1>3. ASSUME NEW r \in writes,
             \/ WriteServed(r) \/ FeedAnswered(r) \/ HomeAnswered(r)
             \/ WriteFails(r) \/ WriteGivenUp(r) \/ StrayEnds(r)
      PROVE  FeedInv'
  BY <1>3, WriteIsServed, WriteIsAnswered, WriteHasFailed, WriteIsGivenUp, StrayHasEnded
<1>4. CASE \/ OpenFeedForLikes \/ OpenFeedForIds \/ OpenHomeForLikes \/ OpenHomeForIds
           \/ LeavePage \/ PrefetchHome \/ RefreshFeed \/ CacheAges \/ ListDropped
  BY <1>4, FeedOpens, HomeOpens, PageIsLeft, EntryIsRead, FeedIsRefreshed, CachesAge
<1>5. CASE LikeInFeed \/ RecommendInFeed \/ SaveInFeed \/ ActAtHome \/ TryAgain
  BY <1>5, StudentActs
<1> QED BY <1>1, <1>2, <1>3, <1>4, <1>5 DEF FeedNext

(* A page at rest, and not in doubt, shows what is kept. *)
THEOREM PagesShowWhatIsStored == FeedSpec => []PageShowsStored
<1>1. FeedInv => PageShowsStored
  <2> SUFFICES ASSUME FeedInv, place # "away", asks, writes = {}, loads = {}, ~doubt PROVE flag = kept
    BY DEF PageShowsStored
  <2>1. AsSeen(flag) = AsSeen(kept) /\ flag \in BOOLEAN /\ kept \in BOOLEAN
    BY DEF FeedInv, FeedIsTyped, FlagIsSound, NoneServed, PageIsAwaited
  <2> QED BY <2>1 DEF AsSeen
<1> QED BY <1>1, FeedBegins, FeedStep, PTL DEF FeedSpec

-----------------------------------------------------------------------------
(* Bursts.                                                                   *)

(* Buttons, registry and elements keep to their tables; ids grow.            *)
TablesAreTyped ==
  /\ fired \in 0..MaxBursts /\ active \subseteq 1..fired
  /\ holder \in [Buttons -> 0..fired] /\ burst \in [Buttons -> 0..fired]
  /\ particles \in [Buttons -> {"none", "fresh", "some", "all", "removed"}]

(* An id is in the registry if and only if a button holds it.                *)
HoldersAreActive == \A n : n \in active <=> n # NoBurst /\ \E b \in Buttons : holder[b] = n

(* No two buttons hold the same id.                                          *)
OneHolder == \A b, c \in Buttons : holder[b] = holder[c] /\ b # c => holder[b] = NoBurst

(* The registry keeps to its limit.                                          *)
CapIsKept == IsFiniteSet(active) /\ Cardinality(active) <= GlobalCap

(* Elements not yet removed belong to the burst their button holds.          *)
FreshHolds == \A b \in Buttons : particles[b] = "fresh" => burst[b] = holder[b] /\ holder[b] \in active

(* The inductive invariant.                                                  *)
BurstsInv == TablesAreTyped /\ HoldersAreActive /\ OneHolder /\ CapIsKept /\ FreshHolds

-----------------------------------------------------------------------------
(* The invariant holds at first.                                             *)
LEMMA BurstsBegin == BurstsInit => BurstsInv
<1> SUFFICES ASSUME BurstsInit PROVE BurstsInv
  OBVIOUS
<1>1. TablesAreTyped
  BY BurstsAssumption DEF BurstsInit, TablesAreTyped, NoBurst
<1>2. HoldersAreActive /\ OneHolder /\ FreshHolds
  BY DEF BurstsInit, HoldersAreActive, OneHolder, FreshHolds
<1>3. CapIsKept
  BY BurstsAssumption, FS_EmptySet DEF BurstsInit, CapIsKept
<1> QED BY <1>1, <1>2, <1>3 DEF BurstsInv

(* A burst begins: it has a new id and a free button. *)
LEMMA BurstFires ==
  ASSUME BurstsInv, NEW b \in Buttons, CanFire(b), Fire(b) PROVE BurstsInv'
<1> DEFINE n == fired + 1
<1>1. /\ fired' = n /\ n \in 1..MaxBursts /\ fired \in Nat /\ active' = active \cup {n}
      /\ holder' = [holder EXCEPT ![b] = n] /\ burst' = [burst EXCEPT ![b] = n]
      /\ holder[b] = 0 /\ Cardinality(active) < GlobalCap
      /\ active \subseteq 1..fired /\ holder \in [Buttons -> 0..fired] /\ burst \in [Buttons -> 0..fired]
      /\ particles \in [Buttons -> {"none", "fresh", "some", "all", "removed"}]
  BY BurstsAssumption DEF BurstsInv, TablesAreTyped, CanFire, Fire, NoBurst
<1>2. n \notin active /\ n # 0 /\ 0..fired \subseteq 0..n /\ n \in 0..n /\ (\A c \in Buttons : holder[c] # n)
      /\ 1..fired \subseteq 1..n /\ n \in 1..n
  BY <1>1
<1>3. particles' = particles \/ particles' = [particles EXCEPT ![b] = "fresh"]
  BY DEF Fire
<1>4. particles[b] # "fresh"
  BY <1>1 DEF BurstsInv, FreshHolds, HoldersAreActive, NoBurst
<1> HIDE DEF n
<1>5. TablesAreTyped'
  BY <1>1, <1>2, <1>3, BurstsAssumption DEF TablesAreTyped
<1>6. HoldersAreActive'
  BY <1>1, <1>2 DEF BurstsInv, HoldersAreActive, NoBurst
<1>7. OneHolder'
  BY <1>1, <1>2 DEF BurstsInv, OneHolder, NoBurst
<1>8. FreshHolds'
  BY <1>1, <1>3, <1>4 DEF BurstsInv, FreshHolds
<1>9. CapIsKept'
  <2>1. IsFiniteSet(active) /\ Cardinality(active) \in Nat
    BY FS_CardinalityType DEF BurstsInv, CapIsKept
  <2>2. IsFiniteSet(active') /\ Cardinality(active') = Cardinality(active) + 1
    BY <1>1, <1>2, <2>1, FS_AddElement
  <2> QED BY <1>1, <2>1, <2>2, BurstsAssumption DEF CapIsKept
<1> QED BY <1>5, <1>6, <1>7, <1>8, <1>9 DEF BurstsInv

(* The number of the last burst is a natural number. *)
LEMMA IdsAreNumbers == TablesAreTyped => fired \in Nat /\ 0 \in 0..fired
<1> SUFFICES ASSUME TablesAreTyped PROVE fired \in Nat /\ 0 \in 0..fired
  OBVIOUS
<1>1. fired \in 0..MaxBursts /\ MaxBursts \in Nat
  BY BurstsAssumption DEF TablesAreTyped
<1>2. fired \in Nat
  BY <1>1
<1> QED BY <1>2

(* The order of three numbers. *)
LEMMA StaysBelow == \A i, j, k \in Nat : i <= j /\ j <= k => i <= k
OBVIOUS

(* A particle ends, and the button may give its slot back. *)
LEMMA SlotIsReleased ==
  ASSUME BurstsInv, NEW b \in Buttons, NEW key, key = b \/ key = "",
         Released(key, burst[b]) \/ UNCHANGED <<active, holder>>,
         NEW v \in {"none", "fresh", "some", "all", "removed"} \ {"fresh"},
         particles' = [particles EXCEPT ![b] = v], UNCHANGED <<fired, burst>>
  PROVE  BurstsInv'
<1>1. /\ fired \in 0..MaxBursts /\ active \subseteq 1..fired /\ holder \in [Buttons -> 0..fired]
      /\ burst \in [Buttons -> 0..fired]
      /\ particles \in [Buttons -> {"none", "fresh", "some", "all", "removed"}]
  BY DEF BurstsInv, TablesAreTyped
<1>0. fired \in Nat /\ 0 \in 0..fired
  BY IdsAreNumbers DEF BurstsInv
<1>2. CASE UNCHANGED <<active, holder>>
  BY <1>1, <1>2 DEF BurstsInv, TablesAreTyped, HoldersAreActive, OneHolder, CapIsKept, FreshHolds
<1>3. CASE holder[b] = burst[b] /\ active' = active \ {burst[b]} /\ holder' = [holder EXCEPT ![b] = NoBurst]
  <2>1. TablesAreTyped'
    <3>1. holder' \in [Buttons -> 0..fired] /\ active' \subseteq 1..fired
      BY <1>0, <1>1, <1>3 DEF NoBurst
    <3>2. particles' \in [Buttons -> {"none", "fresh", "some", "all", "removed"}]
      BY <1>1
    <3> QED BY <1>1, <3>1, <3>2 DEF TablesAreTyped
  <2>2. HoldersAreActive' /\ OneHolder' /\ FreshHolds'
    BY <1>1, <1>3 DEF BurstsInv, HoldersAreActive, OneHolder, FreshHolds, NoBurst
  <2>3. CapIsKept'
    <3>1. IsFiniteSet(active) /\ Cardinality(active) \in Nat /\ Cardinality(active) <= GlobalCap
      BY FS_CardinalityType DEF BurstsInv, CapIsKept
    <3>2. IsFiniteSet(active') /\ Cardinality(active') <= Cardinality(active)
      BY <1>3, <3>1, FS_Subset
    <3>3. Cardinality(active') \in Nat
      BY <3>2, FS_CardinalityType
    <3>4. GlobalCap \in Nat
      BY BurstsAssumption
    <3> DEFINE p == Cardinality(active)
               q == Cardinality(active')
    <3>5. p \in Nat /\ q \in Nat /\ p <= GlobalCap /\ q <= p
      BY <3>1, <3>2, <3>3
    <3> HIDE DEF p, q
    <3>6. q <= GlobalCap
      BY <3>4, <3>5, StaysBelow
    <3> QED BY <3>2, <3>6 DEF CapIsKept, q
  <2> QED BY <2>1, <2>2, <2>3 DEF BurstsInv
<1> QED BY <1>2, <1>3 DEF Released

(* The elements of a button go, or are not those of a burst that begins.     *)
LEMMA ElementsChange ==
  ASSUME BurstsInv, NEW b \in Buttons, UNCHANGED <<fired, active, holder>>,
         \/ UNCHANGED <<burst, particles>>
         \/ /\ particles' = [particles EXCEPT ![b] = "none"] /\ burst' = [burst EXCEPT ![b] = NoBurst]
         \/ burst' = burst /\ particles' = [particles EXCEPT ![b] = "removed"]
  PROVE  BurstsInv'
<1>1. /\ fired \in 0..MaxBursts /\ fired \in Nat /\ burst \in [Buttons -> 0..fired]
      /\ particles \in [Buttons -> {"none", "fresh", "some", "all", "removed"}]
  BY BurstsAssumption DEF BurstsInv, TablesAreTyped
<1>2. TablesAreTyped'
  BY <1>1 DEF BurstsInv, TablesAreTyped, NoBurst
<1>3. HoldersAreActive' /\ OneHolder' /\ CapIsKept'
  BY DEF BurstsInv, HoldersAreActive, OneHolder, CapIsKept
<1>4. FreshHolds'
  BY <1>1 DEF BurstsInv, FreshHolds
<1> QED BY <1>2, <1>3, <1>4 DEF BurstsInv

(* Every step keeps it.                                                      *)
LEMMA BurstsStep == ASSUME BurstsInv, [BurstsNext]_burstVars PROVE BurstsInv'
<1>1. ASSUME NEW b \in Buttons, Turn(b) PROVE BurstsInv'
  <2>1. CASE b \notin lit /\ effects' = "on" /\ CanFire(b)
    BY <1>1, <2>1, BurstFires DEF Turn
  <2>2. CASE ~(b \notin lit /\ effects' = "on" /\ CanFire(b))
    BY <1>1, <2>2, ElementsChange DEF Turn, registry
  <2> QED BY <2>1, <2>2
<1>2. ASSUME NEW b \in Buttons, ContainerRemoved(b) \/ Cooled(b) \/ Unmounted(b) \/ Mounted(b)
      PROVE  BurstsInv'
  BY <1>2, ElementsChange DEF ContainerRemoved, Cooled, Unmounted, Mounted, registry
<1>3. ASSUME NEW b \in Buttons, NEW last \in BOOLEAN, ParticleEnds(b, last) PROVE BurstsInv'
  <2>1. Released(KeyOf(b), burst[b]) \/ UNCHANGED <<active, holder>>
    BY <1>3 DEF ParticleEnds
  <2>2. KeyOf(b) = b \/ KeyOf(b) = ""
    BY DEF KeyOf
  <2> DEFINE v == IF last THEN "all" ELSE "some"
  <2>3. particles' = [particles EXCEPT ![b] = v] /\ UNCHANGED <<fired, burst>>
    BY <1>3 DEF ParticleEnds
  <2>4. v \in {"none", "fresh", "some", "all", "removed"} \ {"fresh"}
    OBVIOUS
  <2> HIDE DEF v
  <2> QED BY <2>1, <2>2, <2>3, <2>4, SlotIsReleased
<1>4. CASE UNCHANGED burstVars
  BY <1>4 DEF burstVars, registry, BurstsInv, TablesAreTyped, HoldersAreActive, OneHolder, CapIsKept, FreshHolds
<1> QED BY <1>1, <1>2, <1>3, <1>4 DEF BurstsNext

(* The registry's tables agree and keep the cap. *)
THEOREM SlotsStayAgreed == BurstsSpec => []SlotsAgree
<1>1. BurstsInv => SlotsAgree
  BY DEF BurstsInv, HoldersAreActive, OneHolder, CapIsKept, FreshHolds, SlotsAgree
<1> QED BY <1>1, BurstsBegin, BurstsStep, PTL DEF BurstsSpec

-----------------------------------------------------------------------------
(* Toasts.                                                                   *)

(* Messages are listed in the order they were shown in; removals fire so.    *)
Ascending(s) == \A i, j \in DOMAIN s : i < j => s[i].id < s[j].id

(* The list, and the removals to come, are in the order of the numbers.      *)
InOrder ==
  /\ Ascending(toasts) /\ \A i \in DOMAIN toasts : toasts[i].id <= showings
  /\ \A i, j \in DOMAIN removals : i < j => removals[i] < removals[j]
  /\ \A i \in DOMAIN removals : removals[i] <= showings

(* A message listed has an interval of its own, or none: an interval that is *)
(* kept under another message's number fills the bar of one that is gone.    *)
BarsApart ==
  /\ \A b \in bars : b.number <= starts /\ b.id <= showings
  /\ \A i \in ToastIds : barOf[i] <= starts /\ (i > showings => barOf[i] = 0)
  /\ \A b \in bars, i \in ToastIds, t \in Visible :
       b.number = barOf[i] => (b.id < i => t.id # i) /\ (i < b.id => t.id # b.id)

(* The parts of ToastsLeave. *)
ShortList == Len(toasts) <= MaxVisible
WillLeave == \A t \in Visible : ~t.persistent => \E i \in DOMAIN removals : removals[i] = t.id
HaveBars ==
  \A t \in Visible : ~t.persistent => calm \/ t.full \/ t.id \in hovered \/ \E b \in bars : b.id = t.id
NoRepetition == \A t, u \in Visible : t.id < u.id /\ t.text = u.text => u.persistent

(* The inductive invariant.                                                  *)
ToastsInv ==
  ToastsTypeOK /\ InOrder /\ BarsApart /\ ShortList /\ WillLeave /\ HaveBars /\ NoRepetition

-----------------------------------------------------------------------------
(* The invariant holds at first.                                             *)
LEMMA ToastsBegin == ToastsInit => ToastsInv
<1> SUFFICES ASSUME ToastsInit PROVE ToastsInv
  OBVIOUS
<1>1. /\ toasts = <<>> /\ removals = <<>> /\ bars = {} /\ showings = 0 /\ starts = 0 /\ hovered = {}
      /\ barOf = [i \in ToastIds |-> 0] /\ calm \in BOOLEAN /\ Visible = {}
      /\ MaxShown \in Nat /\ MaxStarts \in Nat /\ MaxVisible \in Nat
  BY ToastsAssumption DEF ToastsInit, Visible
<1>2. ToastsTypeOK
  BY <1>1 DEF ToastsTypeOK
<1>3. InOrder /\ ShortList
  BY <1>1 DEF InOrder, ShortList, Ascending
<1>4. BarsApart /\ WillLeave /\ HaveBars /\ NoRepetition
  BY <1>1 DEF BarsApart, WillLeave, HaveBars, NoRepetition
<1> QED BY <1>2, <1>3, <1>4 DEF ToastsInv

(* The fields of a message and of a bar. *)
LEMMA ToastFields ==
  ASSUME ToastsTypeOK
  PROVE  /\ \A t \in Visible : /\ t \in Toast /\ t.id \in Nat /\ t.id \in ToastIds
                               /\ t.persistent \in BOOLEAN /\ t.full \in BOOLEAN
         /\ \A b \in bars : b.number \in Nat /\ b.number >= 1 /\ b.id \in Nat /\ b.id \in ToastIds
         /\ \A i \in ToastIds : i \in Nat /\ barOf[i] \in Nat
         /\ showings \in Nat /\ starts \in Nat /\ MaxVisible \in Nat /\ MaxShown \in Nat
         /\ Len(toasts) \in Nat /\ DOMAIN toasts = 1..Len(toasts)
         /\ DOMAIN removals = 1..Len(removals) /\ Len(removals) \in Nat
<1>1. /\ toasts \in Seq(Toast) /\ removals \in Seq(ToastIds)
      /\ bars \subseteq [number : 1..MaxStarts, id : ToastIds]
      /\ barOf \in [ToastIds -> 0..MaxStarts]
      /\ showings \in 0..MaxShown /\ starts \in 0..MaxStarts /\ ToastIds = 1..MaxShown
      /\ MaxVisible \in Nat /\ MaxShown \in Nat /\ MaxStarts \in Nat
  BY ToastsAssumption DEF ToastsTypeOK, ToastIds
<1>2. \A t \in Visible : t \in Toast
  BY <1>1 DEF Visible
<1>3. \A t \in Toast : t.id \in ToastIds /\ t.persistent \in BOOLEAN /\ t.full \in BOOLEAN
  BY DEF Toast
<1>4. \A b \in bars : b.number \in 1..MaxStarts /\ b.id \in ToastIds
  BY <1>1
<1>5. \A i \in ToastIds : i \in Nat /\ barOf[i] \in Nat
  BY <1>1
<1>6. \A n \in 1..MaxStarts : n \in Nat /\ n >= 1
  BY <1>1
<1> QED BY <1>1, <1>2, <1>3, <1>4, <1>5, <1>6

(* A message is taken out of the list. *)
LEMMA WithoutOne ==
  ASSUME ToastsTypeOK, InOrder, NEW id
  PROVE  LET s == Without(id) IN
         /\ s \in Seq(Toast) /\ Len(s) <= Len(toasts) /\ Ascending(s)
         /\ \A i \in DOMAIN s : s[i] \in Visible /\ s[i].id # id
<1> DEFINE at == {i \in DOMAIN toasts : toasts[i].id = id}
           k == CHOOSE i \in at : TRUE
<1>1. /\ toasts \in Seq(Toast) /\ Ascending(toasts)
      /\ \A i \in DOMAIN toasts : toasts[i].id \in Nat
  BY ToastFields DEF InOrder, ToastsTypeOK, Visible
<1>2. CASE at = {}
  <2>1. Without(id) = toasts
    BY <1>2 DEF Without
  <2> QED BY <2>1, <1>1, <1>2, ToastFields DEF Visible
<1>3. CASE at # {}
  <2>1. k \in at
    BY <1>3
  <2>2. k \in DOMAIN toasts /\ toasts[k].id = id
    BY <2>1
  <2>3. Without(id) = RemoveAt(toasts, k)
    BY <1>3 DEF Without
  <2> HIDE DEF k, at
  <2> DEFINE n == Len(toasts)
             s == SubSeq(toasts, 1, k - 1) \o SubSeq(toasts, k + 1, n)
  <2>4. n \in Nat /\ k \in 1..n /\ DOMAIN toasts = 1..n
    BY <2>2, <1>1
  <2>5. Without(id) = s
    BY <2>3 DEF RemoveAt
  <2>6. /\ SubSeq(toasts, 1, k - 1) \in Seq(Toast) /\ Len(SubSeq(toasts, 1, k - 1)) = k - 1
        /\ \A i \in 1..(k - 1) : SubSeq(toasts, 1, k - 1)[i] = toasts[i]
    BY <1>1, <2>4
  <2>7. /\ SubSeq(toasts, k + 1, n) \in Seq(Toast) /\ Len(SubSeq(toasts, k + 1, n)) = n - k
        /\ \A i \in 1..(n - k) : SubSeq(toasts, k + 1, n)[i] = toasts[i + k]
    <3>1. k + 1 \in Int /\ n \in Int /\ \A i \in (k + 1)..n : toasts[i] \in Toast
      BY <1>1, <2>4
    <3> HIDE DEF n
    <3>2. /\ SubSeq(toasts, k + 1, n) \in Seq(Toast)
          /\ Len(SubSeq(toasts, k + 1, n)) = IF k + 1 <= n THEN n - (k + 1) + 1 ELSE 0
          /\ \A i \in 1..(n - (k + 1) + 1) : SubSeq(toasts, k + 1, n)[i] = toasts[k + 1 + i - 1]
      BY <3>1, SubSeqProperties
    <3>3. n - (k + 1) + 1 = n - k /\ (~(k + 1 <= n) => n - k = 0)
      BY <2>4
    <3>4. \A i \in 1..(n - k) : k + 1 + i - 1 = i + k
      BY <2>4
    <3> QED BY <3>2, <3>3, <3>4
  <2>8. /\ s \in Seq(Toast) /\ Len(s) = n - 1
        /\ \A i \in 1..(n - 1) : s[i] = IF i < k THEN toasts[i] ELSE toasts[i + 1]
    <3> DEFINE u == SubSeq(toasts, 1, k - 1)
               v == SubSeq(toasts, k + 1, n)
    <3>1. u \in Seq(Toast) /\ Len(u) = k - 1 /\ \A i \in 1..(k - 1) : u[i] = toasts[i]
      BY <2>6
    <3>2. v \in Seq(Toast) /\ Len(v) = n - k /\ \A i \in 1..(n - k) : v[i] = toasts[i + k]
      BY <2>7
    <3> HIDE DEF u, v, n
    <3>3. /\ u \o v \in Seq(Toast) /\ Len(u \o v) = Len(u) + Len(v)
          /\ \A i \in 1..(Len(u) + Len(v)) : (u \o v)[i] = IF i <= Len(u) THEN u[i] ELSE v[i - Len(u)]
      BY <3>1, <3>2, ConcatProperties
    <3>4. Len(u) + Len(v) = n - 1
      BY <3>1, <3>2, <2>4
    <3>5. ASSUME NEW i \in 1..(n - 1) PROVE (u \o v)[i] = IF i < k THEN toasts[i] ELSE toasts[i + 1]
      <4>1. (u \o v)[i] = IF i <= k - 1 THEN u[i] ELSE v[i - (k - 1)]
        BY <3>1, <3>3, <3>4
      <4>2. i <= k - 1 => i \in 1..(k - 1) /\ i < k
        BY <2>4
      <4>3. ~(i <= k - 1) => i - (k - 1) \in 1..(n - k) /\ i - (k - 1) + k = i + 1 /\ ~(i < k)
        BY <2>4
      <4> QED BY <4>1, <4>2, <4>3, <3>1, <3>2
    <3> QED BY <3>3, <3>4, <3>5 DEF u, v
  <2> HIDE DEF s
  <2>9. DOMAIN s = 1..(n - 1)
    BY <2>8, <2>4
  <2>10. \A i \in DOMAIN s : s[i] \in Visible /\ s[i].id # id
    <3> SUFFICES ASSUME NEW i \in 1..(n - 1) PROVE s[i] \in Visible /\ s[i].id # id
      BY <2>9
    <3>1. PICK j \in 1..n : s[i] = toasts[j] /\ j # k
      BY <2>8, <2>4
    <3>2. toasts[j].id # toasts[k].id
      BY <3>1, <2>4, <1>1 DEF Ascending
    <3> QED BY <3>1, <3>2, <2>2, <2>4 DEF Visible
  <2>11. Ascending(s)
    <3> SUFFICES ASSUME NEW i \in 1..(n - 1), NEW j \in 1..(n - 1), i < j PROVE s[i].id < s[j].id
      BY <2>9 DEF Ascending
    <3>1. PICK ii \in 1..n, jj \in 1..n : s[i] = toasts[ii] /\ s[j] = toasts[jj] /\ ii < jj
      BY <2>8, <2>4
    <3> QED BY <3>1, <2>4, <1>1 DEF Ascending
  <2> QED BY <2>5, <2>8, <2>10, <2>11, <2>4
<1> QED BY <1>2, <1>3

(* The interval of a message that is listed, or of the first to be removed,  *)
(* fills no other bar that is needed.                                        *)
LEMMA BarSurvives ==
  ASSUME ToastsInv, NEW id \in ToastIds, NEW t \in Visible, t.id # id,
         (\E u \in Visible : u.id = id) \/ id < t.id, NEW b \in bars, b.id = t.id
  PROVE  b.number # barOf[id]
<1>1. id \in Nat /\ t.id \in Nat /\ ToastsTypeOK /\ BarsApart
  BY ToastFields DEF ToastsInv
<1>2. CASE id < t.id
  BY <1>1, <1>2 DEF BarsApart
<1>3. CASE ~(id < t.id)
  <2>1. t.id < id
    BY <1>1, <1>3
  <2> QED BY <1>1, <1>3, <2>1 DEF BarsApart
<1> QED BY <1>2, <1>3

(* An interval is cleared. *)
LEMMA BarIsCleared ==
  ASSUME ToastsInv, NEW id \in ToastIds, ClearBar(id), UNCHANGED <<starts, showings>>,
         \A t \in Visible' : \E u \in Visible : u.id = t.id
  PROVE  /\ bars' \subseteq bars /\ bars' = {b \in bars : b.number # barOf[id]}
         /\ barOf' \in [ToastIds -> 0..MaxStarts] /\ BarsApart'
<1>1. /\ bars' = {b \in bars : b.number # barOf[id]} /\ barOf' = [barOf EXCEPT ![id] = 0]
      /\ barOf \in [ToastIds -> 0..MaxStarts] /\ BarsApart /\ ToastsTypeOK /\ MaxStarts \in Nat
  BY ToastsAssumption DEF ClearBar, ToastsInv, ToastsTypeOK
<1>2. bars' \subseteq bars /\ barOf' \in [ToastIds -> 0..MaxStarts]
  BY <1>1
<1>3. \A i \in ToastIds : barOf'[i] = 0 \/ barOf'[i] = barOf[i]
  BY <1>1
<1>4. \A b \in bars' : b \in bars /\ b.number <= starts' /\ b.id <= showings' /\ b.number >= 1 /\ b.number \in Nat
  BY <1>1, <1>2, ToastFields DEF BarsApart
<1>5. \A i \in ToastIds : barOf'[i] <= starts' /\ (i > showings' => barOf'[i] = 0)
  BY <1>1, <1>3, ToastFields DEF BarsApart
<1>6. ASSUME NEW b \in bars', NEW i \in ToastIds, NEW t \in Visible', b.number = barOf'[i]
      PROVE  (b.id < i => t.id # i) /\ (i < b.id => t.id # b.id)
  <2>1. barOf'[i] = barOf[i] /\ b \in bars
    BY <1>3, <1>4, <1>6
  <2>2. PICK u \in Visible : u.id = t.id
    OBVIOUS
  <2>3. b.number = barOf[i]
    BY <2>1, <1>6
  <2>4. (b.id < i => u.id # i) /\ (i < b.id => u.id # b.id)
    BY <1>1, <2>1, <2>3 DEF BarsApart
  <2> QED BY <2>2, <2>4
<1>7. BarsApart'
  BY <1>4, <1>5, <1>6 DEF BarsApart
<1> QED BY <1>1, <1>2, <1>7

(* Bars are started: of the messages they are for at most one is listed.     *)
LEMMA BarsAreStarted ==
  ASSUME ToastsInv, NEW ids \in SUBSET ToastIds, NEW barsLeft \in SUBSET bars, StartBars(barsLeft, ids),
         showings' \in Nat, showings <= showings', \A i \in ids : i <= showings',
         \A t \in Visible' : (\E u \in Visible : u.id = t.id) \/ t.id > showings,
         \A i, j \in ids : i < j => \A t \in Visible' : t.id # j
  PROVE  /\ barsLeft \subseteq bars' /\ (~calm => \A i \in ids : \E b \in bars' : b.id = i)
         /\ bars' \subseteq [number : 1..MaxStarts, id : ToastIds] /\ starts' \in 0..MaxStarts
         /\ barOf' \in [ToastIds -> 0..MaxStarts] /\ BarsApart'
<1>1. /\ barOf \in [ToastIds -> 0..MaxStarts] /\ BarsApart /\ ToastsTypeOK /\ MaxStarts \in Nat
      /\ starts \in 0..MaxStarts /\ bars \subseteq [number : 1..MaxStarts, id : ToastIds]
      /\ ToastIds \subseteq Nat
  BY ToastsAssumption DEF ToastsInv, ToastsTypeOK, ToastIds
<1>2. CASE calm
  <2>1. /\ bars' = barsLeft /\ starts' = starts
        /\ barOf' = [i \in ToastIds |-> IF i \in ids THEN 0 ELSE barOf[i]]
    BY <1>2 DEF StartBars
  <2>2. barOf' \in [ToastIds -> 0..MaxStarts] /\ \A i \in ToastIds : barOf'[i] = 0 \/ barOf'[i] = barOf[i]
    BY <2>1, <1>1
  <2>3. \A b \in bars' : b \in bars /\ b.number <= starts' /\ b.id <= showings' /\ b.number >= 1
    BY <2>1, <1>1, ToastFields DEF BarsApart
  <2>4. \A i \in ToastIds : barOf'[i] <= starts' /\ (i > showings' => barOf'[i] = 0)
    BY <1>1, <2>1, <2>2, ToastFields DEF BarsApart
  <2>5. ASSUME NEW b \in bars', NEW i \in ToastIds, NEW t \in Visible', b.number = barOf'[i]
        PROVE  (b.id < i => t.id # i) /\ (i < b.id => t.id # b.id)
    <3>1. barOf'[i] = barOf[i] /\ b \in bars /\ barOf[i] # 0
      BY <2>2, <2>3, <2>5
    <3>2. i <= showings /\ b.id <= showings
      BY <3>1, <1>1, ToastFields DEF BarsApart
    <3>3. b.number = barOf[i]
      BY <3>1, <2>5
    <3>4. CASE \E u \in Visible : u.id = t.id
      BY <3>1, <3>3, <3>4, <1>1 DEF BarsApart
    <3>5. CASE t.id > showings
      BY <3>2, <3>5, <3>1, <1>1, ToastFields
    <3> QED BY <3>4, <3>5
  <2>6. BarsApart'
    BY <2>3, <2>4, <2>5 DEF BarsApart
  <2> QED BY <1>1, <1>2, <2>1, <2>2, <2>6
<1>3. CASE ~calm
  <2> DEFINE n == starts + 1
             new == {[number |-> n, id |-> i] : i \in ids}
  <2>1. /\ starts < MaxStarts /\ starts' = n /\ bars' = barsLeft \cup new
        /\ barOf' = [i \in ToastIds |-> IF i \in ids THEN n ELSE barOf[i]]
    BY <1>3 DEF StartBars
  <2>2. n \in 1..MaxStarts /\ n > starts /\ n \in Nat /\ starts \in Nat
    BY <2>1, <1>1
  <2>3. \A b \in new : b.number = n /\ b.id \in ids /\ b \in [number : 1..MaxStarts, id : ToastIds]
    BY <2>2
  <2>4. ASSUME NEW i \in ids PROVE \E b \in new : b.id = i
    <3>1. [number |-> n, id |-> i] \in new /\ [number |-> n, id |-> i].id = i
      OBVIOUS
    <3> QED BY <3>1
  <2> HIDE DEF n, new
  <2>5. /\ \A i \in ids : barOf'[i] = n
        /\ \A i \in ToastIds : i \notin ids => barOf'[i] = barOf[i]
        /\ barOf' \in [ToastIds -> 0..MaxStarts]
    BY <2>1, <2>2, <1>1
  <2>6. \A b \in barsLeft : b \in bars /\ b.number <= starts /\ b.id <= showings /\ b.number >= 1 /\ b.number \in Nat
                        /\ b.id \in Nat
    BY <1>1, ToastFields DEF BarsApart
  <2>7. ASSUME NEW b \in bars' PROVE b.number <= starts' /\ b.id <= showings'
    <3>1. CASE b \in barsLeft
      BY <3>1, <2>1, <2>2, <2>6, ToastFields, <1>1
    <3>2. CASE b \in new
      BY <3>2, <2>1, <2>2, <2>3
    <3> QED BY <3>1, <3>2, <2>1
  <2>8. ASSUME NEW i \in ToastIds PROVE barOf'[i] <= starts' /\ (i > showings' => barOf'[i] = 0)
    <3>1. CASE i \in ids
      BY <3>1, <2>5, <2>1, <2>2, <1>1
    <3>2. CASE i \notin ids
      BY <3>2, <2>5, <2>1, <2>2, <1>1, ToastFields DEF BarsApart
    <3> QED BY <3>1, <3>2
  <2>9. ASSUME NEW b \in bars', NEW i \in ToastIds, NEW t \in Visible', b.number = barOf'[i]
        PROVE  (b.id < i => t.id # i) /\ (i < b.id => t.id # b.id)
    <3>1. CASE b \in new
      <4>1. b.number = n /\ b.id \in ids
        BY <3>1, <2>3
      <4>2. i \in ids
        <5>1. barOf[i] <= starts /\ barOf[i] \in Nat
          BY <1>1, ToastFields DEF BarsApart
        <5> QED BY <5>1, <4>1, <2>9, <2>5, <2>2
      <4> QED BY <4>1, <4>2
    <3>2. CASE b \in barsLeft
      <4>1. i \notin ids
        BY <3>2, <2>6, <2>5, <2>9, <2>2
      <4>2. b.number = barOf[i] /\ b \in bars /\ barOf[i] # 0
        BY <4>1, <3>2, <2>6, <2>5, <2>9
      <4>3. i <= showings /\ b.id <= showings /\ b.id \in Nat /\ i \in Nat
        BY <4>2, <3>2, <2>6, <1>1, ToastFields DEF BarsApart
      <4>4. CASE \E u \in Visible : u.id = t.id
        BY <4>2, <4>4, <1>1 DEF BarsApart
      <4>5. CASE t.id > showings
        BY <4>3, <4>5, <1>1, ToastFields
      <4> QED BY <4>4, <4>5
    <3> QED BY <3>1, <3>2, <2>1
  <2>10. BarsApart'
    BY <2>7, <2>8, <2>9 DEF BarsApart
  <2>11. bars' \subseteq [number : 1..MaxStarts, id : ToastIds]
    BY <2>1, <2>3, <1>1
  <2> QED BY <2>1, <2>2, <2>4, <2>5, <2>10, <2>11
<1> QED BY <1>2, <1>3

(* Messages of the list are changed, but not what tells them apart.          *)
LEMMA ListIsChanged ==
  ASSUME ToastsInv, showings' \in Nat, showings <= showings', Len(toasts') = Len(toasts),
         toasts' \in Seq(Toast),
         \A i \in DOMAIN toasts : /\ toasts'[i].id = toasts[i].id /\ toasts'[i].text = toasts[i].text
                                  /\ toasts'[i].persistent = toasts[i].persistent
  PROVE  /\ Ascending(toasts)' /\ (\A i \in DOMAIN toasts : toasts[i].id <= showings)'
         /\ ShortList' /\ NoRepetition'
         /\ \A t \in Visible' : \E u \in Visible : u.id = t.id /\ u.persistent = t.persistent
<1>1. /\ DOMAIN toasts = 1..Len(toasts) /\ DOMAIN toasts' = 1..Len(toasts) /\ Len(toasts) \in Nat
      /\ Ascending(toasts) /\ ShortList /\ NoRepetition /\ ToastsTypeOK
      /\ \A i \in DOMAIN toasts : toasts[i].id <= showings
  BY ToastFields DEF ToastsInv, InOrder
<1>2. \A i \in DOMAIN toasts : toasts[i] \in Visible
  BY DEF Visible
<1>3. \A i \in DOMAIN toasts : toasts[i].id \in Nat
  BY <1>1, <1>2, ToastFields
<1>4. \A t \in Visible' : \E i \in DOMAIN toasts :
        t.id = toasts[i].id /\ t.text = toasts[i].text /\ t.persistent = toasts[i].persistent
  BY <1>1 DEF Visible
<1>5. Ascending(toasts)'
  BY <1>1 DEF Ascending
<1>6. (\A i \in DOMAIN toasts : toasts[i].id <= showings)'
  BY <1>1, <1>3, ToastFields
<1>7. ShortList'
  BY <1>1 DEF ShortList
<1>8. NoRepetition'
  BY <1>1, <1>2, <1>4 DEF NoRepetition
<1> QED BY <1>2, <1>4, <1>5, <1>6, <1>7, <1>8

(* A message is removed: by hand, or because it is the first to be.          *)
LEMMA OneIsRemoved ==
  ASSUME ToastsInv, NEW id \in ToastIds, ClearBar(id), toasts' = Without(id),
         UNCHANGED <<hovered, calm, showings, starts>>,
         (\E u \in Visible : u.id = id) \/ \A t \in Visible : ~t.persistent => id <= t.id
  PROVE  /\ toasts' \in Seq(Toast) /\ BarsApart' /\ ShortList' /\ HaveBars' /\ NoRepetition'
         /\ bars' \subseteq bars /\ barOf' \in [ToastIds -> 0..MaxStarts]
         /\ Ascending(toasts)' /\ (\A i \in DOMAIN toasts : toasts[i].id <= showings)'
         /\ \A t \in Visible' : t \in Visible /\ t.id # id
<1>1. /\ ToastsTypeOK /\ InOrder /\ ShortList /\ HaveBars /\ NoRepetition
      /\ \A i \in DOMAIN toasts : toasts[i].id <= showings
  BY DEF ToastsInv, InOrder
<1>2. /\ toasts' \in Seq(Toast) /\ Len(toasts') <= Len(toasts) /\ Ascending(toasts)'
      /\ \A i \in DOMAIN toasts' : toasts'[i] \in Visible /\ toasts'[i].id # id
  BY <1>1, WithoutOne DEF Ascending
<1>3. \A t \in Visible' : t \in Visible /\ t.id # id
  BY <1>2 DEF Visible
<1>4. /\ bars' \subseteq bars /\ bars' = {b \in bars : b.number # barOf[id]}
      /\ barOf' \in [ToastIds -> 0..MaxStarts] /\ BarsApart'
  BY <1>3, BarIsCleared
<1>5. ShortList'
  BY <1>1, <1>2, ToastFields DEF ShortList
<1>6. NoRepetition'
  BY <1>1, <1>3 DEF NoRepetition
<1>7. (\A i \in DOMAIN toasts : toasts[i].id <= showings)'
  <2>1. \A t \in Visible : t.id <= showings
    BY <1>1 DEF Visible
  <2> QED BY <1>2, <2>1
<1>8. ASSUME NEW t \in Visible', ~t.persistent, ~(calm \/ t.full \/ t.id \in hovered)
      PROVE  \E b \in bars' : b.id = t.id
  <2>1. t \in Visible /\ t.id # id /\ t.id \in Nat /\ id \in Nat
    BY <1>1, <1>3, ToastFields
  <2>2. PICK b \in bars : b.id = t.id
    BY <1>1, <1>8, <2>1 DEF HaveBars
  <2>3. (\E u \in Visible : u.id = id) \/ id < t.id
    BY <1>8, <2>1
  <2>4. b.number # barOf[id]
    BY <2>1, <2>2, <2>3, BarSurvives
  <2> QED BY <1>4, <2>2, <2>4
<1>9. HaveBars'
  BY <1>8 DEF HaveBars
<1> QED BY <1>2, <1>3, <1>4, <1>5, <1>6, <1>7, <1>9

(* A message is closed by hand.                                              *)
LEMMA ToastIsRemoved == ASSUME ToastsInv, NEW id \in ToastIds, RemoveToast(id) PROVE ToastsInv'
<1>1. /\ \E t \in Visible : t.id = id
      /\ ClearBar(id) /\ toasts' = Without(id)
      /\ UNCHANGED <<removals, hovered, calm, showings, starts>>
  BY DEF RemoveToast
<1>2. /\ toasts' \in Seq(Toast) /\ BarsApart' /\ ShortList' /\ HaveBars' /\ NoRepetition'
      /\ bars' \subseteq bars /\ barOf' \in [ToastIds -> 0..MaxStarts]
      /\ Ascending(toasts)' /\ (\A i \in DOMAIN toasts : toasts[i].id <= showings)'
      /\ \A t \in Visible' : t \in Visible /\ t.id # id
  BY <1>1, OneIsRemoved
<1>3. ToastsTypeOK'
  BY <1>1, <1>2 DEF ToastsInv, ToastsTypeOK
<1>4. InOrder' /\ WillLeave'
  BY <1>1, <1>2 DEF ToastsInv, InOrder, WillLeave
<1> QED BY <1>2, <1>3, <1>4 DEF ToastsInv

(* The first removal that is due fires.                                      *)
LEMMA ToastIsDue == ASSUME ToastsInv, RemovalDue PROVE ToastsInv'
<1> DEFINE id == Head(removals)
<1>1. /\ removals # <<>> /\ removals' = Tail(removals)
      /\ ClearBar(id) /\ toasts' = Without(id)
      /\ UNCHANGED <<hovered, calm, showings, starts>>
  BY DEF RemovalDue
<1>2. /\ removals \in Seq(ToastIds) /\ WillLeave /\ InOrder /\ ToastsTypeOK
  BY DEF ToastsInv, ToastsTypeOK
<1>3. /\ id = removals[1] /\ id \in ToastIds /\ Len(removals) \in Nat /\ Len(removals) >= 1
      /\ removals' \in Seq(ToastIds) /\ Len(removals') = Len(removals) - 1
      /\ \A i \in 1..Len(removals') : removals'[i] = removals[i + 1]
      /\ DOMAIN removals = 1..Len(removals) /\ DOMAIN removals' = 1..Len(removals')
  BY <1>1, <1>2
<1>4. \A i \in DOMAIN removals : removals[i] \in Nat /\ id <= removals[i]
  <2>1. \A i \in DOMAIN removals : removals[i] \in Nat
    BY <1>2, ToastFields
  <2> QED BY <1>2, <1>3, <2>1 DEF InOrder
<1>5. \A t \in Visible : ~t.persistent => id <= t.id
  BY <1>2, <1>4 DEF WillLeave
<1>6. /\ toasts' \in Seq(Toast) /\ BarsApart' /\ ShortList' /\ HaveBars' /\ NoRepetition'
      /\ bars' \subseteq bars /\ barOf' \in [ToastIds -> 0..MaxStarts]
      /\ Ascending(toasts)' /\ (\A i \in DOMAIN toasts : toasts[i].id <= showings)'
      /\ \A t \in Visible' : t \in Visible /\ t.id # id
  BY <1>1, <1>3, <1>5, OneIsRemoved
<1>7. ToastsTypeOK'
  BY <1>1, <1>3, <1>6 DEF ToastsInv, ToastsTypeOK
<1>8. \A i \in DOMAIN removals' : i + 1 \in DOMAIN removals /\ removals'[i] = removals[i + 1]
  BY <1>3
<1>9. /\ \A i, j \in DOMAIN removals' : i < j => removals'[i] < removals'[j]
      /\ \A i \in DOMAIN removals' : removals'[i] <= showings'
  BY <1>1, <1>2, <1>3, <1>8 DEF InOrder
<1>10. InOrder'
  BY <1>6, <1>9 DEF InOrder
<1>11. ASSUME NEW t \in Visible', ~t.persistent PROVE \E i \in DOMAIN removals' : removals'[i] = t.id
  <2>1. PICK j \in DOMAIN removals : removals[j] = t.id /\ j # 1
    BY <1>2, <1>3, <1>6, <1>11 DEF WillLeave
  <2>2. j - 1 \in DOMAIN removals' /\ (j - 1) + 1 = j
    BY <1>3, <2>1
  <2> QED BY <1>8, <2>1, <2>2
<1>12. WillLeave'
  BY <1>11 DEF WillLeave
<1> QED BY <1>6, <1>7, <1>10, <1>12 DEF ToastsInv

(* All messages are closed.                                                  *)
LEMMA AllAreDismissed == ASSUME ToastsInv, DismissAll PROVE ToastsInv'
<1>1. /\ toasts' = <<>> /\ bars' \subseteq bars /\ barOf' = [i \in ToastIds |-> 0] /\ MaxVisible \in Nat
      /\ UNCHANGED <<removals, hovered, calm, showings, starts>> /\ ToastsTypeOK /\ MaxStarts \in Nat
  BY ToastsAssumption DEF DismissAll, ToastsInv
<1>2. Visible' = {} /\ DOMAIN toasts' = {} /\ Len(toasts') = 0
  BY <1>1 DEF Visible
<1>3. ToastsTypeOK'
  BY <1>1 DEF ToastsTypeOK
<1>4. InOrder'
  BY <1>1, <1>2 DEF ToastsInv, InOrder, Ascending
<1>5. BarsApart'
  <2>1. \A i \in ToastIds : barOf'[i] = 0
    BY <1>1
  <2>2. \A b \in bars' : b.number <= starts' /\ b.id <= showings'
    BY <1>1 DEF ToastsInv, BarsApart
  <2> QED BY <1>1, <1>2, <2>1, <2>2, ToastFields DEF BarsApart
<1>6. ShortList' /\ WillLeave' /\ HaveBars' /\ NoRepetition'
  BY <1>1, <1>2 DEF ShortList, WillLeave, HaveBars, NoRepetition
<1> QED BY <1>3, <1>4, <1>5, <1>6 DEF ToastsInv

(* A bar is full, and its message with it.                                   *)
LEMMA BarIsFull == ASSUME ToastsInv, NEW b \in bars, BarFull(b) PROVE ToastsInv'
<1>1. /\ bars' = bars \ {b} /\ barOf' = [barOf EXCEPT ![b.id] = 0]
      /\ toasts' = [i \in DOMAIN toasts |-> IF toasts[i].id = b.id THEN [toasts[i] EXCEPT !.full = TRUE]
                                            ELSE toasts[i]]
      /\ UNCHANGED <<removals, hovered, calm, showings, starts>>
  BY DEF BarFull, Changed
<1>2. /\ ToastsTypeOK /\ InOrder /\ BarsApart /\ WillLeave /\ HaveBars /\ MaxStarts \in Nat
      /\ barOf \in [ToastIds -> 0..MaxStarts] /\ toasts \in Seq(Toast)
      /\ DOMAIN toasts = 1..Len(toasts) /\ Len(toasts) \in Nat /\ b.id \in ToastIds
  BY ToastFields, ToastsAssumption DEF ToastsInv, ToastsTypeOK
<1>3. \A t \in Toast : [t EXCEPT !.full = TRUE] \in Toast
                       /\ [t EXCEPT !.full = TRUE].full = TRUE /\ [t EXCEPT !.full = TRUE].id = t.id
                       /\ [t EXCEPT !.full = TRUE].text = t.text
                       /\ [t EXCEPT !.full = TRUE].persistent = t.persistent
  BY DEF Toast
<1>4. \A i \in DOMAIN toasts : toasts[i] \in Toast
  BY <1>2
<1>5. \A i \in DOMAIN toasts : /\ toasts'[i] \in Toast /\ toasts'[i].id = toasts[i].id
                               /\ toasts'[i].text = toasts[i].text
                               /\ toasts'[i].persistent = toasts[i].persistent
                               /\ (toasts[i].id = b.id => toasts'[i].full = TRUE)
                               /\ (toasts[i].id # b.id => toasts'[i] = toasts[i])
  BY <1>1, <1>3, <1>4
<1>6. toasts' \in Seq(Toast) /\ Len(toasts') = Len(toasts) /\ DOMAIN toasts' = DOMAIN toasts
  BY <1>1, <1>2, <1>5
<1>7. /\ Ascending(toasts)' /\ (\A i \in DOMAIN toasts : toasts[i].id <= showings)'
      /\ ShortList' /\ NoRepetition'
      /\ \A t \in Visible' : \E u \in Visible : u.id = t.id /\ u.persistent = t.persistent
  BY <1>1, <1>5, <1>6, ListIsChanged, ToastFields, <1>2
<1>8. barOf' \in [ToastIds -> 0..MaxStarts] /\ \A i \in ToastIds : barOf'[i] = 0 \/ barOf'[i] = barOf[i]
  BY <1>1, <1>2
<1>9. ToastsTypeOK'
  BY <1>1, <1>2, <1>6, <1>8 DEF ToastsTypeOK
<1>10. InOrder'
  BY <1>1, <1>2, <1>7 DEF InOrder
<1>11. WillLeave'
  BY <1>1, <1>2, <1>7 DEF WillLeave
<1>12. BarsApart'
  <2>1. ASSUME NEW c \in bars', NEW i \in ToastIds, NEW t \in Visible', c.number = barOf'[i]
        PROVE  (c.id < i => t.id # i) /\ (i < c.id => t.id # c.id)
    <3>1. c \in bars /\ c.number = barOf[i]
      BY <1>1, <1>2, <1>8, <2>1, ToastFields
    <3>2. PICK u \in Visible : u.id = t.id
      BY <1>7
    <3>3. (c.id < i => u.id # i) /\ (i < c.id => u.id # c.id)
      BY <1>2, <3>1 DEF BarsApart
    <3> QED BY <3>2, <3>3
  <2>2. \A c \in bars' : c.number <= starts' /\ c.id <= showings'
    BY <1>1, <1>2 DEF BarsApart
  <2>3. \A i \in ToastIds : barOf'[i] <= starts' /\ (i > showings' => barOf'[i] = 0)
    BY <1>1, <1>2, <1>8, ToastFields DEF BarsApart
  <2> QED BY <2>1, <2>2, <2>3 DEF BarsApart
<1>13. HaveBars'
  <2>1. ASSUME NEW t \in Visible', ~t.persistent, ~(calm \/ t.full \/ t.id \in hovered)
        PROVE  \E c \in bars' : c.id = t.id
    <3>1. PICK i \in DOMAIN toasts : t = toasts'[i]
      BY <1>6 DEF Visible
    <3>2. t = toasts[i] /\ t.id # b.id /\ t \in Visible
      BY <1>5, <2>1, <3>1 DEF Visible
    <3>3. PICK c \in bars : c.id = t.id
      BY <1>2, <2>1, <3>2 DEF HaveBars
    <3> QED BY <1>1, <3>2, <3>3
  <2> QED BY <1>1, <2>1 DEF HaveBars
<1> QED BY <1>7, <1>9, <1>10, <1>11, <1>12, <1>13 DEF ToastsInv

(* The pointer stops a bar.                                                  *)
LEMMA PointerEnters == ASSUME ToastsInv, NEW t \in Visible, HoverEnter(t) PROVE ToastsInv'
<1>1. /\ hovered' = hovered \cup {t.id} /\ ClearBar(t.id)
      /\ UNCHANGED <<toasts, removals, calm, showings, starts>>
  BY DEF HoverEnter
<1>2. /\ ToastsTypeOK /\ InOrder /\ BarsApart /\ ShortList /\ WillLeave /\ HaveBars /\ NoRepetition
      /\ t.id \in ToastIds /\ Visible' = Visible
  BY <1>1, ToastFields DEF ToastsInv, Visible
<1>3. /\ bars' \subseteq bars /\ bars' = {b \in bars : b.number # barOf[t.id]}
      /\ barOf' \in [ToastIds -> 0..MaxStarts] /\ BarsApart'
  BY <1>1, <1>2, BarIsCleared
<1>4. ToastsTypeOK'
  BY <1>1, <1>2, <1>3 DEF ToastsTypeOK
<1>5. InOrder' /\ ShortList' /\ WillLeave' /\ NoRepetition'
  BY <1>1, <1>2 DEF InOrder, Ascending, ShortList, WillLeave, NoRepetition
<1>6. ASSUME NEW u \in Visible', ~u.persistent, ~(calm \/ u.full \/ u.id \in hovered')
      PROVE  \E b \in bars' : b.id = u.id
  <2>1. u \in Visible /\ u.id # t.id /\ u.id \notin hovered
    BY <1>1, <1>2, <1>6
  <2>2. PICK b \in bars : b.id = u.id
    BY <1>2, <1>6, <2>1 DEF HaveBars
  <2>3. b.number # barOf[t.id]
    BY <1>2, <2>1, <2>2, BarSurvives
  <2> QED BY <1>3, <2>2, <2>3
<1>7. HaveBars'
  BY <1>1, <1>6 DEF HaveBars
<1> QED BY <1>3, <1>4, <1>5, <1>7 DEF ToastsInv

(* The pointer starts it again.                                              *)
LEMMA PointerLeaves == ASSUME ToastsInv, NEW t \in Visible, HoverLeave(t) PROVE ToastsInv'
<1>1. /\ hovered' = hovered \ {t.id} /\ StartBars(bars, {t.id})
      /\ toasts' = [i \in DOMAIN toasts |-> IF toasts[i].id = t.id THEN [toasts[i] EXCEPT !.full = FALSE]
                                            ELSE toasts[i]]
      /\ UNCHANGED <<removals, calm, showings>>
  BY DEF HoverLeave, Changed
<1>2. /\ ToastsTypeOK /\ InOrder /\ BarsApart /\ WillLeave /\ HaveBars /\ MaxStarts \in Nat
      /\ toasts \in Seq(Toast) /\ t.id \in ToastIds /\ t.id \in Nat /\ showings \in Nat
      /\ DOMAIN toasts = 1..Len(toasts) /\ Len(toasts) \in Nat
  BY ToastFields, ToastsAssumption DEF ToastsInv, ToastsTypeOK
<1>3. \A u \in Toast : [u EXCEPT !.full = FALSE] \in Toast
                       /\ [u EXCEPT !.full = FALSE].id = u.id
                       /\ [u EXCEPT !.full = FALSE].text = u.text
                       /\ [u EXCEPT !.full = FALSE].persistent = u.persistent
  BY DEF Toast
<1>4. \A i \in DOMAIN toasts : toasts[i] \in Toast
  BY <1>2
<1>5. \A i \in DOMAIN toasts : /\ toasts'[i] \in Toast /\ toasts'[i].id = toasts[i].id
                               /\ toasts'[i].text = toasts[i].text
                               /\ toasts'[i].persistent = toasts[i].persistent
                               /\ (toasts[i].id = t.id \/ toasts'[i] = toasts[i])
  BY <1>1, <1>3, <1>4
<1>6. toasts' \in Seq(Toast) /\ Len(toasts') = Len(toasts) /\ DOMAIN toasts' = DOMAIN toasts
  BY <1>1, <1>2, <1>5
<1>7. /\ Ascending(toasts)' /\ (\A i \in DOMAIN toasts : toasts[i].id <= showings)'
      /\ ShortList' /\ NoRepetition'
      /\ \A u \in Visible' : \E v \in Visible : v.id = u.id /\ v.persistent = u.persistent
  BY <1>1, <1>5, <1>6, ListIsChanged, ToastFields, <1>2
<1>8. t.id <= showings'
  BY <1>1, <1>2 DEF InOrder, Visible
<1>9. /\ bars \subseteq bars' /\ (~calm => \A i \in {t.id} : \E b \in bars' : b.id = i)
      /\ bars' \subseteq [number : 1..MaxStarts, id : ToastIds] /\ starts' \in 0..MaxStarts
      /\ barOf' \in [ToastIds -> 0..MaxStarts] /\ BarsApart'
  <2>1. \A i, j \in {t.id} : i < j => \A u \in Visible' : u.id # j
    BY <1>2
  <2>2. showings' \in Nat /\ showings <= showings' /\ \A i \in {t.id} : i <= showings'
    BY <1>1, <1>2, <1>8
  <2>3. \A u \in Visible' : (\E v \in Visible : v.id = u.id) \/ u.id > showings
    BY <1>7
  <2>4. {t.id} \in SUBSET ToastIds /\ bars \in SUBSET bars
    BY <1>2
  <2> QED BY <1>1, <2>1, <2>2, <2>3, <2>4, BarsAreStarted
<1>10. ToastsTypeOK'
  BY <1>1, <1>2, <1>6, <1>9 DEF ToastsTypeOK
<1>11. InOrder'
  BY <1>1, <1>2, <1>7 DEF InOrder
<1>12. WillLeave'
  BY <1>1, <1>2, <1>7 DEF WillLeave
<1>13. HaveBars'
  <2>1. ASSUME NEW u \in Visible', ~u.persistent, ~(calm \/ u.full \/ u.id \in hovered')
        PROVE  \E c \in bars' : c.id = u.id
    <3>1. PICK i \in DOMAIN toasts : u = toasts'[i]
      BY <1>6 DEF Visible
    <3>2. CASE u.id = t.id
      BY <1>9, <2>1, <3>2
    <3>3. CASE u.id # t.id
      <4>1. u = toasts[i] /\ u \in Visible /\ u.id \notin hovered
        BY <1>1, <1>5, <2>1, <3>1, <3>3 DEF Visible
      <4>2. PICK c \in bars : c.id = u.id
        BY <1>2, <2>1, <4>1 DEF HaveBars
      <4> QED BY <1>9, <4>2
    <3> QED BY <3>2, <3>3
  <2> QED BY <1>1, <2>1 DEF HaveBars
<1> QED BY <1>7, <1>9, <1>10, <1>11, <1>12, <1>13 DEF ToastsInv

(* A message is added, the oldest one leaves the list if it is too long.     *)
LEMMA ListGrows ==
  ASSUME ToastsInv, NEW new \in Toast, new.id = showings + 1, showings' = showings + 1,
         new.persistent \/ \A u \in Visible : u.text # new.text,
         toasts' = IF Len(Append(toasts, new)) > MaxVisible THEN Tail(Append(toasts, new))
                   ELSE Append(toasts, new)
  PROVE  /\ toasts' \in Seq(Toast) /\ ShortList' /\ NoRepetition'
         /\ Ascending(toasts)' /\ (\A i \in DOMAIN toasts : toasts[i].id <= showings)'
         /\ \A t \in Visible' : t = new \/ t \in Visible
<1> DEFINE n == Len(toasts)
           all == Append(toasts, new)
<1>1. /\ toasts \in Seq(Toast) /\ Ascending(toasts) /\ showings \in Nat /\ n \in Nat /\ MaxVisible \in Nat
      /\ MaxVisible >= 1 /\ n <= MaxVisible /\ NoRepetition /\ DOMAIN toasts = 1..n
      /\ \A i \in 1..n : toasts[i].id <= showings /\ toasts[i].id \in Nat /\ toasts[i] \in Visible
  BY ToastFields, ToastsAssumption DEF ToastsInv, InOrder, ToastsTypeOK, ShortList, Visible
<1>2. /\ all \in Seq(Toast) /\ Len(all) = n + 1 /\ all[n + 1] = new
      /\ \A i \in 1..n : all[i] = toasts[i]
  BY <1>1
<1> HIDE DEF all
<1>3. \A i \in 1..(n + 1) : /\ all[i] = new \/ all[i] \in Visible
                            /\ all[i].id <= showings + 1 /\ all[i].id \in Nat
  <2> SUFFICES ASSUME NEW i \in 1..(n + 1)
               PROVE  /\ all[i] = new \/ all[i] \in Visible
                      /\ all[i].id <= showings + 1 /\ all[i].id \in Nat
    OBVIOUS
  <2>1. CASE i = n + 1
    BY <1>1, <1>2, <2>1
  <2>2. CASE i \in 1..n
    BY <1>1, <1>2, <2>2
  <2> QED BY <2>1, <2>2, <1>1
<1>4. \A i, j \in 1..(n + 1) : i < j => all[i].id < all[j].id
  <2> SUFFICES ASSUME NEW i \in 1..(n + 1), NEW j \in 1..(n + 1), i < j PROVE all[i].id < all[j].id
    OBVIOUS
  <2>1. i \in 1..n /\ all[i] = toasts[i]
    BY <1>1, <1>2
  <2>2. CASE j = n + 1
    <3>1. toasts[i].id <= showings /\ toasts[i].id \in Nat
      BY <1>1, <2>1
    <3> QED BY <1>1, <1>2, <2>1, <2>2, <3>1
  <2>3. CASE j \in 1..n
    BY <1>1, <1>2, <2>1, <2>3 DEF Ascending
  <2> QED BY <2>2, <2>3, <1>1
<1>5. PICK d \in {0, 1} :
        /\ toasts' \in Seq(Toast) /\ Len(toasts') = n + 1 - d /\ Len(toasts') <= MaxVisible
        /\ \A i \in 1..(n + 1 - d) : toasts'[i] = all[i + d]
  <2>1. CASE Len(all) > MaxVisible
    <3>0. toasts' = Tail(all)
      BY <2>1 DEF all
    <3>1. toasts' = Tail(all) /\ all # <<>>
      BY <3>0, <1>1, <1>2
    <3>2. /\ Tail(all) \in Seq(Toast) /\ Len(Tail(all)) = n
          /\ \A i \in 1..n : Tail(all)[i] = all[i + 1]
      BY <1>1, <1>2, <3>1
    <3>3. n + 1 - 1 = n
      BY <1>1
    <3> QED BY <3>1, <3>2, <3>3, <1>1
  <2>2. CASE ~(Len(all) > MaxVisible)
    <3>1. toasts' = all
      BY <2>2 DEF all
    <3>2. n + 1 - 0 = n + 1 /\ \A i \in 1..(n + 1) : i + 0 = i
      BY <1>1
    <3> QED BY <3>1, <3>2, <2>2, <1>1, <1>2
  <2> QED BY <2>1, <2>2
<1> DEFINE m == n + 1 - d
<1>6. /\ m \in Nat /\ DOMAIN toasts' = 1..m
      /\ \A i \in 1..m : i + d \in 1..(n + 1) /\ toasts'[i] = all[i + d]
  BY <1>1, <1>5
<1> HIDE DEF n, m
<1>7. \A t \in Visible' : t = new \/ t \in Visible
  BY <1>3, <1>6 DEF Visible
<1>8. (\A i \in DOMAIN toasts : toasts[i].id <= showings)'
  BY <1>3, <1>6
<1>9. Ascending(toasts)'
  <2> SUFFICES ASSUME NEW i \in 1..m, NEW j \in 1..m, i < j PROVE toasts'[i].id < toasts'[j].id
    BY <1>6 DEF Ascending
  <2>1. i + d < j + d
    BY <1>6
  <2> QED BY <1>4, <1>6, <2>1
<1>10. NoRepetition'
  <2> SUFFICES ASSUME NEW t \in Visible', NEW u \in Visible', t.id < u.id, t.text = u.text
               PROVE  u.persistent
    BY DEF NoRepetition
  <2>1. CASE u = new
    <3>1. t \in Visible
      BY <1>1, <1>7, <2>1
    <3> QED BY <2>1, <3>1
  <2>2. CASE u \in Visible /\ t \in Visible
    BY <1>1, <2>2 DEF NoRepetition
  <2>3. CASE u \in Visible /\ t = new
    <3>1. u.id \in Nat /\ u.id <= showings
      BY <2>3, <1>1 DEF Visible
    <3> QED BY <1>1, <2>3, <3>1
  <2> QED BY <1>7, <2>1, <2>2, <2>3
<1>11. ShortList'
  BY <1>5, ToastsAssumption DEF ShortList
<1> QED BY <1>5, <1>7, <1>8, <1>9, <1>10, <1>11

(* A set of numbers has a smallest member. *)
LEMMA FirstExists ==
  ASSUME NEW S \in SUBSET Nat, S # {}
  PROVE  \E n \in S : \A o \in S : n <= o
<1>1. IsWellFoundedOn(OpToRel(<, Nat), Nat)
  BY NatLessThanWellFounded
<1>2. PICK n \in S : \A o \in S : <<o, n>> \notin OpToRel(<, Nat)
  BY <1>1, WFMin
<1>3. \A o \in S : ~(o < n)
  BY <1>2 DEF OpToRel
<1> QED BY <1>3

(* The one message that a new one repeats. *)
LEMMA RepeatedIsOne ==
  ASSUME ToastsInv, NEW text, NEW p \in BOOLEAN
  PROVE  /\ p => Repeated(text, p) = {}
         /\ ~p /\ Repeated(text, p) = {} => \A u \in Visible : u.text # text
         /\ Repeated(text, p) # {} => \E k \in DOMAIN toasts : Repeated(text, p) = {k}
<1>1. DOMAIN toasts = 1..Len(toasts) /\ Len(toasts) \in Nat
  BY ToastFields DEF ToastsInv
<1>2. SameText(text) \in SUBSET Nat /\ SameText(text) \subseteq DOMAIN toasts
  BY <1>1 DEF SameText
<1>3. p => Repeated(text, p) = {}
  BY DEF Repeated
<1>4. ASSUME ~p, Repeated(text, p) = {}, NEW u \in Visible, u.text = text PROVE FALSE
  <2>1. SameText(text) # {}
    BY <1>4 DEF SameText, Visible
  <2>2. PICK n \in SameText(text) : \A o \in SameText(text) : n <= o
    BY <1>2, <2>1, FirstExists
  <2> QED BY <1>4, <2>2 DEF Repeated
<1>5. ASSUME Repeated(text, p) # {} PROVE \E k \in DOMAIN toasts : Repeated(text, p) = {k}
  <2>1. PICK k \in Repeated(text, p) : TRUE
    BY <1>5
  <2>2. k \in SameText(text) /\ \A j \in SameText(text) : k <= j
    BY <2>1 DEF Repeated
  <2>3. \A j \in Repeated(text, p) : j \in SameText(text) /\ j <= k
    BY <2>2 DEF Repeated
  <2>4. \A j \in Repeated(text, p) : j = k
    BY <1>2, <2>2, <2>3
  <2> QED BY <1>2, <2>1, <2>2, <2>4
<1> QED BY <1>3, <1>4, <1>5

(* A message is added: one that stays, or one with a bar and a removal.      *)
LEMMA NewIsShown ==
  ASSUME ToastsInv, NEW text \in Messages, NEW p \in BOOLEAN, ShowToast(text, p),
         Repeated(text, p) = {}
  PROVE  ToastsInv'
<1> DEFINE new == [id |-> showings + 1, text |-> text, persistent |-> p, full |-> FALSE,
                   last |-> showings + 1]
<1>1. /\ showings < MaxShown /\ showings' = showings + 1 /\ UNCHANGED <<hovered, calm>>
      /\ toasts' = IF Len(Append(toasts, new)) > MaxVisible THEN Tail(Append(toasts, new))
                   ELSE Append(toasts, new)
      /\ p => UNCHANGED <<bars, barOf, starts, removals>>
      /\ ~p => /\ StartBars({b \in bars : \A i \in {} : b.number # barOf[i]}, {} \cup {showings'})
               /\ removals' = Append(removals, showings')
  <2>1. {toasts[i].id : i \in Repeated(text, p)} = {}
    OBVIOUS
  <2> QED BY <2>1 DEF ShowToast
<1>2. /\ ToastsTypeOK /\ InOrder /\ BarsApart /\ WillLeave /\ HaveBars /\ MaxStarts \in Nat
      /\ toasts \in Seq(Toast) /\ showings \in Nat /\ MaxShown \in Nat /\ showings + 1 \in ToastIds
      /\ removals \in Seq(ToastIds)
  <2>1. showings \in Nat /\ MaxShown \in Nat
    BY ToastFields DEF ToastsInv
  <2>2. showings + 1 \in ToastIds
    BY <1>1, <2>1 DEF ToastIds
  <2> QED BY <2>1, <2>2, ToastsAssumption DEF ToastsInv, ToastsTypeOK
<1>3. /\ new \in Toast /\ new.id = showings + 1 /\ new.text = text /\ new.persistent = p
  BY <1>2 DEF Toast
<1>4. new.persistent \/ \A u \in Visible : u.text # new.text
  BY <1>3, RepeatedIsOne
<1> HIDE DEF new
<1>5. /\ toasts' \in Seq(Toast) /\ ShortList' /\ NoRepetition'
      /\ Ascending(toasts)' /\ (\A i \in DOMAIN toasts : toasts[i].id <= showings)'
      /\ \A t \in Visible' : t = new \/ t \in Visible
  BY <1>1, <1>3, <1>4, ListGrows
<1>6. \A t \in Visible' : (\E u \in Visible : u.id = t.id) \/ t.id > showings
  BY <1>2, <1>3, <1>5
<1>7. CASE p
  <2>1. ToastsTypeOK'
    BY <1>1, <1>2, <1>5, <1>7 DEF ToastsTypeOK, ToastIds
  <2>2. InOrder'
    <3>1. \A i \in DOMAIN removals : removals[i] \in Nat
      BY <1>2, ToastFields
    <3> QED BY <1>1, <1>2, <1>5, <1>7, <3>1 DEF InOrder
  <2>3. WillLeave' /\ HaveBars'
    BY <1>1, <1>2, <1>3, <1>5, <1>7 DEF WillLeave, HaveBars
  <2>4. ASSUME NEW b \in bars', NEW i \in ToastIds, NEW t \in Visible', b.number = barOf'[i]
        PROVE  (b.id < i => t.id # i) /\ (i < b.id => t.id # b.id)
    <3>1. b \in bars /\ b.number = barOf[i] /\ b.number >= 1 /\ b.id \in Nat /\ i \in Nat
      BY <1>1, <1>2, <1>7, <2>4, ToastFields
    <3>2. b.id <= showings /\ i <= showings
      BY <1>2, <3>1 DEF BarsApart
    <3>3. CASE \E u \in Visible : u.id = t.id
      BY <1>2, <3>1, <3>3 DEF BarsApart
    <3>4. CASE t.id > showings
      BY <1>2, <3>1, <3>2, <3>4
    <3> QED BY <1>6, <3>3, <3>4
  <2>5. \A b \in bars' : b.number <= starts' /\ b.id <= showings'
    BY <1>1, <1>2, <1>7, ToastFields DEF BarsApart
  <2>6. \A i \in ToastIds : barOf'[i] <= starts' /\ (i > showings' => barOf'[i] = 0)
    BY <1>1, <1>2, <1>7, ToastFields DEF BarsApart
  <2>7. BarsApart'
    BY <2>4, <2>5, <2>6 DEF BarsApart
  <2> QED BY <1>5, <2>1, <2>2, <2>3, <2>7 DEF ToastsInv
<1>8. CASE ~p
  <2>1. StartBars(bars, {showings'}) /\ removals' = Append(removals, showings')
    <3>1. {b \in bars : \A i \in {} : b.number # barOf[i]} = bars /\ {} \cup {showings'} = {showings'}
      OBVIOUS
    <3> QED BY <1>1, <1>8, <3>1
  <2>2. /\ bars \subseteq bars' /\ (~calm => \A i \in {showings'} : \E b \in bars' : b.id = i)
        /\ bars' \subseteq [number : 1..MaxStarts, id : ToastIds] /\ starts' \in 0..MaxStarts
        /\ barOf' \in [ToastIds -> 0..MaxStarts] /\ BarsApart'
    <3>1. /\ {showings'} \in SUBSET ToastIds /\ bars \in SUBSET bars
          /\ showings' \in Nat /\ showings <= showings' /\ \A i \in {showings'} : i <= showings'
          /\ \A i, j \in {showings'} : i < j => \A t \in Visible' : t.id # j
      BY <1>1, <1>2
    <3> QED BY <1>6, <2>1, <3>1, BarsAreStarted
  <2>3. ToastsTypeOK'
    <3>1. showings' \in 0..MaxShown /\ showings' \in ToastIds
      BY <1>1, <1>2
    <3>2. removals' \in Seq(ToastIds)
      BY <1>2, <2>1, <3>1
    <3>3. hovered' \subseteq ToastIds /\ calm' \in BOOLEAN
      BY <1>1, <1>2 DEF ToastsTypeOK
    <3> QED BY <1>5, <2>2, <3>1, <3>2, <3>3 DEF ToastsTypeOK
  <2>4. /\ Len(removals) \in Nat /\ DOMAIN removals = 1..Len(removals)
        /\ DOMAIN removals' = 1..(Len(removals) + 1)
        /\ removals'[Len(removals) + 1] = showings + 1
        /\ \A i \in DOMAIN removals : removals'[i] = removals[i] /\ removals[i] \in Nat
    <3>1. Len(removals) \in Nat /\ DOMAIN removals = 1..Len(removals)
      BY <1>2
    <3>2. \A i \in DOMAIN removals : removals[i] \in ToastIds /\ removals[i] \in Nat
      BY <1>2, <3>1, ToastFields
    <3>3. /\ removals' \in Seq(ToastIds) /\ Len(removals') = Len(removals) + 1
          /\ removals'[Len(removals) + 1] = showings'
          /\ \A i \in 1..Len(removals) : removals'[i] = removals[i]
      BY <1>1, <1>2, <2>1
    <3>4. DOMAIN removals' = 1..Len(removals')
      BY <3>3
    <3> QED BY <1>1, <3>1, <3>2, <3>3, <3>4
  <2>5. /\ \A i, j \in DOMAIN removals' : i < j => removals'[i] < removals'[j]
        /\ \A i \in DOMAIN removals' : removals'[i] <= showings'
    <3>1. ASSUME NEW i \in DOMAIN removals' PROVE removals'[i] <= showings'
      <4>1. CASE i \in DOMAIN removals
        BY <1>1, <1>2, <2>4, <4>1 DEF InOrder
      <4>2. CASE i = Len(removals) + 1
        BY <1>1, <1>2, <2>4, <4>2
      <4> QED BY <2>4, <4>1, <4>2
    <3>2. ASSUME NEW i \in DOMAIN removals', NEW j \in DOMAIN removals', i < j
          PROVE  removals'[i] < removals'[j]
      <4>1. i \in DOMAIN removals
        BY <2>4, <3>2
      <4>2. CASE j \in DOMAIN removals
        BY <1>2, <2>4, <3>2, <4>1, <4>2 DEF InOrder
      <4>3. CASE j = Len(removals) + 1
        <5>1. removals[i] <= showings
          BY <1>2, <4>1 DEF InOrder
        <5> QED BY <1>2, <2>4, <4>1, <4>3, <5>1
      <4> QED BY <2>4, <4>2, <4>3
    <3> QED BY <3>1, <3>2
  <2>6. InOrder'
    BY <1>5, <2>5 DEF InOrder
  <2>7. ASSUME NEW t \in Visible', ~t.persistent PROVE \E i \in DOMAIN removals' : removals'[i] = t.id
    <3>1. CASE t = new
      BY <1>3, <2>4, <3>1
    <3>2. CASE t \in Visible
      BY <1>2, <2>4, <2>7, <3>2 DEF WillLeave
    <3> QED BY <1>5, <3>1, <3>2
  <2>8. ASSUME NEW t \in Visible', ~t.persistent, ~(calm \/ t.full \/ t.id \in hovered)
        PROVE  \E b \in bars' : b.id = t.id
    <3>1. CASE t = new
      BY <1>1, <1>3, <2>2, <2>8, <3>1
    <3>2. CASE t \in Visible
      BY <1>2, <2>2, <2>8, <3>2 DEF HaveBars
    <3> QED BY <1>5, <3>1, <3>2
  <2>9. WillLeave' /\ HaveBars'
    BY <1>1, <2>7, <2>8 DEF WillLeave, HaveBars
  <2> QED BY <1>5, <2>2, <2>3, <2>6, <2>9 DEF ToastsInv
<1> QED BY <1>7, <1>8

(* A message is shown again: its bar starts anew, beside one for nothing.    *)
LEMMA AgainIsShown ==
  ASSUME ToastsInv, NEW text \in Messages, NEW p \in BOOLEAN, ShowToast(text, p),
         Repeated(text, p) # {}
  PROVE  ToastsInv'
<1>1. PICK k \in DOMAIN toasts : Repeated(text, p) = {k}
  BY RepeatedIsOne
<1> DEFINE id == toasts[k].id
           Again(t) == [t EXCEPT !.full = FALSE, !.last = showings']
           barsLeft == {b \in bars : \A i \in {id} : b.number # barOf[i]}
<1>2. ~p
  BY <1>1, RepeatedIsOne
<1>a. {toasts[i].id : i \in Repeated(text, p)} = {id}
  BY <1>1
<1>3. /\ showings < MaxShown /\ showings' = showings + 1 /\ UNCHANGED <<hovered, calm>>
      /\ StartBars(barsLeft, {id, showings'}) /\ removals' = Append(removals, showings')
  <2>2. {id} \cup {showings'} = {id, showings'}
    OBVIOUS
  <2> QED BY <1>a, <1>2, <2>2, Zenon DEF ShowToast
<1>b. toasts' = [i \in DOMAIN toasts |-> IF i \in {k} THEN Again(toasts[i]) ELSE toasts[i]]
  BY <1>1, Zenon DEF ShowToast
<1> HIDE DEF Again
<1>4. /\ ToastsTypeOK /\ InOrder /\ BarsApart /\ WillLeave /\ HaveBars /\ MaxStarts \in Nat
      /\ toasts \in Seq(Toast) /\ showings \in Nat /\ MaxShown \in Nat
      /\ removals \in Seq(ToastIds)
      /\ DOMAIN toasts = 1..Len(toasts) /\ Len(toasts) \in Nat
  BY ToastFields, ToastsAssumption DEF ToastsInv, ToastsTypeOK
<1>5. showings + 1 \in ToastIds
  BY <1>3, <1>4 DEF ToastIds
<1>6. \A i \in DOMAIN toasts : toasts[i] \in Toast /\ toasts[i] \in Visible
  BY <1>4 DEF Visible
<1>7. id \in ToastIds /\ id \in Nat /\ id <= showings
  BY <1>4, <1>6, ToastFields DEF InOrder
<1>8. ASSUME NEW t \in Toast
      PROVE  Again(t) \in Toast /\ Again(t).id = t.id /\ Again(t).text = t.text
             /\ Again(t).persistent = t.persistent
  <2>1. showings' \in ToastIds
    BY <1>3, <1>5
  <2> QED BY <2>1 DEF Toast, Again
<1>9. \A i \in DOMAIN toasts : /\ toasts'[i] \in Toast /\ toasts'[i].id = toasts[i].id
                               /\ toasts'[i].text = toasts[i].text
                               /\ toasts'[i].persistent = toasts[i].persistent
                               /\ (i = k \/ toasts'[i] = toasts[i])
  BY <1>b, <1>6, <1>8
<1>10. toasts' \in Seq(Toast) /\ Len(toasts') = Len(toasts) /\ DOMAIN toasts' = DOMAIN toasts
  BY <1>b, <1>4, <1>9
<1>11. /\ Ascending(toasts)' /\ (\A i \in DOMAIN toasts : toasts[i].id <= showings)'
       /\ ShortList' /\ NoRepetition'
       /\ \A t \in Visible' : \E u \in Visible : u.id = t.id /\ u.persistent = t.persistent
  BY <1>3, <1>4, <1>9, <1>10, ListIsChanged
<1>12. \A t \in Visible' : t.id <= showings
  BY <1>11, <1>4 DEF InOrder, Visible
<1>13. /\ barsLeft \subseteq bars' /\ (~calm => \A i \in {id, showings'} : \E b \in bars' : b.id = i)
       /\ bars' \subseteq [number : 1..MaxStarts, id : ToastIds] /\ starts' \in 0..MaxStarts
       /\ barOf' \in [ToastIds -> 0..MaxStarts] /\ BarsApart'
  <2>1. ASSUME NEW i \in {id, showings'}, NEW j \in {id, showings'}, i < j, NEW t \in Visible', t.id = j
        PROVE  FALSE
    <3>1. j = showings' /\ i = id
      BY <1>3, <1>4, <1>7, <2>1
    <3> QED BY <1>3, <1>4, <1>12, <2>1, <3>1
  <2>2. /\ {id, showings'} \in SUBSET ToastIds /\ barsLeft \in SUBSET bars
        /\ showings' \in Nat /\ showings <= showings' /\ \A i \in {id, showings'} : i <= showings'
    BY <1>3, <1>4, <1>5, <1>7
  <2>3. \A t \in Visible' : (\E u \in Visible : u.id = t.id) \/ t.id > showings
    BY <1>11
  <2>4. \A i, j \in {id, showings'} : i < j => \A t \in Visible' : t.id # j
    BY <2>1
  <2> QED BY <1>3, <2>2, <2>3, <2>4, BarsAreStarted
<1>14. ToastsTypeOK'
  BY <1>3, <1>4, <1>5, <1>10, <1>13 DEF ToastsTypeOK, ToastIds
<1>15. /\ Len(removals) \in Nat /\ DOMAIN removals = 1..Len(removals)
       /\ DOMAIN removals' = 1..(Len(removals) + 1)
       /\ removals'[Len(removals) + 1] = showings + 1
       /\ \A i \in DOMAIN removals : removals'[i] = removals[i] /\ removals[i] \in Nat
  <2>1. Len(removals) \in Nat /\ DOMAIN removals = 1..Len(removals)
    BY <1>4
  <2>2. \A i \in DOMAIN removals : removals[i] \in ToastIds /\ removals[i] \in Nat
    BY <1>4, <2>1, ToastFields
  <2>3. /\ removals' \in Seq(ToastIds) /\ Len(removals') = Len(removals) + 1
        /\ removals'[Len(removals) + 1] = showings'
        /\ \A i \in 1..Len(removals) : removals'[i] = removals[i]
    BY <1>3, <1>4, <1>5
  <2>4. DOMAIN removals' = 1..Len(removals')
    BY <2>3
  <2> QED BY <1>3, <2>1, <2>2, <2>3, <2>4
<1>16. /\ \A i, j \in DOMAIN removals' : i < j => removals'[i] < removals'[j]
       /\ \A i \in DOMAIN removals' : removals'[i] <= showings'
  <2>1. ASSUME NEW i \in DOMAIN removals' PROVE removals'[i] <= showings'
    <3>1. CASE i \in DOMAIN removals
      BY <1>3, <1>4, <1>15, <3>1 DEF InOrder
    <3>2. CASE i = Len(removals) + 1
      BY <1>3, <1>4, <1>15, <3>2
    <3> QED BY <1>15, <3>1, <3>2
  <2>2. ASSUME NEW i \in DOMAIN removals', NEW j \in DOMAIN removals', i < j
        PROVE  removals'[i] < removals'[j]
    <3>1. i \in DOMAIN removals
      BY <1>15, <2>2
    <3>2. CASE j \in DOMAIN removals
      BY <1>4, <1>15, <2>2, <3>1, <3>2 DEF InOrder
    <3>3. CASE j = Len(removals) + 1
      <4>1. removals[i] <= showings
        BY <1>4, <3>1 DEF InOrder
      <4> QED BY <1>4, <1>15, <3>1, <3>3, <4>1
    <3> QED BY <1>15, <3>2, <3>3
  <2> QED BY <2>1, <2>2
<1>17. InOrder'
  BY <1>11, <1>16 DEF InOrder
<1>18. WillLeave'
  <2>1. ASSUME NEW t \in Visible', ~t.persistent PROVE \E i \in DOMAIN removals' : removals'[i] = t.id
    <3>1. PICK u \in Visible : u.id = t.id /\ u.persistent = t.persistent
      BY <1>11
    <3> QED BY <1>4, <1>15, <2>1, <3>1 DEF WillLeave
  <2> QED BY <2>1 DEF WillLeave
<1>19. HaveBars'
  <2>1. ASSUME NEW t \in Visible', ~t.persistent, ~(calm \/ t.full \/ t.id \in hovered)
        PROVE  \E b \in bars' : b.id = t.id
    <3>1. PICK i \in DOMAIN toasts : t = toasts'[i]
      BY <1>10 DEF Visible
    <3>2. CASE t.id = id
      BY <1>13, <2>1, <3>2
    <3>3. CASE t.id # id
      <4>1. t = toasts[i] /\ t \in Visible
        BY <1>6, <1>9, <3>1, <3>3
      <4>2. PICK b \in bars : b.id = t.id
        BY <1>4, <2>1, <4>1 DEF HaveBars
      <4>3. \E u \in Visible : u.id = id
        BY <1>6
      <4>4. b.number # barOf[id]
        BY <1>7, <3>3, <4>1, <4>2, <4>3, BarSurvives
      <4> QED BY <1>13, <4>2, <4>4
    <3> QED BY <3>2, <3>3
  <2> QED BY <1>3, <2>1 DEF HaveBars
<1> QED BY <1>11, <1>13, <1>14, <1>17, <1>18, <1>19 DEF ToastsInv

(* Every step keeps the invariant. *)
LEMMA ToastsStep == ASSUME ToastsInv, [ToastsNext]_toastVars PROVE ToastsInv'
<1>1. ASSUME NEW text \in Messages, NEW p \in BOOLEAN, ShowToast(text, p) PROVE ToastsInv'
  BY <1>1, NewIsShown, AgainIsShown
<1>2. ASSUME NEW id \in ToastIds, RemoveToast(id) PROVE ToastsInv'
  BY <1>2, ToastIsRemoved
<1>3. ASSUME NEW t \in Visible, HoverEnter(t) \/ HoverLeave(t) PROVE ToastsInv'
  BY <1>3, PointerEnters, PointerLeaves
<1>4. ASSUME NEW b \in bars, BarFull(b) PROVE ToastsInv'
  BY <1>4, BarIsFull
<1>5. CASE UNCHANGED toastVars
  <2>1. UNCHANGED <<toasts, bars, barOf, removals, hovered, calm, showings, starts>>
    BY <1>5 DEF toastVars
  <2> QED BY <2>1 DEF ToastsInv, ToastsTypeOK, InOrder, Ascending, BarsApart, ShortList, WillLeave,
               HaveBars, NoRepetition, Visible
<1> QED BY <1>1, <1>2, <1>3, <1>4, <1>5, ToastIsDue, AllAreDismissed DEF ToastsNext

(* Never more than MAX_VISIBLE messages are shown; each that is not to stay  *)
(* will be removed and has a bar, through repetitions, dismissals and a      *)
(* pointer that comes and goes: for any numbers of messages (Toast.tsx).     *)
THEOREM ToastsWillLeave == ToastsSpec => []ToastsLeave
<1>1. ToastsInv => ToastsLeave
  <2> SUFFICES ASSUME ToastsInv PROVE ToastsLeave
    OBVIOUS
  <2>1. \A t \in Visible : ~t.persistent => t.id \in ToSet(removals)
    BY DEF ToastsInv, WillLeave, ToSet
  <2>2. ASSUME NEW i \in DOMAIN toasts, NEW j \in DOMAIN toasts, i < j, toasts[i].text = toasts[j].text
        PROVE  toasts[j].persistent
    <3>1. toasts[i].id < toasts[j].id /\ toasts[i] \in Visible /\ toasts[j] \in Visible
      BY <2>2 DEF ToastsInv, InOrder, Ascending, Visible
    <3> QED BY <2>2, <3>1 DEF ToastsInv, NoRepetition
  <2> QED BY <2>1, <2>2 DEF ToastsInv, ToastsLeave, ShortList, HaveBars
<1> QED BY <1>1, ToastsBegin, ToastsStep, PTL DEF ToastsSpec

=============================================================================
