------------------------------ MODULE Sessions ------------------------------
(***************************************************************************)
(* Who is signed in in a browser: the client lib/api.ts with its pair of   *)
(* tokens and its cached answers, and the pages that log in and out.       *)
(*                                                                         *)
(* The tabs of a browser share localStorage; each has a sessionStorage and *)
(* a refresh promise of its own.  A call that meets a 401 waits for the    *)
(* tab's refresh and is sent again; when that fails the session is         *)
(* dropped.  A page may be unloaded at any time, and its calls with it.    *)
(* Token t stands for the pair issued with row t of refresh_tokens.  The   *)
(* steps of the server are those of Accounts, each request in one step.    *)
(***************************************************************************)
EXTENDS Naturals, FiniteSets

CONSTANTS
  Users, Tabs, Calls,
  NoUser, NoTab, Nobody, LoggedOut,   \* model values
  MaxTokens                           \* bound: pairs issued

ASSUME SessionsAssumption ==
  /\ MaxTokens \in Nat
  /\ NoUser \notin Users
  /\ NoTab \notin Tabs
  /\ Nobody \notin Tabs /\ LoggedOut \notin Tabs /\ Nobody # LoggedOut

Tokens == 1..MaxTokens
NoToken == 0

VARIABLES
  row,         \* refresh_tokens
  aged,        \* tokens whose access token has expired
  store,       \* the pair in localStorage
  local,       \* whose answers the cache in localStorage holds
  session,     \* whose answers the sessionStorage of a tab holds
  call,        \* apiFetch calls of the tabs
  refreshing,  \* tabs whose refreshPromise is pending
  refreshes,   \* the requests of these promises
  mixed,       \* history: an answer of one user arrived in the session of another
  outside      \* history: tabs that were open when another tab changed the user

server  == <<row, aged>>
caches  == <<local, session>>
network == <<call, refreshing, refreshes>>
sessionVars == <<row, aged, store, local, session, call, refreshing, refreshes, mixed, outside>>

Row == [user : Users \cup {NoUser}, state : {"none", "live", "revoked", "expired"},
        by : Tabs \cup {NoTab, Nobody, LoggedOut}]   \* history: who got its successor
NoRow == [user |-> NoUser, state |-> "none", by |-> Nobody]
Refresh == [tab : Tabs, token : Tokens, st : {"sent", "answered", "refused"},
            got : 0..MaxTokens]
Call == [tab : Tabs \cup {NoTab}, st : {"idle", "sent", "wait", "again"},
         token : 0..MaxTokens]
Idle == [tab |-> NoTab, st |-> "idle", token |-> NoToken]

Owner(t) == IF t \in Tokens THEN row[t].user ELSE NoUser
SignedIn == Owner(store)

-----------------------------------------------------------------------------
(* AuthService *)

FreshRow == {t \in Tokens : row[t].state = "none"
                          /\ \A o \in Tokens : row[o].state = "none" => t <= o}
NewRow(user) == [user |-> user, state |-> "live", by |-> Nobody]

(* refresh: a live row is revoked and replaced. *)
RefreshAccepted(r) ==
  /\ r.st = "sent" /\ row[r.token].state = "live"
  /\ \E t \in FreshRow :
       /\ row' = [row EXCEPT ![r.token].state = "revoked", ![r.token].by = r.tab,
                             ![t] = NewRow(row[r.token].user)]
       /\ refreshes' = (refreshes \ {r}) \cup {[r EXCEPT !.st = "answered", !.got = t]}
  /\ UNCHANGED <<aged, store, caches, call, refreshing, mixed, outside>>

RefreshRejected(r) ==
  /\ r.st = "sent" /\ row[r.token].state # "live"
  /\ refreshes' = (refreshes \ {r}) \cup {[r EXCEPT !.st = "refused"]}
  /\ UNCHANGED <<server, store, caches, call, refreshing, mixed, outside>>

(* Time: the constructor demands REFRESH_TOKEN_TTL >= ACCESS_TOKEN_TTL, so   *)
(* the access token expires first.  It matters while somebody uses it.       *)
AccessExpires(t) ==
  /\ t = store \/ \E c \in Calls : call[c].token = t
  /\ t \notin aged
  /\ aged' = aged \cup {t}
  /\ UNCHANGED <<row, store, caches, network, mixed, outside>>

RowExpires(t) ==
  /\ row[t].state = "live" /\ t \in aged /\ t = store
  /\ row' = [row EXCEPT ![t].state = "expired"]
  /\ UNCHANGED <<aged, store, caches, network, mixed, outside>>

-----------------------------------------------------------------------------
(* api.ts: the session of the browser *)

(* clearUserSession: tokens and caches go, in this tab and in localStorage.  *)
ClearUserSession(tab) ==
  /\ store' = NoToken
  /\ local' = NoUser
  /\ session' = [session EXCEPT ![tab] = NoUser]
  /\ outside' = outside \ {tab}

(* A mutant: the caches stay when another user signs in. *)
SetSessionTokensOnly(tab, t, user) ==
  /\ store' = t
  /\ outside' = outside \cup {o \in Tabs \ {tab} : session[o] \notin {NoUser, user}}
  /\ UNCHANGED <<local, session>>

(* setSessionTokens: a pair of another subject, or after none, empties the   *)
(* caches of this tab and of localStorage.  Other tabs keep theirs.          *)
SetSessionTokens(tab, t, user) ==
  /\ store' = t
  /\ IF user = SignedIn
     THEN UNCHANGED <<local, session, outside>>
     ELSE /\ local' = NoUser
          /\ session' = [session EXCEPT ![tab] = NoUser]
          /\ outside' = (outside \ {tab})
               \cup {o \in Tabs \ {tab} : session[o] \notin {NoUser, user}}

(* login on the server and on the login page.  Nobody else knows the token   *)
(* before the page stores it, so both are one step.                          *)
Login(tab, user) ==
  /\ \E t \in FreshRow : row' = [row EXCEPT ![t] = NewRow(user)]
                      /\ SetSessionTokens(tab, t, user)
  /\ UNCHANGED <<aged, network, mixed>>

(* logoutSession: the request is sent with keepalive and not awaited; it     *)
(* revokes a row that is still valid, or gets lost.                          *)
Logout(tab) ==
  /\ store # NoToken
  /\ \/ UNCHANGED row
     \/ /\ row[store].state = "live"
        /\ row' = [row EXCEPT ![store].state = "revoked", ![store].by = LoggedOut]
  /\ ClearUserSession(tab)
  /\ UNCHANGED <<aged, network, mixed>>

-----------------------------------------------------------------------------
(* apiFetch, cachedApiFetch *)

Send(tab, c) ==
  /\ store # NoToken
  /\ call[c].st = "idle"
  /\ call' = [call EXCEPT ![c] = [tab |-> tab, st |-> "sent", token |-> store]]
  /\ UNCHANGED <<server, store, caches, refreshing, refreshes, mixed, outside>>

(* The answer is written to both caches, whoever is signed in by now. *)
Answer(c) ==
  LET user == Owner(call[c].token) IN
  /\ call[c].st \in {"sent", "again"}
  /\ call[c].token \in Tokens \ aged
  /\ local' = user
  /\ session' = [session EXCEPT ![call[c].tab] = user]
  /\ mixed' = (mixed \/ user # SignedIn)
  /\ call' = [call EXCEPT ![c] = Idle]
  /\ UNCHANGED <<server, store, refreshing, refreshes, outside>>

(* The first attempt times out or fails with another status than 401. *)
Fail(c) ==
  /\ call[c].st = "sent"
  /\ call' = [call EXCEPT ![c] = Idle]
  /\ UNCHANGED <<server, store, caches, refreshing, refreshes, mixed, outside>>

Await(c) == call' = [call EXCEPT ![c].st = "wait", ![c].token = NoToken]
SendRefresh(tab) ==
  /\ refreshing' = refreshing \cup {tab}
  /\ refreshes' = refreshes \cup {[tab |-> tab, token |-> store, st |-> "sent",
                                   got |-> NoToken]}

(* 401 without a refresh token: the session is dropped. *)
UnauthorizedAlone(c) ==
  /\ call[c].st = "sent" /\ call[c].token \in aged
  /\ store = NoToken
  /\ call' = [call EXCEPT ![c] = Idle]
  /\ ClearUserSession(call[c].tab)
  /\ UNCHANGED <<server, refreshing, refreshes, mixed>>

(* A mutant: every call that meets a 401 starts a refresh of its own. *)
UnauthorizedEach(c) ==
  /\ call[c].st = "sent" /\ call[c].token \in aged
  /\ store # NoToken
  /\ Await(c)
  /\ SendRefresh(call[c].tab)
  /\ UNCHANGED <<server, store, caches, mixed, outside>>

(* 401: the call waits for the tab's refresh, which it starts unless one is  *)
(* under way.                                                                *)
Unauthorized(c) ==
  /\ call[c].st = "sent" /\ call[c].token \in aged
  /\ store # NoToken
  /\ Await(c)
  /\ IF call[c].tab \in refreshing
     THEN UNCHANGED <<refreshing, refreshes>>
     ELSE SendRefresh(call[c].tab)
  /\ UNCHANGED <<server, store, caches, mixed, outside>>

(* The calls that waited for the refresh of the tab go on, or give up. *)
Release(tab, next) ==
  /\ refreshing' = refreshing \ {tab}
  /\ call' = [c \in Calls |-> IF call[c].tab = tab /\ call[c].st = "wait"
                              THEN next ELSE call[c]]

(* refreshSession writes the new pair and looks at no cache. *)
RefreshDone(r) ==
  /\ r.st = "answered"
  /\ store' = r.got
  /\ mixed' = (mixed \/ SignedIn # Owner(r.got))
  /\ Release(r.tab, [tab |-> r.tab, st |-> "again", token |-> r.got])
  /\ refreshes' = refreshes \ {r}
  /\ UNCHANGED <<server, caches, outside>>

(* A mutant: the calls that wait are not told that the refresh failed. *)
RefreshRefusedSilently(r) ==
  /\ r.st = "refused"
  /\ refreshing' = refreshing \ {r.tab}
  /\ ClearUserSession(r.tab)
  /\ refreshes' = refreshes \ {r}
  /\ UNCHANGED <<server, call, mixed>>

RefreshRefused(r) ==
  /\ r.st = "refused"
  /\ Release(r.tab, Idle)
  /\ ClearUserSession(r.tab)
  /\ refreshes' = refreshes \ {r}
  /\ UNCHANGED <<server, mixed>>

(* The tab no longer waits for its refresh.  One that was sent may still     *)
(* reach the server, which revokes the row and replaces it for nobody.       *)
Abandon(tab) ==
  LET mine == {r \in refreshes : r.tab = tab}
      sent == {r.token : r \in mine}
  IN
  /\ refreshes' = refreshes \ mine
  /\ \E arrived \in SUBSET {t \in sent : row[t].state = "live"} :
       row' = [t \in Tokens |->
                IF t \in arrived THEN [row[t] EXCEPT !.state = "revoked", !.by = NoTab]
                ELSE IF t \in sent /\ row[t].by = tab THEN [row[t] EXCEPT !.by = NoTab]
                ELSE row[t]]

(* The 12 seconds of requestApi are over, or the answer is an error. *)
RefreshFails(tab) ==
  /\ tab \in refreshing
  /\ Abandon(tab)
  /\ Release(tab, Idle)
  /\ ClearUserSession(tab)
  /\ UNCHANGED <<aged, mixed>>

(* The second attempt fails, in whatever way: expireSession. *)
FailAgain(c) ==
  /\ call[c].st = "again"
  /\ call' = [call EXCEPT ![c] = Idle]
  /\ ClearUserSession(call[c].tab)
  /\ UNCHANGED <<server, refreshing, refreshes, mixed>>

(* The page is left (location.replace after clearUserSession) or reloaded.   *)
Unload(tab) ==
  /\ Abandon(tab)
  /\ call' = [c \in Calls |-> IF call[c].tab = tab THEN Idle ELSE call[c]]
  /\ refreshing' = refreshing \ {tab}
  /\ UNCHANGED <<aged, store, caches, mixed, outside>>

-----------------------------------------------------------------------------
SessionsInit ==
  /\ row = [t \in Tokens |-> NoRow]
  /\ aged = {}
  /\ store = NoToken
  /\ local = NoUser
  /\ session = [tab \in Tabs |-> NoUser]
  /\ call = [c \in Calls |-> Idle]
  /\ refreshing = {} /\ refreshes = {}
  /\ mixed = FALSE /\ outside = {}

SessionsNext ==
  \/ \E t \in Tokens : AccessExpires(t) \/ RowExpires(t)
  \/ \E r \in refreshes : \/ RefreshAccepted(r) \/ RefreshRejected(r)
                          \/ RefreshDone(r) \/ RefreshRefused(r)
  \/ \E tab \in Tabs : \/ \E user \in Users : Login(tab, user)
                       \/ \E c \in Calls : Send(tab, c)
                       \/ Logout(tab) \/ RefreshFails(tab) \/ Unload(tab)
  \/ \E c \in Calls : \/ Answer(c) \/ Fail(c) \/ UnauthorizedAlone(c)
                      \/ Unauthorized(c) \/ FailAgain(c)


SessionsSpec == SessionsInit /\ [][SessionsNext]_sessionVars

-----------------------------------------------------------------------------
(* Rows, storages, calls and refreshes have their types. *)
SessionsTypeOK ==
  /\ row \in [Tokens -> Row] /\ aged \subseteq Tokens
  /\ store \in 0..MaxTokens
  /\ local \in Users \cup {NoUser} /\ session \in [Tabs -> Users \cup {NoUser}]
  /\ call \in [Calls -> Call]
  /\ refreshing \subseteq Tabs /\ refreshes \subseteq Refresh
  /\ mixed \in BOOLEAN /\ outside \subseteq Tabs

(* A tab whose refresh is refused has only time to blame, or somebody else:  *)
(* the row expired, or it was revoked by a logout, by another tab, or by a   *)
(* refresh whose answer was lost.  The calls of one tab never use up each    *)
(* other's token (api.ts refreshPromise).                                    *)
RefusedForCause ==
  \A r \in refreshes :
    r.st = "refused" => row[r.token].state = "expired" \/ row[r.token].by # r.tab

(* The caches a tab reads hold answers for the user whose token it sends,    *)
(* however logins, logouts and expiries follow each other, unless an answer  *)
(* that was still under way crossed the change of user, or the tab was open  *)
(* when another one changed it (api.ts setSessionTokens, clearUserSession).  *)
CachesAreOwn ==
  SignedIn # NoUser /\ ~mixed =>
    /\ local \in {NoUser, SignedIn}
    /\ \A tab \in Tabs \ outside : session[tab] \in {NoUser, SignedIn}

(* A call that waits for a refresh has one to wait for, whose timer runs:    *)
(* no call is left behind by a refresh that ended, failed or timed out       *)
(* (api.ts apiFetch, the finally of refreshPromise).                         *)
WaitersHaveARefresh ==
  \A c \in Calls :
    call[c].st = "wait" =>
      call[c].tab \in refreshing /\ \E r \in refreshes : r.tab = call[c].tab

=============================================================================
