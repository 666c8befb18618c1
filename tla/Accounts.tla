------------------------------ MODULE Accounts ------------------------------
(***************************************************************************)
(* The auth service: accounts, the refresh tokens of their logins and the  *)
(* links that reset their passwords.                                       *)
(*                                                                         *)
(* A request reads rows, computes (argon2, JWT) and writes rows later, in  *)
(* statements of their own: others may commit in between, and the process  *)
(* may die there.                                                          *)
(***************************************************************************)
EXTENDS Naturals

CONSTANTS
  Emails,          \* normalised addresses, one account each
  Names,           \* usernames
  NoEmail, NoName, \* model values
  Callers,           \* requests under way
  MaxTokens,       \* bound: rows of refresh_tokens
  MaxLinks         \* bound: rows of password_reset_tokens

ASSUME AccountsAssumption ==
  /\ MaxTokens \in Nat /\ MaxLinks \in Nat
  /\ NoEmail \notin Emails /\ NoName \notin Names

VARIABLES
  username,    \* of each account, NoName before it is registered
  row,         \* refresh_tokens
  link,        \* password_reset_tokens
  caller,        \* what each request has read
  doubled,     \* history: logins whose token two overlapping requests used
  resets,      \* history: how often each link changed the password
  shared       \* history: links two overlapping requests used

accountVars == <<username, row, link, caller, doubled, resets, shared>>

Tokens == 1..MaxTokens
Links  == 1..MaxLinks
Row  == [account : Emails \cup {NoEmail}, login : 0..MaxTokens,
         state : {"none", "live", "revoked", "expired"}]
Link == [account : Emails \cup {NoEmail}, state : {"none", "valid", "gone"}]
Caller == [pc : {"idle", "register", "revoke", "replace", "reset"},
         account : Emails \cup {NoEmail}, name : Names \cup {NoName},
         token : 0..MaxTokens, link : 0..MaxLinks]
NoRow  == [account |-> NoEmail, login |-> 0, state |-> "none"]
NoLink == [account |-> NoEmail, state |-> "none"]
NoCall == [pc |-> "idle", account |-> NoEmail, name |-> NoName, token |-> 0, link |-> 0]

Registered == {e \in Emails : username[e] # NoName}
Taken == {username[e] : e \in Registered}

Enter(s, r) == caller[s].pc = "idle" /\ caller' = [caller EXCEPT ![s] = r]
Proceed(s, pc) == caller' = [caller EXCEPT ![s].pc = pc]
Leave(s)   == caller' = [caller EXCEPT ![s] = NoCall]

-----------------------------------------------------------------------------
(* register: the address is free; generateUniqueUsername picks a name nobody *)
(* has.                                                                      *)
RegisterRead(s, e) ==
  /\ e \notin Registered
  /\ \E n \in Names \ Taken :
       Enter(s, [NoCall EXCEPT !.pc = "register", !.account = e, !.name = n])
  /\ UNCHANGED <<username, row, link, doubled, resets, shared>>

(* user.create: the address and the name are unique; the loser gets an error.*)
RegisterCreate(s) ==
  LET e == caller[s].account IN
  /\ caller[s].pc = "register"
  /\ IF e \in Registered \/ caller[s].name \in Taken
     THEN UNCHANGED username
     ELSE username' = [username EXCEPT ![e] = caller[s].name]
  /\ Leave(s)
  /\ UNCHANGED <<row, link, doubled, resets, shared>>

-----------------------------------------------------------------------------
(* issueAndStoreTokens: the next row, of a new login or of the login whose   *)
(* token was refreshed.                                                      *)
Unissued == {t \in Tokens : row[t].state = "none"}
Issue(t, account, login) ==
  /\ t \in Unissued /\ \A o \in Unissued : t <= o
  /\ row' = [row EXCEPT ![t] = [account |-> account, login |-> login, state |-> "live"]]

Login(e) ==
  /\ e \in Registered
  /\ \E t \in Tokens : Issue(t, e, t)
  /\ UNCHANGED <<username, link, caller, doubled, resets, shared>>

(* refresh: findFirst of a row neither revoked nor expired. *)
RefreshFind(s, t) ==
  /\ row[t].state = "live"
  /\ Enter(s, [NoCall EXCEPT !.pc = "revoke", !.token = t])
  /\ UNCHANGED <<username, row, link, doubled, resets, shared>>

(* A mutant: the row that was found stays as it is. *)
RefreshRevokeForgotten(s) ==
  /\ caller[s].pc = "revoke"
  /\ Proceed(s, "replace")
  /\ UNCHANGED <<username, row, link, doubled, resets, shared>>

(* refreshToken.update by id: also a row that another request revoked since. *)
RefreshRevoke(s) ==
  LET t == caller[s].token IN
  /\ caller[s].pc = "revoke"
  /\ doubled' = IF row[t].state = "revoked" THEN doubled \cup {row[t].login} ELSE doubled
  /\ row' = [row EXCEPT ![t].state = "revoked"]
  /\ Proceed(s, "replace")
  /\ UNCHANGED <<username, link, resets, shared>>

RefreshReplace(s) ==
  LET t == caller[s].token IN
  /\ caller[s].pc = "replace"
  /\ \E n \in Tokens : Issue(n, row[t].account, row[t].login)
  /\ Leave(s)
  /\ UNCHANGED <<username, link, doubled, resets, shared>>

(* logout: updateMany revokes the row if it is still valid. *)
Logout(t) ==
  /\ row[t].state = "live"
  /\ row' = [row EXCEPT ![t].state = "revoked"]
  /\ UNCHANGED <<username, link, caller, doubled, resets, shared>>

TokenExpires(t) ==
  /\ row[t].state = "live"
  /\ row' = [row EXCEPT ![t].state = "expired"]
  /\ UNCHANGED <<username, link, caller, doubled, resets, shared>>

-----------------------------------------------------------------------------
(* forgotPassword: one more link, older ones stay valid. *)
ForgotPassword(e) ==
  LET unused == {k \in Links : link[k].state = "none"} IN
  /\ e \in Registered
  /\ \E k \in unused :
       /\ \A o \in unused : k <= o
       /\ link' = [link EXCEPT ![k] = [account |-> e, state |-> "valid"]]
  /\ UNCHANGED <<username, row, caller, doubled, resets, shared>>

(* resetPassword: the link is looked up, then the new password hashed. *)
ResetFind(s, k) ==
  /\ link[k].state = "valid"
  /\ Enter(s, [NoCall EXCEPT !.pc = "reset", !.link = k])
  /\ shared' = IF \E o \in Callers : caller[o].pc = "reset" /\ caller[o].link = k
               THEN shared \cup {k} ELSE shared
  /\ UNCHANGED <<username, row, link, doubled, resets>>

(* A mutant: the links stay valid. *)
ResetCommitKeepsLinks(s) ==
  LET k == caller[s].link IN
  /\ caller[s].pc = "reset"
  /\ resets' = [resets EXCEPT ![k] = IF @ = 0 THEN 1 ELSE 2]
  /\ Leave(s)
  /\ UNCHANGED <<username, row, link, doubled, shared>>

(* The transaction writes the password and deletes every link of the user;   *)
(* it does not look at the link again.                                       *)
ResetCommit(s) ==
  LET k == caller[s].link IN
  /\ caller[s].pc = "reset"
  /\ resets' = [resets EXCEPT ![k] = IF @ = 0 THEN 1 ELSE 2]
  /\ link' = [l \in Links |-> IF link[l].account = link[k].account
                              THEN [link[l] EXCEPT !.state = "gone"] ELSE link[l]]
  /\ Leave(s)
  /\ UNCHANGED <<username, row, doubled, shared>>

LinkExpires(k) ==
  /\ link[k].state = "valid"
  /\ link' = [link EXCEPT ![k].state = "gone"]
  /\ UNCHANGED <<username, row, caller, doubled, resets, shared>>

(* The process dies, or the database fails, between two statements. *)
GiveUp(s) ==
  /\ caller[s].pc # "idle"
  /\ Leave(s)
  /\ UNCHANGED <<username, row, link, doubled, resets, shared>>

-----------------------------------------------------------------------------
AccountsInit ==
  /\ username = [e \in Emails |-> NoName]
  /\ row = [t \in Tokens |-> NoRow]
  /\ link = [k \in Links |-> NoLink]
  /\ caller = [s \in Callers |-> NoCall]
  /\ doubled = {} /\ shared = {}
  /\ resets = [k \in Links |-> 0]

AccountsNext ==
  \/ \E s \in Callers :
       \/ \E e \in Emails : RegisterRead(s, e)
       \/ \E t \in Tokens : RefreshFind(s, t)
       \/ \E k \in Links : ResetFind(s, k)
       \/ RegisterCreate(s) \/ RefreshRevoke(s) \/ RefreshReplace(s)
       \/ ResetCommit(s) \/ GiveUp(s)
  \/ \E e \in Emails : Login(e) \/ ForgotPassword(e)
  \/ \E t \in Tokens : Logout(t) \/ TokenExpires(t)
  \/ \E k \in Links : LinkExpires(k)

AccountsSpec == AccountsInit /\ [][AccountsNext]_accountVars

-----------------------------------------------------------------------------
(* Accounts, tokens, links and requests have their types. *)
AccountsTypeOK ==
  /\ username \in [Emails -> Names \cup {NoName}]
  /\ row \in [Tokens -> Row] /\ link \in [Links -> Link]
  /\ caller \in [Callers -> Caller]
  /\ doubled \subseteq 0..MaxTokens /\ shared \subseteq 0..MaxLinks
  /\ resets \in [Links -> 0..2]

(* A login never has two refresh tokens the server would accept, unless two  *)
(* requests presented the same token at the same time                        *)
(* (auth.service.ts refresh: the row is read, then revoked, then replaced).  *)
OneTokenPerLogin ==
  \A t, o \in Tokens :
    row[t].state = "live" /\ row[o].state = "live" /\ row[t].login = row[o].login
      /\ row[t].login \notin doubled => t = o

(* A mailed link changes the password at most once, unless two requests that *)
(* presented it overlapped (auth.service.ts resetPassword: the link is read  *)
(* before the hash and not again in the transaction).                        *)
LinkUsedOnce == \A k \in Links \ shared : resets[k] <= 1

(* The same without the exception, which the code does not keep. *)
LinkNeverReused == \A k \in Links : resets[k] <= 1
OneTokenAlways ==
  \A t, o \in Tokens :
    row[t].state = "live" /\ row[o].state = "live" /\ row[t].login = row[o].login => t = o

=============================================================================
