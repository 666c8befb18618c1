--------------------------- MODULE Services_proofs ---------------------------
(***************************************************************************)
(* Theorems about the people of the market: Accounts, for any addresses,   *)
(* names and numbers of tokens, links and requests that overlap; Trust,    *)
(* for any reports and computations that overlap; Verification, for any    *)
(* number of requests that overlap and of submissions; People. The modules *)
(* share no variables: each theorem is about the specification of one.     *)
(***************************************************************************)
EXTENDS Accounts, Trust, Verification, People, FiniteSetTheorems, TLAPS

-----------------------------------------------------------------------------
(* Accounts.                                                                 *)

(* A row that was issued and that nobody has revoked. *)
Unrevoked(t) == row[t].state \in {"live", "expired"}

(* A login is the number of its first row. *)
LoginsWereIssued ==
  \A t \in Tokens : row[t].state # "none" =>
    row[t].login \in Tokens /\ row[row[t].login].state # "none"

(* A refresh under way has found a row. *)
RefreshHasRow ==
  \A s \in Callers : caller[s].pc \in {"revoke", "replace"} =>
    caller[s].token \in Tokens /\ row[caller[s].token].state # "none"

(* Of a login that is not doubled there is one row that is not revoked, or   *)
(* one request that is about to replace the row it revoked.                  *)
OneUnrevoked ==
  \A t, o \in Tokens :
    Unrevoked(t) /\ Unrevoked(o) /\ row[t].login = row[o].login
      /\ row[t].login \notin doubled => t = o

(* A request that is about to replace a row has revoked its login's only     *)
(* one.                                                                      *)
ReplacedIsRevoked ==
  \A s \in Callers, t \in Tokens :
    caller[s].pc = "replace" /\ Unrevoked(t)
      /\ row[t].login = row[caller[s].token].login => row[t].login \in doubled

(* Of a login that is not doubled one request at most replaces a row.        *)
OneReplaces ==
  \A s, r \in Callers :
    caller[s].pc = "replace" /\ caller[r].pc = "replace"
      /\ row[caller[s].token].login = row[caller[r].token].login
      /\ row[caller[s].token].login \notin doubled => s = r

(* The inductive invariant about tokens. *)
TokenInv == /\ AccountsTypeOK /\ LoginsWereIssued /\ RefreshHasRow
            /\ OneUnrevoked /\ ReplacedIsRevoked /\ OneReplaces

(* A reset under way has found a link. *)
ResetHasLink ==
  \A s \in Callers : caller[s].pc = "reset" =>
    caller[s].link \in Links /\ link[caller[s].link].state # "none"

(* A link that changed a password is gone, and one that no two requests      *)
(* shared is with one request, before its first change.                      *)
UsedIsGone == \A k \in Links : resets[k] > 0 => link[k].state = "gone"

(* A reset that has found a link nobody else found finds it unused.          *)
UnsharedIsUnused ==
  \A s \in Callers : caller[s].pc = "reset" /\ caller[s].link \notin shared =>
    resets[caller[s].link] = 0

(* A link that is not shared is held by one reset at most.                   *)
OneResets ==
  \A s, r \in Callers :
    caller[s].pc = "reset" /\ caller[r].pc = "reset" /\ caller[s].link = caller[r].link
      /\ caller[s].link \notin shared => s = r

(* The inductive invariant about links. *)
LinkInv == /\ AccountsTypeOK /\ ResetHasLink /\ UsedIsGone
           /\ UnsharedIsUnused /\ OneResets /\ LinkUsedOnce

-----------------------------------------------------------------------------
(* Types. *)

LEMMA CallTypes ==
  /\ NoCall \in Caller
  /\ \A r \in Caller, pc \in {"idle", "register", "revoke", "replace", "reset"} :
       [r EXCEPT !.pc = pc] \in Caller
  /\ \A e \in Emails, n \in Names :
       [NoCall EXCEPT !.pc = "register", !.account = e, !.name = n] \in Caller
  /\ \A t \in Tokens : [NoCall EXCEPT !.pc = "revoke", !.token = t] \in Caller
  /\ \A k \in Links : [NoCall EXCEPT !.pc = "reset", !.link = k] \in Caller
<1>1. NoCall \in Caller
  BY AccountsAssumption DEF NoCall, Caller
<1>2. ASSUME NEW r \in Caller, NEW pc \in {"idle", "register", "revoke", "replace", "reset"}
      PROVE  [r EXCEPT !.pc = pc] \in Caller
  BY <1>2 DEF Caller
<1>3. ASSUME NEW e \in Emails, NEW n \in Names
      PROVE  [NoCall EXCEPT !.pc = "register", !.account = e, !.name = n] \in Caller
  BY <1>1 DEF Caller
<1>4. ASSUME NEW t \in Tokens PROVE [NoCall EXCEPT !.pc = "revoke", !.token = t] \in Caller
  <2>1. t \in 0..MaxTokens
    BY AccountsAssumption DEF Tokens
  <2> QED BY <1>1, <2>1 DEF Caller
<1>5. ASSUME NEW k \in Links PROVE [NoCall EXCEPT !.pc = "reset", !.link = k] \in Caller
  <2>1. k \in 0..MaxLinks
    BY AccountsAssumption DEF Links
  <2> QED BY <1>1, <2>1 DEF Caller
<1> QED BY <1>1, <1>2, <1>3, <1>4, <1>5

(* What a step can do to the calls, one at a time. *)
LEMMA CallsKeepType ==
  ASSUME AccountsTypeOK, NEW s \in Callers, NEW r \in Caller,
         caller' = [caller EXCEPT ![s] = r]
  PROVE  caller' \in [Callers -> Caller]
BY DEF AccountsTypeOK

(* A new row is a row.                                                       *)
LEMMA IssueType ==
  ASSUME AccountsTypeOK, NEW t \in Tokens, NEW e \in Emails \cup {NoEmail}, NEW n \in 0..MaxTokens,
         Issue(t, e, n)
  PROVE  row' \in [Tokens -> Row]
BY DEF AccountsTypeOK, Issue, Row

(* The first state has its types.                                            *)
LEMMA TypeInit == AccountsInit => AccountsTypeOK
<1>1. NoRow \in Row /\ NoLink \in Link
  BY AccountsAssumption DEF NoRow, Row, NoLink, Link
<1>2. NoCall \in Caller
  BY CallTypes
<1> QED BY <1>1, <1>2 DEF AccountsInit, AccountsTypeOK

(* Every step keeps the types, as requests only go on with rows and links    *)
(* they have found.                                                          *)
LEMMA TypeStep ==
  ASSUME AccountsTypeOK, RefreshHasRow, ResetHasLink, [AccountsNext]_accountVars
  PROVE  AccountsTypeOK'
<1> USE AccountsAssumption
<1>1. ASSUME NEW s \in Callers, NEW e \in Emails, RegisterRead(s, e) PROVE AccountsTypeOK'
  <2>1. PICK n \in Names : Enter(s, [NoCall EXCEPT !.pc = "register", !.account = e, !.name = n])
    BY <1>1 DEF RegisterRead
  <2>2. caller' \in [Callers -> Caller]
    BY <2>1, CallTypes, CallsKeepType DEF Enter
  <2> QED BY <1>1, <2>2 DEF RegisterRead, AccountsTypeOK
<1>2. ASSUME NEW s \in Callers, RegisterCreate(s) PROVE AccountsTypeOK'
  <2>1. caller' \in [Callers -> Caller]
    BY <1>2, CallTypes, CallsKeepType DEF RegisterCreate, Leave
  <2>2. caller[s].name \in Names \cup {NoName}
    BY DEF AccountsTypeOK, Caller
  <2> QED BY <1>2, <2>1, <2>2 DEF RegisterCreate, AccountsTypeOK
<1>3. ASSUME NEW e \in Emails, Login(e) PROVE AccountsTypeOK'
  <2>1. PICK t \in Tokens : Issue(t, e, t)
    BY <1>3 DEF Login
  <2>2. row' \in [Tokens -> Row]
    BY <2>1, IssueType DEF Tokens
  <2> QED BY <1>3, <2>2 DEF Login, AccountsTypeOK
<1>4. ASSUME NEW s \in Callers, NEW t \in Tokens, RefreshFind(s, t) PROVE AccountsTypeOK'
  <2>1. caller' \in [Callers -> Caller]
    BY <1>4, CallTypes, CallsKeepType DEF RefreshFind, Enter
  <2> QED BY <1>4, <2>1 DEF RefreshFind, AccountsTypeOK
<1>5. ASSUME NEW s \in Callers, RefreshRevoke(s) PROVE AccountsTypeOK'
  <2>1. [caller[s] EXCEPT !.pc = "replace"] \in Caller
    BY CallTypes DEF AccountsTypeOK
  <2>2. caller' \in [Callers -> Caller]
    BY <1>5, <2>1, CallsKeepType DEF RefreshRevoke, Proceed
  <2>3. row' \in [Tokens -> Row]
    BY <1>5 DEF RefreshRevoke, AccountsTypeOK, Row
  <2>4. doubled' \subseteq 0..MaxTokens
    <3>1. caller[s].token \in Tokens
      BY <1>5 DEF RefreshRevoke, RefreshHasRow
    <3>2. row[caller[s].token].login \in 0..MaxTokens
      BY <3>1 DEF AccountsTypeOK, Row
    <3> QED BY <1>5, <3>2 DEF RefreshRevoke, AccountsTypeOK
  <2> QED BY <1>5, <2>2, <2>3, <2>4 DEF RefreshRevoke, AccountsTypeOK
<1>6. ASSUME NEW s \in Callers, RefreshReplace(s) PROVE AccountsTypeOK'
  <2>1. caller' \in [Callers -> Caller]
    BY <1>6, CallTypes, CallsKeepType DEF RefreshReplace, Leave
  <2>2. row' \in [Tokens -> Row]
    <3>1. caller[s].token \in Tokens
      BY <1>6 DEF RefreshReplace, RefreshHasRow
    <3>2. /\ row[caller[s].token].account \in Emails \cup {NoEmail}
          /\ row[caller[s].token].login \in 0..MaxTokens
      BY <3>1 DEF AccountsTypeOK, Row
    <3> QED BY <1>6, <3>2, IssueType DEF RefreshReplace
  <2> QED BY <1>6, <2>1, <2>2 DEF RefreshReplace, AccountsTypeOK
<1>7. ASSUME NEW t \in Tokens, Logout(t) \/ TokenExpires(t) PROVE AccountsTypeOK'
  <2>1. row' \in [Tokens -> Row]
    BY <1>7 DEF Logout, TokenExpires, AccountsTypeOK, Row
  <2> QED BY <1>7, <2>1 DEF Logout, TokenExpires, AccountsTypeOK
<1>8. ASSUME NEW e \in Emails, ForgotPassword(e) PROVE AccountsTypeOK'
  <2>1. link' \in [Links -> Link]
    BY <1>8 DEF ForgotPassword, AccountsTypeOK, Link
  <2> QED BY <1>8, <2>1 DEF ForgotPassword, AccountsTypeOK
<1>9. ASSUME NEW s \in Callers, NEW k \in Links, ResetFind(s, k) PROVE AccountsTypeOK'
  <2>1. caller' \in [Callers -> Caller]
    BY <1>9, CallTypes, CallsKeepType DEF ResetFind, Enter
  <2>2. shared' \subseteq 0..MaxLinks
    BY <1>9 DEF ResetFind, AccountsTypeOK, Links
  <2> QED BY <1>9, <2>1, <2>2 DEF ResetFind, AccountsTypeOK
<1>10. ASSUME NEW s \in Callers, ResetCommit(s) PROVE AccountsTypeOK'
  <2>1. caller' \in [Callers -> Caller]
    BY <1>10, CallTypes, CallsKeepType DEF ResetCommit, Leave
  <2>2. link' \in [Links -> Link]
    BY <1>10 DEF ResetCommit, AccountsTypeOK, Link
  <2>3. resets' \in [Links -> 0..2]
    <3>1. caller[s].link \in Links
      BY <1>10 DEF ResetCommit, ResetHasLink
    <3> QED BY <1>10, <3>1 DEF ResetCommit, AccountsTypeOK
  <2> QED BY <1>10, <2>1, <2>2, <2>3 DEF ResetCommit, AccountsTypeOK
<1>11. ASSUME NEW k \in Links, LinkExpires(k) PROVE AccountsTypeOK'
  <2>1. link' \in [Links -> Link]
    BY <1>11 DEF LinkExpires, AccountsTypeOK, Link
  <2> QED BY <1>11, <2>1 DEF LinkExpires, AccountsTypeOK
<1>12. ASSUME NEW s \in Callers, GiveUp(s) PROVE AccountsTypeOK'
  <2>1. caller' \in [Callers -> Caller]
    BY <1>12, CallTypes, CallsKeepType DEF GiveUp, Leave
  <2> QED BY <1>12, <2>1 DEF GiveUp, AccountsTypeOK
<1>13. CASE UNCHANGED accountVars
  BY <1>13 DEF accountVars, AccountsTypeOK
<1> QED
  BY <1>1, <1>2, <1>3, <1>4, <1>5, <1>6, <1>7, <1>8, <1>9, <1>10, <1>11, <1>12, <1>13
     DEF AccountsNext

-----------------------------------------------------------------------------
(* Tokens. *)

(* Requests begin something else, or end: no token is lost or issued.        *)
LEMMA TokensStay ==
  ASSUME TokenInv, AccountsTypeOK', UNCHANGED <<row, doubled>>,
         \A s \in Callers : caller'[s].pc \in {"revoke", "replace"} =>
           caller'[s].pc = caller[s].pc /\ caller'[s].token = caller[s].token
  PROVE  TokenInv'
<1>1. LoginsWereIssued' /\ OneUnrevoked'
  BY DEF TokenInv, LoginsWereIssued, OneUnrevoked, Unrevoked
<1>2. RefreshHasRow'
  BY DEF TokenInv, RefreshHasRow
<1>3. ReplacedIsRevoked' /\ OneReplaces'
  BY DEF TokenInv, ReplacedIsRevoked, OneReplaces, Unrevoked
<1> QED BY <1>1, <1>2, <1>3 DEF TokenInv

(* A row that was issued is of the same login for good, and may at most stop *)
(* to be valid.                                                              *)
LEMMA RowEnds ==
  ASSUME TokenInv, AccountsTypeOK', NEW t \in Tokens, NEW x \in {"revoked", "expired"},
         row[t].state = "live", row' = [row EXCEPT ![t].state = x],
         UNCHANGED <<caller, doubled>>
  PROVE  TokenInv'
<1>1. /\ row' \in [Tokens -> Row]
      /\ \A o \in Tokens : /\ row'[o].login = row[o].login
                           /\ row'[o].state = "none" <=> row[o].state = "none"
                           /\ row'[o].state \in {"live", "expired"} =>
                                row[o].state \in {"live", "expired"}
  BY DEF TokenInv, AccountsTypeOK, Row
<1>2. LoginsWereIssued' /\ RefreshHasRow'
  BY <1>1 DEF TokenInv, LoginsWereIssued, RefreshHasRow
<1>3. OneUnrevoked' /\ ReplacedIsRevoked' /\ OneReplaces'
  BY <1>1 DEF TokenInv, OneUnrevoked, ReplacedIsRevoked, OneReplaces, Unrevoked, RefreshHasRow
<1> QED BY <1>2, <1>3 DEF TokenInv

(* What the next row of a login changes. *)
LEMMA IssuedRow ==
  ASSUME TokenInv, NEW n \in Tokens, NEW e \in Emails \cup {NoEmail}, NEW l \in 0..MaxTokens,
         Issue(n, e, l)
  PROVE  /\ row[n].state = "none"
         /\ row'[n].login = l /\ row'[n].state = "live"
         /\ \A o \in Tokens \ {n} : row'[o] = row[o]
BY DEF Issue, Unissued, TokenInv, AccountsTypeOK

(* A login begins with a row of its own.                                     *)
LEMMA LoginInv ==
  ASSUME TokenInv, AccountsTypeOK', NEW e \in Emails, Login(e)
  PROVE  TokenInv'
<1>1. PICK n \in Tokens : Issue(n, e, n)
  BY DEF Login
<1>2. UNCHANGED <<caller, doubled>>
  BY DEF Login
<1>3. /\ row[n].state = "none"
      /\ row'[n].login = n /\ row'[n].state = "live"
      /\ \A o \in Tokens \ {n} : row'[o] = row[o]
  BY <1>1, IssuedRow DEF Tokens
<1>4. \A o \in Tokens \ {n} : row[o].state # "none" => row[o].login # n
  BY <1>3 DEF TokenInv, LoginsWereIssued
<1>5. LoginsWereIssued' /\ RefreshHasRow'
  BY <1>2, <1>3 DEF TokenInv, LoginsWereIssued, RefreshHasRow
<1>6. OneUnrevoked'
  BY <1>2, <1>3, <1>4 DEF TokenInv, OneUnrevoked, Unrevoked
<1>7. ASSUME NEW s \in Callers, caller[s].pc = "replace"
      PROVE  /\ caller[s].token \in Tokens \ {n}
             /\ row[caller[s].token].login # n
  BY <1>7, <1>3, <1>4 DEF TokenInv, RefreshHasRow
<1>8. ReplacedIsRevoked'
  BY <1>2, <1>3, <1>7 DEF TokenInv, ReplacedIsRevoked, Unrevoked
<1>9. OneReplaces'
  BY <1>2, <1>3, <1>7 DEF TokenInv, OneReplaces
<1> QED BY <1>5, <1>6, <1>8, <1>9 DEF TokenInv

(* A refresh that finds an unrevoked row is alone, or doubles its login.     *)
LEMMA FindInv ==
  ASSUME TokenInv, AccountsTypeOK', NEW s \in Callers, NEW t \in Tokens, RefreshFind(s, t)
  PROVE  TokenInv'
<1>1. /\ row[t].state = "live" /\ UNCHANGED <<row, doubled>>
      /\ caller'[s].pc = "revoke" /\ caller'[s].token = t
      /\ \A r \in Callers \ {s} : caller'[r] = caller[r]
  BY DEF RefreshFind, Enter, NoCall, TokenInv, AccountsTypeOK
<1>2. LoginsWereIssued' /\ OneUnrevoked'
  BY <1>1 DEF TokenInv, LoginsWereIssued, OneUnrevoked, Unrevoked
<1>3. RefreshHasRow'
  BY <1>1 DEF TokenInv, RefreshHasRow
<1>4. ReplacedIsRevoked' /\ OneReplaces'
  BY <1>1 DEF TokenInv, ReplacedIsRevoked, OneReplaces, Unrevoked
<1> QED BY <1>2, <1>3, <1>4 DEF TokenInv

(* The row is revoked and its replacement is due: the count of the login     *)
(* stays, or the row was revoked before and its login is doubled.            *)
LEMMA RevokeInv ==
  ASSUME TokenInv, AccountsTypeOK', NEW s \in Callers, RefreshRevoke(s)
  PROVE  TokenInv'
<1>1. PICK t \in Tokens : t = caller[s].token /\ row[t].state # "none"
  BY DEF RefreshRevoke, TokenInv, RefreshHasRow
<1>2. /\ row'[t].state = "revoked" /\ row'[t].login = row[t].login
      /\ \A o \in Tokens \ {t} : row'[o] = row[o]
  BY <1>1 DEF RefreshRevoke, TokenInv, AccountsTypeOK, Row
<1>3. /\ caller'[s].pc = "replace" /\ caller'[s].token = t
      /\ \A r \in Callers \ {s} : caller'[r] = caller[r]
  BY <1>1 DEF RefreshRevoke, Proceed, TokenInv, AccountsTypeOK, Caller
<1>4. \A l : l \in doubled => l \in doubled'
  BY DEF RefreshRevoke
<1>5. row[t].state = "revoked" => row[t].login \in doubled'
  BY <1>1 DEF RefreshRevoke
<1>6. row[t].state # "revoked" => Unrevoked(t)
  BY <1>1 DEF Unrevoked, TokenInv, AccountsTypeOK, Row
<1>7. LoginsWereIssued'
  BY <1>1, <1>2 DEF TokenInv, LoginsWereIssued
<1>8. RefreshHasRow'
  BY <1>1, <1>2, <1>3 DEF TokenInv, RefreshHasRow
<1>9. OneUnrevoked'
  BY <1>2, <1>4 DEF TokenInv, OneUnrevoked, Unrevoked
<1>10. \A r \in Callers : caller'[r].pc = "replace" =>
         /\ caller'[r].token \in Tokens
         /\ row'[caller'[r].token].login = row[caller'[r].token].login
         /\ r # s => caller'[r] = caller[r]
  BY <1>2, <1>3, <1>8 DEF RefreshHasRow
<1>11. ReplacedIsRevoked'
  <2> SUFFICES ASSUME NEW r \in Callers, NEW o \in Tokens,
                      caller'[r].pc = "replace", row'[o].state \in {"live", "expired"},
                      row'[o].login = row'[caller'[r].token].login
               PROVE  row'[o].login \in doubled'
    BY DEF ReplacedIsRevoked, Unrevoked
  <2>1. o # t /\ row'[o] = row[o] /\ Unrevoked(o)
    BY <1>2 DEF Unrevoked
  <2>2. CASE r = s
    <3>1. row[o].login = row[t].login
      BY <2>1, <2>2, <1>2, <1>3
    <3>2. CASE row[t].state = "revoked"
      BY <3>1, <3>2, <2>1, <1>5
    <3>3. CASE row[t].state # "revoked"
      BY <3>1, <3>3, <2>1, <1>4, <1>6 DEF TokenInv, OneUnrevoked
    <3> QED BY <3>2, <3>3
  <2>3. CASE r # s
    BY <2>1, <2>3, <1>4, <1>10 DEF TokenInv, ReplacedIsRevoked
  <2> QED BY <2>2, <2>3
<1>12. \A r \in Callers \ {s} :
         caller[r].pc = "replace" /\ row[caller[r].token].login = row[t].login =>
           row[t].login \in doubled'
  <2> SUFFICES ASSUME NEW r \in Callers \ {s}, caller[r].pc = "replace",
                      row[caller[r].token].login = row[t].login
               PROVE  row[t].login \in doubled'
    OBVIOUS
  <2>1. CASE row[t].state = "revoked"
    BY <2>1, <1>5
  <2>2. CASE row[t].state # "revoked"
    BY <2>2, <1>4, <1>6 DEF TokenInv, ReplacedIsRevoked
  <2> QED BY <2>1, <2>2
<1>13. OneReplaces'
  <2> SUFFICES ASSUME NEW q \in Callers, NEW r \in Callers,
                      caller'[q].pc = "replace", caller'[r].pc = "replace",
                      row'[caller'[q].token].login = row'[caller'[r].token].login,
                      row'[caller'[q].token].login \notin doubled'
               PROVE  q = r
    BY DEF OneReplaces
  <2>1. row[caller'[q].token].login = row[caller'[r].token].login
        /\ row[caller'[q].token].login \notin doubled'
    BY <1>10
  <2>2. CASE q # s /\ r # s
    BY <2>1, <2>2, <1>4, <1>10 DEF TokenInv, OneReplaces
  <2>3. CASE q = s /\ r # s
    BY <2>1, <2>3, <1>3, <1>12
  <2>4. CASE q # s /\ r = s
    BY <2>1, <2>4, <1>3, <1>12
  <2> QED BY <2>2, <2>3, <2>4
<1> QED BY <1>7, <1>8, <1>9, <1>11, <1>13 DEF TokenInv

(* The replacement is issued: the request is done. *)
LEMMA ReplaceInv ==
  ASSUME TokenInv, AccountsTypeOK', NEW s \in Callers, RefreshReplace(s)
  PROVE  TokenInv'
<1>1. PICK t \in Tokens : t = caller[s].token /\ row[t].state # "none"
  BY DEF RefreshReplace, TokenInv, RefreshHasRow
<1>2. PICK n \in Tokens : Issue(n, row[t].account, row[t].login)
  BY <1>1 DEF RefreshReplace
<1>3. /\ row[t].account \in Emails \cup {NoEmail}
      /\ row[t].login \in 0..MaxTokens
  BY DEF TokenInv, AccountsTypeOK, Row
<1>4. /\ row[n].state = "none"
      /\ row'[n].login = row[t].login /\ row'[n].state = "live"
      /\ \A o \in Tokens \ {n} : row'[o] = row[o]
  BY <1>2, <1>3, IssuedRow
<1>5. /\ caller'[s].pc = "idle" /\ caller[s].pc = "replace"
      /\ \A r \in Callers \ {s} : caller'[r] = caller[r]
      /\ UNCHANGED doubled
  BY DEF RefreshReplace, Leave, NoCall, TokenInv, AccountsTypeOK
<1>6. row[t].login \in Tokens \ {n} /\ row[row[t].login].state # "none"
  BY <1>1, <1>4 DEF TokenInv, LoginsWereIssued
<1>7. LoginsWereIssued'
  BY <1>4, <1>6 DEF TokenInv, LoginsWereIssued
<1>8. \A r \in Callers : caller'[r].pc \in {"revoke", "replace"} =>
        /\ r # s /\ caller'[r] = caller[r] /\ caller[r].token \in Tokens \ {n}
        /\ row[caller[r].token].state # "none"
  BY <1>4, <1>5 DEF TokenInv, RefreshHasRow
<1>9. RefreshHasRow'
  BY <1>4, <1>8 DEF RefreshHasRow
<1>10. \A o \in Tokens \ {n} : Unrevoked(o) /\ row[o].login = row[t].login =>
         row[t].login \in doubled
  BY <1>1, <1>5 DEF TokenInv, ReplacedIsRevoked
<1>11. OneUnrevoked'
  BY <1>4, <1>5, <1>10 DEF TokenInv, OneUnrevoked, Unrevoked
<1>12. \A r \in Callers : r # s /\ caller[r].pc = "replace"
                          /\ row[caller[r].token].login = row[t].login =>
         row[t].login \in doubled
  BY <1>1, <1>5 DEF TokenInv, OneReplaces
<1>13. ReplacedIsRevoked'
  BY <1>4, <1>5, <1>8, <1>12 DEF TokenInv, ReplacedIsRevoked, Unrevoked
<1>14. OneReplaces'
  BY <1>4, <1>5, <1>8 DEF TokenInv, OneReplaces
<1> QED BY <1>7, <1>9, <1>11, <1>13, <1>14 DEF TokenInv

(* Every step keeps what is known of the tokens.                             *)
LEMMA TokenStep ==
  ASSUME TokenInv, ResetHasLink, [AccountsNext]_accountVars
  PROVE  TokenInv'
<1>0. AccountsTypeOK'
  BY TypeStep DEF TokenInv
<1>1. ASSUME NEW s \in Callers,
             \/ \E e \in Emails : RegisterRead(s, e)
             \/ RegisterCreate(s) \/ ResetCommit(s) \/ GiveUp(s)
             \/ \E k \in Links : ResetFind(s, k)
      PROVE  TokenInv'
  <2>1. /\ UNCHANGED <<row, doubled>>
        /\ caller'[s].pc \notin {"revoke", "replace"}
        /\ \A r \in Callers \ {s} : caller'[r] = caller[r]
    <3>1. caller \in [Callers -> Caller]
      BY DEF TokenInv, AccountsTypeOK
    <3>2. CASE \E e \in Emails : RegisterRead(s, e)
      BY <3>1, <3>2 DEF RegisterRead, Enter, NoCall
    <3>3. CASE RegisterCreate(s) \/ ResetCommit(s) \/ GiveUp(s)
      BY <3>1, <3>3 DEF RegisterCreate, ResetCommit, GiveUp, Leave, NoCall
    <3>4. CASE \E k \in Links : ResetFind(s, k)
      BY <3>1, <3>4 DEF ResetFind, Enter, NoCall
    <3> QED BY <1>1, <3>2, <3>3, <3>4
  <2> QED BY <2>1, <1>0, TokensStay
<1>2. ASSUME NEW e \in Emails, ForgotPassword(e) PROVE TokenInv'
  BY <1>0, <1>2, TokensStay DEF ForgotPassword
<1>3. ASSUME NEW k \in Links, LinkExpires(k) PROVE TokenInv'
  BY <1>0, <1>3, TokensStay DEF LinkExpires
<1>4. ASSUME NEW t \in Tokens, Logout(t) PROVE TokenInv'
  BY <1>0, <1>4, RowEnds DEF Logout
<1>5. ASSUME NEW t \in Tokens, TokenExpires(t) PROVE TokenInv'
  BY <1>0, <1>5, RowEnds DEF TokenExpires
<1>6. CASE UNCHANGED accountVars
  BY <1>0, <1>6, TokensStay DEF accountVars
<1> QED
  BY <1>0, <1>1, <1>2, <1>3, <1>4, <1>5, <1>6, LoginInv, FindInv, RevokeInv, ReplaceInv
     DEF AccountsNext

-----------------------------------------------------------------------------
(* Links. *)

(* Requests other than resets begin or end, and links may stop to be valid.  *)
LEMMA LinksStay ==
  ASSUME LinkInv, AccountsTypeOK', UNCHANGED <<resets, shared>>,
         \A k \in Links : /\ link'[k].state = "none" => link[k].state = "none"
                          /\ link[k].state = "gone" => link'[k].state = "gone",
         \A s \in Callers : caller'[s].pc = "reset" =>
           caller[s].pc = "reset" /\ caller'[s].link = caller[s].link
  PROVE  LinkInv'
<1>1. ResetHasLink'
  BY DEF LinkInv, ResetHasLink
<1>2. UsedIsGone' /\ LinkUsedOnce'
  BY DEF LinkInv, UsedIsGone, LinkUsedOnce
<1>3. UnsharedIsUnused' /\ OneResets'
  BY DEF LinkInv, UnsharedIsUnused, OneResets
<1> QED BY <1>1, <1>2, <1>3 DEF LinkInv

(* A reset that finds a link another one holds makes it shared.              *)
LEMMA ResetFindInv ==
  ASSUME LinkInv, AccountsTypeOK', NEW s \in Callers, NEW k \in Links, ResetFind(s, k)
  PROVE  LinkInv'
<1>1. /\ link[k].state = "valid" /\ caller[s].pc = "idle" /\ UNCHANGED <<link, resets>>
      /\ caller'[s].pc = "reset" /\ caller'[s].link = k
      /\ \A r \in Callers \ {s} : caller'[r] = caller[r]
  BY DEF ResetFind, Enter, NoCall, LinkInv, AccountsTypeOK
<1>2. /\ \A j : j \in shared => j \in shared'
      /\ (\E o \in Callers : caller[o].pc = "reset" /\ caller[o].link = k) => k \in shared'
  BY DEF ResetFind
<1>3. resets[k] = 0
  <2>1. resets[k] \in 0..2
    BY DEF LinkInv, AccountsTypeOK
  <2> QED BY <1>1, <2>1 DEF LinkInv, UsedIsGone
<1>4. ResetHasLink' /\ UsedIsGone'
  BY <1>1 DEF LinkInv, ResetHasLink, UsedIsGone
<1>5. UnsharedIsUnused'
  BY <1>1, <1>2, <1>3 DEF LinkInv, UnsharedIsUnused
<1>6. OneResets'
  BY <1>1, <1>2 DEF LinkInv, OneResets
<1>7. LinkUsedOnce'
  BY <1>1, <1>2 DEF LinkInv, LinkUsedOnce
<1> QED BY <1>4, <1>5, <1>6, <1>7 DEF LinkInv

(* A reset uses its link and takes it away.                                  *)
LEMMA ResetCommitInv ==
  ASSUME LinkInv, AccountsTypeOK', NEW s \in Callers, ResetCommit(s)
  PROVE  LinkInv'
<1>1. PICK k \in Links : k = caller[s].link /\ link[k].state # "none"
  BY DEF ResetCommit, LinkInv, ResetHasLink
<1>2. /\ caller[s].pc = "reset" /\ caller'[s].pc = "idle" /\ UNCHANGED shared
      /\ \A r \in Callers \ {s} : caller'[r] = caller[r]
  BY DEF ResetCommit, Leave, NoCall, LinkInv, AccountsTypeOK
<1>3. /\ resets[k] = 0 => resets'[k] = 1
      /\ \A j \in Links \ {k} : resets'[j] = resets[j]
  BY <1>1 DEF ResetCommit, LinkInv, AccountsTypeOK
<1>4. /\ link'[k].state = "gone"
      /\ \A j \in Links : link'[j].state = link[j].state \/ link'[j].state = "gone"
  BY <1>1 DEF ResetCommit, LinkInv, AccountsTypeOK, Link
<1>5. ResetHasLink'
  BY <1>2, <1>4 DEF LinkInv, ResetHasLink
<1>6. UsedIsGone'
  BY <1>3, <1>4 DEF LinkInv, UsedIsGone
<1>7. UnsharedIsUnused'
  BY <1>1, <1>2, <1>3 DEF LinkInv, UnsharedIsUnused, OneResets, ResetHasLink
<1>8. OneResets'
  BY <1>2 DEF LinkInv, OneResets
<1>9. LinkUsedOnce'
  BY <1>1, <1>2, <1>3 DEF LinkInv, LinkUsedOnce, UnsharedIsUnused
<1> QED BY <1>5, <1>6, <1>7, <1>8, <1>9 DEF LinkInv

(* Every step keeps what is known of the links.                              *)
LEMMA LinkStep ==
  ASSUME LinkInv, RefreshHasRow, [AccountsNext]_accountVars
  PROVE  LinkInv'
<1>0. AccountsTypeOK' /\ caller \in [Callers -> Caller]
  BY TypeStep DEF LinkInv, AccountsTypeOK
<1>1. ASSUME NEW s \in Callers,
             \/ \E e \in Emails : RegisterRead(s, e)
             \/ \E t \in Tokens : RefreshFind(s, t)
             \/ RegisterCreate(s) \/ RefreshRevoke(s) \/ RefreshReplace(s) \/ GiveUp(s)
      PROVE  LinkInv'
  <2>1. CASE \E e \in Emails : RegisterRead(s, e)
    BY <1>0, <2>1, LinksStay DEF RegisterRead, Enter, NoCall
  <2>2. CASE \E t \in Tokens : RefreshFind(s, t)
    BY <1>0, <2>2, LinksStay DEF RefreshFind, Enter, NoCall
  <2>3. CASE RegisterCreate(s) \/ RefreshReplace(s) \/ GiveUp(s)
    BY <1>0, <2>3, LinksStay DEF RegisterCreate, RefreshReplace, GiveUp, Leave, NoCall
  <2>4. CASE RefreshRevoke(s)
    BY <1>0, <2>4, LinksStay DEF RefreshRevoke, Proceed, Caller
  <2> QED BY <1>1, <2>1, <2>2, <2>3, <2>4
<1>2. ASSUME NEW e \in Emails, Login(e) \/ ForgotPassword(e) PROVE LinkInv'
  <2>1. CASE Login(e)
    BY <1>0, <2>1, LinksStay DEF Login
  <2>2. CASE ForgotPassword(e)
    BY <1>0, <2>2, LinksStay DEF ForgotPassword, LinkInv, AccountsTypeOK
  <2> QED BY <1>2, <2>1, <2>2
<1>3. ASSUME NEW t \in Tokens, Logout(t) \/ TokenExpires(t) PROVE LinkInv'
  BY <1>0, <1>3, LinksStay DEF Logout, TokenExpires
<1>4. ASSUME NEW k \in Links, LinkExpires(k) PROVE LinkInv'
  BY <1>0, <1>4, LinksStay DEF LinkExpires, LinkInv, AccountsTypeOK, Link
<1>5. CASE UNCHANGED accountVars
  BY <1>0, <1>5, LinksStay DEF accountVars
<1> QED
  BY <1>0, <1>1, <1>2, <1>3, <1>4, <1>5, ResetFindInv, ResetCommitInv DEF AccountsNext

-----------------------------------------------------------------------------
(* Both invariants hold: each step of one needs what requests have found of  *)
(* the other.                                                                *)
LEMMA Invariance == AccountsSpec => [](TokenInv /\ LinkInv)
<1>1. AccountsInit => TokenInv /\ LinkInv
  <2> SUFFICES ASSUME AccountsInit PROVE TokenInv /\ LinkInv
    OBVIOUS
  <2>1. /\ \A s \in Callers : caller[s].pc = "idle"
        /\ \A t \in Tokens : row[t].state = "none"
        /\ \A k \in Links : resets[k] = 0
    BY DEF AccountsInit, NoCall, NoRow
  <2>2. TokenInv
    BY <2>1, TypeInit DEF TokenInv, LoginsWereIssued, RefreshHasRow, OneUnrevoked,
                          ReplacedIsRevoked, OneReplaces, Unrevoked
  <2>3. LinkInv
    BY <2>1, TypeInit DEF LinkInv, ResetHasLink, UsedIsGone, UnsharedIsUnused,
                          OneResets, LinkUsedOnce
  <2> QED BY <2>2, <2>3
<1>2. TokenInv /\ LinkInv /\ [AccountsNext]_accountVars => (TokenInv /\ LinkInv)'
  <2> SUFFICES ASSUME TokenInv, LinkInv, [AccountsNext]_accountVars
               PROVE  TokenInv' /\ LinkInv'
    OBVIOUS
  <2>1. ResetHasLink /\ RefreshHasRow
    BY DEF LinkInv, TokenInv
  <2> QED BY <2>1, TokenStep, LinkStep
<1> QED BY <1>1, <1>2, PTL DEF AccountsSpec

(* Accounts, tokens, links and requests keep their types (auth.service.ts).  *)
THEOREM AccountsTypeCorrect == AccountsSpec => []AccountsTypeOK
<1>1. TokenInv /\ LinkInv => AccountsTypeOK
  BY DEF TokenInv
<1> QED BY <1>1, Invariance, PTL

(* However many requests refresh, log in and log out at once, a login has    *)
(* two tokens the server accepts only if two of them presented one token     *)
(* together (auth.service.ts refresh).                                       *)
THEOREM LoginsKeepOneToken == AccountsSpec => []OneTokenPerLogin
<1>1. TokenInv /\ LinkInv => OneTokenPerLogin
  BY DEF TokenInv, OneUnrevoked, Unrevoked, OneTokenPerLogin
<1> QED BY <1>1, Invariance, PTL

(* However many requests reset passwords, a link changes a password twice    *)
(* only if two of them presented it together (auth.service.ts resetPassword).*)
THEOREM LinksAreSpent == AccountsSpec => []LinkUsedOnce
<1>1. TokenInv /\ LinkInv => LinkUsedOnce
  BY DEF LinkInv
<1> QED BY <1>1, Invariance, PTL

-----------------------------------------------------------------------------
(* Trust.                                                                    *)

(* A computation knows of no report that is closed, and one that knows of an *)
(* open report has found it when it counted.                                 *)
KnownIsOpen == \A w \in Work : work[w].open \subseteq OpenReports

(* A badge computed with a report open is not above the profile's.           *)
OpenWasCounted ==
  \A w \in Work :
    work[w].pc \in {"previous", "store"} /\ work[w].open # {} =>
      work[w].computed.stage = "PROFILE_VERIFIED"

(* Only a provider has stays.                                                *)
StaysAreProviders == standing # "provider" => stays = 0

(* Somebody will compute the score again, or a computation was overtaken.    *)
Announced == excused \/ recomputes > 0 \/ \E w \in Work : work[w].pc = "send"

(* Two computations that cross are a known reason, and so is what a request  *)
(* or a job has read before the last event, unless that event is announced.  *)
CrossingIsExcused ==
  \A w, o \in Work : work[w].pc = "rescore" /\ work[o].pc = "rescore" /\ w # o => excused

(* A computation that works on figures of before is announced to be done     *)
(* again.                                                                    *)
OldReadIsAnnounced ==
  \A w \in Work :
    work[w].pc = "rescore" /\ ScoreOf(work[w].stays, work[w].against) # ScoreOf(stays, against)
      => Announced

(* What a job has read is not stored yet.                                    *)
JobsRescore == \A w \in Work : work[w].for = "job" => work[w].pc = "rescore"

(* The inductive invariant of the badges.                                    *)
BadgeInv == TrustTypeOK /\ KnownIsOpen /\ OpenWasCounted
(* The inductive invariant of the scores.                                    *)
ScoreParts == /\ StaysAreProviders /\ CrossingIsExcused /\ OldReadIsAnnounced
              /\ JobsRescore /\ StaleScoreIsExcused
ScoreInv == TrustTypeOK /\ ScoreParts

-----------------------------------------------------------------------------
(* A score is a score, none without stays.                                   *)
LEMMA ScoreIsScore == ASSUME NEW s \in Nat, NEW a \in Nat PROVE ScoreOf(s, a) \in Scores
<1> DEFINE total == s * StayPoints - a * AgainstPoints
<1>1. total \in Int
  BY TrustAssumption
<1>2. ScoreOf(s, a) = IF s = 0 THEN NoScore ELSE IF total < 0 THEN 0 ELSE IF total > 100 THEN 100 ELSE total
  BY DEF ScoreOf
<1> HIDE DEF total
<1> QED BY <1>1, <1>2 DEF Scores, NoScore

LEMMA NoStayNoScore == ASSUME NEW a PROVE ScoreOf(0, a) = NoScore
  BY DEF ScoreOf

(* A free slot is a slot.                                                    *)
LEMMA FreeIsItem == Free \in Item
<1>1. NoBadge \in Badge
  BY DEF NoBadge, Badge, Stages
<1>2. NoScore \in Scores
  BY DEF Scores, NoScore
<1> QED BY <1>1, <1>2, TrustAssumption DEF Free, Item

(* Every step keeps the types.                                               *)
LEMMA TrustTypeInit == TrustInit => TrustTypeOK
<1> SUFFICES ASSUME TrustInit PROVE TrustTypeOK
  OBVIOUS
<1>1. badge \in Badge
  BY DEF TrustInit, Badge, NoBadge, Stages
<1>2. score \in Scores
  BY DEF TrustInit, Scores, NoScore
<1>3. famous \in BOOLEAN /\ excused \in BOOLEAN /\ overlap \in BOOLEAN /\ repeated \in BOOLEAN
  BY Zenon DEF TrustInit
<1>4. work \in [Work -> Item] /\ report \in [Reports -> {"NONE", "PENDING", "CONFIRMED", "DISMISSED"}]
  BY FreeIsItem DEF TrustInit
<1>5. stays \in 0..MaxStays /\ against \in 0..MaxAgainst /\ recomputes \in 0..MaxRecomputes
  BY TrustAssumption DEF TrustInit
<1>6. standing \in {"new", "student", "provider"} /\ held \subseteq Stages
  BY DEF TrustInit
<1> QED
  BY <1>1, <1>2, <1>3, <1>4, <1>5, <1>6 DEF TrustTypeOK

(* Every step keeps the types.                                               *)
LEMMA TrustTypeStep == TrustTypeOK /\ [TrustNext]_trustVars => TrustTypeOK'
<1> SUFFICES ASSUME TrustTypeOK, [TrustNext]_trustVars PROVE TrustTypeOK'
  OBVIOUS
<1> USE TrustAssumption, FreeIsItem DEF TrustTypeOK
<1>1. ASSUME FollowersChange \/ Approve \/ ReportSomebody PROVE TrustTypeOK'
  <2>1. CASE FollowersChange
    BY <2>1, Zenon DEF FollowersChange, badges
  <2>2. CASE Approve
    BY <2>2 DEF Approve, badges
  <2>3. CASE ReportSomebody
    BY <2>3 DEF ReportSomebody, badges
  <2> QED BY <1>1, <2>1, <2>2, <2>3
<1>2. ASSUME NEW r \in Reports, ReportArrives(r) PROVE TrustTypeOK'
  BY <1>2 DEF ReportArrives, badges
<1>3. ASSUME NEW r \in Reports, ReportDismissed(r) PROVE TrustTypeOK'
  <2>1. \A w \in Work : [work[w] EXCEPT !.open = @ \ {r}] \in Item
    BY DEF Item
  <2>2. work' \in [Work -> Item]
    BY <1>3, <2>1 DEF ReportDismissed
  <2> QED BY <1>3, <2>2 DEF ReportDismissed, badges
<1>4. ASSUME NEW w \in Work, RecordEvent(w) PROVE TrustTypeOK'
  <2>1. [Free EXCEPT !.pc = "send"] \in Item
    BY DEF Item, Free
  <2> QED BY <1>4, <2>1 DEF RecordEvent, Take, badges
<1>5. ASSUME NEW w \in Work, SendRecompute(w) PROVE TrustTypeOK'
  BY <1>5 DEF SendRecompute, Drop, badges, inputs
<1>6. ASSUME NEW w \in Work, NEW r \in Reports, ConfirmReport(w, r) PROVE TrustTypeOK'
  <2>1. [Free EXCEPT !.pc = "commit", !.report = r] \in Item
    BY DEF Item, Free
  <2> QED BY <1>6, <2>1 DEF ConfirmReport, Take, badges, inputs
<1>7. ASSUME NEW w \in Work, ConfirmCommit(w) PROVE TrustTypeOK'
  <2>1. excused' \in BOOLEAN
    BY <1>7, Zenon DEF ConfirmCommit
  <2>2. against' \in 0..MaxAgainst
    BY <1>7 DEF ConfirmCommit
  <2> QED BY <1>7, <2>1, <2>2 DEF ConfirmCommit, Drop, badges
<1>8. ASSUME NEW w \in Work, JobRead(w) PROVE TrustTypeOK'
  <2>1. Snapshot([Free EXCEPT !.for = "job"]) \in Item
    BY DEF Item, Free, Snapshot
  <2> QED BY <1>8, <2>1 DEF JobRead, Take, badges, inputs
<1>9. ASSUME NEW w \in Work, GetScore(w) PROVE TrustTypeOK'
  <2> DEFINE i == [Free EXCEPT !.for = "score"]
  <2>1. Snapshot(i) \in Item /\ [i EXCEPT !.pc = "rescore"] \in Item
    BY DEF Item, Free, Snapshot
  <2> HIDE DEF i
  <2>2. work' \in [Work -> Item] /\ excused' \in BOOLEAN
    BY <1>9, <2>1 DEF GetScore, ScoreRead, i
  <2> QED BY <1>9, <2>2 DEF GetScore, badges, inputs
<1>10. ASSUME NEW w \in Work, Rescore(w) PROVE TrustTypeOK'
  <2>1. work[w] \in Item
    OBVIOUS
  <2>2. ScoreOf(work[w].stays, work[w].against) \in Scores
    BY <2>1, ScoreIsScore DEF Item
  <2> DEFINE new == ScoreOf(work[w].stays, work[w].against)
             n == [work[w] EXCEPT !.pc = "count", !.flagged = work[w].against > 0, !.stays = 0,
                     !.against = 0, !.score = IF @ = NoScore THEN new ELSE @]
  <2> HIDE DEF new
  <2>3. n \in Item
    <3>1. (work[w].against > 0) \in BOOLEAN
      BY <2>1, TrustAssumption DEF Item
    <3>2. (IF work[w].score = NoScore THEN new ELSE work[w].score) \in Scores
      BY <2>1, <2>2 DEF Item, new
    <3> DEFINE c == [work[w] EXCEPT !.pc = "count", !.flagged = work[w].against > 0]
               m == [c EXCEPT !.stays = 0, !.against = 0]
               x == IF work[w].score = NoScore THEN new ELSE work[w].score
    <3>3. c \in Item /\ c.score = work[w].score
      BY <2>1, <3>1 DEF Item
    <3>4. m \in Item /\ m.score = work[w].score
      <4> HIDE DEF c
      <4>1. 0 \in 0..MaxStays /\ 0 \in 0..MaxAgainst
        BY TrustAssumption
      <4>2. [c EXCEPT !.stays = 0] \in Item
        BY <3>3, <4>1 DEF Item
      <4>3. m \in Item
        BY <4>1, <4>2 DEF Item
      <4> QED BY <3>3, <4>3 DEF Item
    <3>5. [m EXCEPT !.score = x] \in Item
      <4> HIDE DEF m, x
      <4>1. x \in Scores
        BY <3>2 DEF x
      <4> QED BY <3>4, <4>1 DEF Item
    <3>6. n = [m EXCEPT !.score = x]
      BY <2>1, <3>4 DEF Item
    <3> QED BY <3>5, <3>6
  <2> HIDE DEF n
  <2>4. work' \in [Work -> Item]
    BY <1>10, <2>3 DEF Rescore, n, new
  <2> QED BY <1>10, <2>2, <2>4 DEF Rescore, badges, inputs
<1>11. ASSUME NEW w \in Work, StageRead(w) PROVE TrustTypeOK'
  <2> DEFINE i == [Free EXCEPT !.pc = "count", !.for = "stage", !.standing = standing,
                        !.famous = famous, !.score = score, !.open = OpenReports]
  <2>1. i \in Item
    BY DEF Item, Free, OpenReports
  <2>2. Snapshot(i) \in Item /\ [i EXCEPT !.pc = "rescore"] \in Item
    BY <2>1 DEF Item, Snapshot
  <2> HIDE DEF i
  <2>3. work' \in [Work -> Item] /\ excused' \in BOOLEAN
    BY <1>11, <2>1, <2>2 DEF StageRead, ScoreRead, i
  <2> QED BY <1>11, <2>3 DEF StageRead, inputs
<1>12. ASSUME NEW w \in Work, StageCount(w) PROVE TrustTypeOK'
  <2> DEFINE flagged == work[w].flagged \/ OpenReports # {}
  <2>1. work[w] \in Item
    OBVIOUS
  <2>2. [stage |-> StageOf(work[w].standing, work[w].famous, work[w].score, flagged),
         identity |-> work[w].standing # "new", risk |-> flagged] \in Badge
    BY <2>1 DEF Badge, Item, StageOf, Stages
  <2> DEFINE b == [stage |-> StageOf(work[w].standing, work[w].famous, work[w].score, flagged),
                   identity |-> work[w].standing # "new", risk |-> flagged]
             i == [Free EXCEPT !.pc = "previous", !.for = "stage", !.open = work[w].open, !.computed = b]
  <2>3. work' = [work EXCEPT ![w] = i]
    BY <1>12 DEF StageCount, Compute
  <2> HIDE DEF flagged, b
  <2>4. b \in Badge
    BY <2>2 DEF b
  <2>5. i \in Item
    BY <2>1, <2>4 DEF Item, Free
  <2> HIDE DEF i
  <2>6. work' \in [Work -> Item]
    BY <2>3, <2>5
  <2> QED BY <1>12, <2>6 DEF StageCount, badges, inputs
<1>13. ASSUME NEW w \in Work, StagePrevious(w) PROVE TrustTypeOK'
  <2>1. Awarded(badge, work[w].computed) \in BOOLEAN
    BY DEF Awarded
  <2>2. work' \in [Work -> Item]
    <3>1. [work[w] EXCEPT !.pc = "store", !.award = Awarded(badge, work[w].computed)] \in Item
      BY <2>1 DEF Item
    <3> QED BY <1>13, <3>1 DEF StagePrevious
  <2> QED BY <1>13, <2>2 DEF StagePrevious, badges, inputs
<1>14. ASSUME NEW w \in Work, StageStore(w) PROVE TrustTypeOK'
  <2>1. work[w].computed \in Badge /\ work[w].computed.stage \in Stages
    BY DEF Item, Badge
  <2> QED BY <1>14, <2>1 DEF StageStore, Drop, inputs
<1>15. ASSUME NEW w \in Work, TrustAbort(w) PROVE TrustTypeOK'
  BY <1>15 DEF TrustAbort, Drop, badges, inputs
<1>16. CASE UNCHANGED trustVars
  BY <1>16 DEF trustVars
<1> QED
  BY <1>1, <1>2, <1>3, <1>4, <1>5, <1>6, <1>7, <1>8, <1>9, <1>10, <1>11, <1>12, <1>13, <1>14,
     <1>15, <1>16 DEF TrustNext

-----------------------------------------------------------------------------
(* Badges *)

(* A step that replaces what one request remembers.                          *)
LEMMA OneRequestMoves ==
  ASSUME BadgeInv, NEW w \in Work, NEW x, work' = [work EXCEPT ![w] = x],
         OpenReports \subseteq OpenReports', x.open \subseteq OpenReports',
         x.pc \in {"previous", "store"} /\ x.open # {} => x.computed.stage = "PROFILE_VERIFIED"
  PROVE  KnownIsOpen' /\ OpenWasCounted'
<1>1. \A o \in Work : work'[o] = IF o = w THEN x ELSE work[o]
  BY DEF BadgeInv, TrustTypeOK
<1>2. KnownIsOpen'
  BY <1>1 DEF BadgeInv, KnownIsOpen
<1>3. OpenWasCounted'
  BY <1>1 DEF BadgeInv, OpenWasCounted
<1> QED BY <1>2, <1>3

(* Every step keeps what is known of the badges.                             *)
LEMMA BadgeStep == BadgeInv /\ [TrustNext]_trustVars => BadgeInv'
<1> SUFFICES ASSUME BadgeInv, [TrustNext]_trustVars PROVE KnownIsOpen' /\ OpenWasCounted'
  BY TrustTypeStep DEF BadgeInv
<1>0. /\ work \in [Work -> Item]
      /\ report \in [Reports -> {"NONE", "PENDING", "CONFIRMED", "DISMISSED"}]
  BY DEF BadgeInv, TrustTypeOK
<1>1. ASSUME FollowersChange \/ Approve \/ ReportSomebody PROVE KnownIsOpen' /\ OpenWasCounted'
  BY <1>1 DEF FollowersChange, Approve, ReportSomebody, BadgeInv, KnownIsOpen, OpenWasCounted,
              OpenReports
<1>2. ASSUME NEW r \in Reports, ReportArrives(r) PROVE KnownIsOpen' /\ OpenWasCounted'
  BY <1>0, <1>2 DEF ReportArrives, BadgeInv, KnownIsOpen, OpenWasCounted, OpenReports
<1>3. ASSUME NEW r \in Reports, ReportDismissed(r) PROVE KnownIsOpen' /\ OpenWasCounted'
  <2>1. \A w \in Work : /\ work'[w].open = work[w].open \ {r} /\ work'[w].pc = work[w].pc
                        /\ work'[w].computed = work[w].computed
    BY <1>0, <1>3 DEF ReportDismissed, Item
  <2>2. OpenReports' = OpenReports \ {r}
    BY <1>0, <1>3 DEF ReportDismissed, OpenReports
  <2> QED BY <2>1, <2>2 DEF BadgeInv, KnownIsOpen, OpenWasCounted
<1>4. ASSUME NEW w \in Work, RecordEvent(w) \/ SendRecompute(w) \/ TrustAbort(w)
      PROVE  KnownIsOpen' /\ OpenWasCounted'
  <2>1. PICK x : work' = [work EXCEPT ![w] = x] /\ x.open = {}
    BY <1>4 DEF RecordEvent, SendRecompute, TrustAbort, Take, Drop, Free
  <2>2. OpenReports' = OpenReports
    BY <1>4 DEF RecordEvent, SendRecompute, TrustAbort, OpenReports, inputs
  <2> QED BY <2>1, <2>2, OneRequestMoves
<1>5. ASSUME NEW w \in Work, NEW r \in Reports, ConfirmReport(w, r)
      PROVE  KnownIsOpen' /\ OpenWasCounted'
  <2>1. PICK x : work' = [work EXCEPT ![w] = x] /\ x.open = {}
    <3> DEFINE x == [Free EXCEPT !.pc = "commit", !.report = r]
    <3>1. x.open = {}
      BY DEF Free
    <3> QED BY <1>5, <3>1 DEF ConfirmReport, Take
  <2>2. OpenReports' = OpenReports
    BY <1>5 DEF ConfirmReport, OpenReports, inputs
  <2> QED BY <2>1, <2>2, OneRequestMoves
<1>6. ASSUME NEW w \in Work, ConfirmCommit(w) PROVE KnownIsOpen' /\ OpenWasCounted'
  <2>1. work' = [work EXCEPT ![w] = Free] /\ Free.open = {}
    BY <1>6 DEF ConfirmCommit, Drop, Free
  <2>2. OpenReports \subseteq OpenReports'
    BY <1>0, <1>6 DEF ConfirmCommit, OpenReports
  <2> QED BY <2>1, <2>2, OneRequestMoves
<1>7. ASSUME NEW w \in Work, JobRead(w) \/ GetScore(w) PROVE KnownIsOpen' /\ OpenWasCounted'
  <2>1. PICK x : work' = [work EXCEPT ![w] = x] /\ x.open = {}
    <3> DEFINE j == Snapshot([Free EXCEPT !.for = "job"])
               i == [Free EXCEPT !.for = "score"]
               s == Snapshot(i)
               n == [i EXCEPT !.pc = "rescore"]
    <3>1. j.open = {} /\ s.open = {} /\ n.open = {} /\ Free.open = {}
      BY DEF Free, Snapshot
    <3>2. CASE JobRead(w)
      <4> HIDE DEF j
      <4> QED BY <3>1, <3>2 DEF JobRead, Take, j
    <3>3. CASE GetScore(w)
      <4>1. \/ work' = [work EXCEPT ![w] = Free] \/ work' = [work EXCEPT ![w] = s]
            \/ work' = [work EXCEPT ![w] = n]
        BY <3>3 DEF GetScore, ScoreRead
      <4> HIDE DEF s, n
      <4> QED BY <3>1, <4>1
    <3> QED BY <1>7, <3>2, <3>3
  <2>2. OpenReports' = OpenReports
    BY <1>7 DEF JobRead, GetScore, OpenReports, inputs
  <2> QED BY <2>1, <2>2, OneRequestMoves
<1>8. ASSUME NEW w \in Work, Rescore(w) PROVE KnownIsOpen' /\ OpenWasCounted'
  <2>1. PICK x : /\ work' = [work EXCEPT ![w] = x] /\ x.open \subseteq work[w].open
                 /\ x.pc \in {"count", "idle"}
    <3> DEFINE x == work'[w]
    <3>1. work' = [work EXCEPT ![w] = x]
      BY <1>0, <1>8 DEF Rescore
    <3>2. x.open \subseteq work[w].open /\ x.pc \in {"count", "idle"}
      <4>1. CASE work[w].for = "stage"
        BY <1>0, <1>8, <4>1 DEF Rescore, Item
      <4>2. CASE work[w].for # "stage"
        BY <1>0, <1>8, <4>2 DEF Rescore, Free
      <4> QED BY <4>1, <4>2
    <3> QED BY <3>1, <3>2
  <2>2. OpenReports' = OpenReports
    BY <1>8 DEF Rescore, OpenReports, inputs
  <2>3. work[w].open \subseteq OpenReports
    BY DEF BadgeInv, KnownIsOpen
  <2> QED BY <2>1, <2>2, <2>3, OneRequestMoves
<1>9. ASSUME NEW w \in Work, StageRead(w) PROVE KnownIsOpen' /\ OpenWasCounted'
  <2>1. PICK x : /\ work' = [work EXCEPT ![w] = x] /\ x.open = OpenReports
                 /\ x.pc \in {"count", "rescore"}
    <3> DEFINE i == [Free EXCEPT !.pc = "count", !.for = "stage", !.standing = standing,
                        !.famous = famous, !.score = score, !.open = OpenReports]
               s == Snapshot(i)
               n == [i EXCEPT !.pc = "rescore"]
    <3>1. i.open = OpenReports /\ i.pc = "count"
      BY DEF Free
    <3>2. s.open = i.open /\ n.open = i.open /\ s.pc = "rescore" /\ n.pc = "rescore"
      BY DEF Snapshot, Free
    <3>3. \/ work' = [work EXCEPT ![w] = i] \/ work' = [work EXCEPT ![w] = s]
          \/ work' = [work EXCEPT ![w] = n]
      BY <1>9 DEF StageRead, ScoreRead
    <3> HIDE DEF i, s, n
    <3> QED BY <3>1, <3>2, <3>3
  <2>2. OpenReports' = OpenReports
    BY <1>9 DEF StageRead, OpenReports, inputs
  <2> QED BY <2>1, <2>2, OneRequestMoves
<1>10. ASSUME NEW w \in Work, StageCount(w) PROVE KnownIsOpen' /\ OpenWasCounted'
  <2> DEFINE flagged == work[w].flagged \/ OpenReports # {}
  <2>1. PICK x : /\ work' = [work EXCEPT ![w] = x] /\ x.open = work[w].open
                 /\ x.computed.stage = StageOf(work[w].standing, work[w].famous, work[w].score, flagged)
    <3> DEFINE c == [stage |-> StageOf(work[w].standing, work[w].famous, work[w].score, flagged),
                     identity |-> work[w].standing # "new", risk |-> flagged]
               x == [Free EXCEPT !.pc = "previous", !.for = "stage", !.open = work[w].open, !.computed = c]
    <3>1. work' = [work EXCEPT ![w] = x]
      BY <1>10 DEF StageCount, Compute
    <3>2. x.open = work[w].open /\ x.computed = c
      <4> HIDE DEF c
      <4> QED BY DEF Free
    <3>3. c.stage = StageOf(work[w].standing, work[w].famous, work[w].score, flagged)
      OBVIOUS
    <3> HIDE DEF c, x
    <3> QED BY <3>1, <3>2, <3>3
  <2>2. OpenReports' = OpenReports
    BY <1>10 DEF StageCount, OpenReports, inputs
  <2>3. work[w].open \subseteq OpenReports
    BY DEF BadgeInv, KnownIsOpen
  <2>4. x.open # {} => x.computed.stage = "PROFILE_VERIFIED"
    BY <2>1, <2>3 DEF StageOf
  <2> QED BY <2>1, <2>2, <2>3, <2>4, OneRequestMoves
<1>11. ASSUME NEW w \in Work, StagePrevious(w) PROVE KnownIsOpen' /\ OpenWasCounted'
  <2>1. PICK x : /\ work' = [work EXCEPT ![w] = x] /\ x.open = work[w].open
                 /\ x.computed = work[w].computed
    <3> DEFINE a == Awarded(badge, work[w].computed)
               y == [work[w] EXCEPT !.pc = "store", !.award = a]
    <3>1. work' = [work EXCEPT ![w] = y]
      BY <1>0, <1>11 DEF StagePrevious
    <3>2. y.open = work[w].open /\ y.computed = work[w].computed
      BY <1>0 DEF Item
    <3> QED BY <3>1, <3>2
  <2>2. OpenReports' = OpenReports
    BY <1>11 DEF StagePrevious, OpenReports, inputs
  <2>3. work[w].open \subseteq OpenReports /\ work[w].pc = "previous"
    BY <1>11 DEF BadgeInv, KnownIsOpen, StagePrevious
  <2>4. x.open # {} => x.computed.stage = "PROFILE_VERIFIED"
    BY <2>1, <2>3 DEF BadgeInv, OpenWasCounted
  <2> QED BY <2>1, <2>2, <2>3, <2>4, OneRequestMoves
<1>12. ASSUME NEW w \in Work, StageStore(w) PROVE KnownIsOpen' /\ OpenWasCounted'
  <2>1. work' = [work EXCEPT ![w] = Free] /\ Free.open = {}
    BY <1>12 DEF StageStore, Drop, Free
  <2>2. OpenReports' = OpenReports
    BY <1>12 DEF StageStore, OpenReports, inputs
  <2> QED BY <2>1, <2>2, OneRequestMoves
<1>13. CASE UNCHANGED trustVars
  BY <1>13 DEF trustVars, BadgeInv, KnownIsOpen, OpenWasCounted, OpenReports
<1> QED
  BY <1>1, <1>2, <1>3, <1>4, <1>5, <1>6, <1>7, <1>8, <1>9, <1>10, <1>11, <1>12, <1>13 DEF TrustNext

(* What is known of the badges holds always.                                 *)
LEMMA BadgeInvariance == TrustSpec => []BadgeInv
<1>1. TrustInit => BadgeInv
  <2> SUFFICES ASSUME TrustInit PROVE KnownIsOpen /\ OpenWasCounted
    BY TrustTypeInit DEF BadgeInv
  <2> QED BY DEF TrustInit, KnownIsOpen, OpenWasCounted, Free
<1> QED BY <1>1, BadgeStep, PTL DEF TrustSpec

(* Of any number of computations, reports and reviews, none raises a badge   *)
(* while a report it could have seen is open (trust.service.ts               *)
(* getVerificationStage).                                                    *)
THEOREM NoBadgeRisesUnderReport == TrustSpec => NoRiseUnderReport
<1>1. BadgeInv /\ [TrustNext]_trustVars =>
        [\A w \in Work :
           work[w].pc = "store" /\ work'[w].pc = "idle" /\ badge' # badge
             /\ work[w].open \cap OpenReports # {} => badge'.stage = "PROFILE_VERIFIED"]_trustVars
  <2> SUFFICES ASSUME BadgeInv, TrustNext, NEW w \in Work, work[w].pc = "store",
                      work'[w].pc = "idle", badge' # badge, work[w].open # {}
               PROVE  badge'.stage = "PROFILE_VERIFIED"
    BY DEF trustVars
  <2>1. PICK o \in Work : StageStore(o)
    BY DEF TrustNext, FollowersChange, Approve, ReportSomebody, ReportArrives, ReportDismissed,
           RecordEvent, SendRecompute, ConfirmReport, ConfirmCommit, JobRead, GetScore, Rescore,
           StageRead, StageCount, StagePrevious, TrustAbort, badges
  <2>2. work' = [work EXCEPT ![o] = Free] /\ badge' = work[o].computed
    BY <2>1 DEF StageStore, Drop
  <2>3. o = w
    BY <2>2 DEF BadgeInv, TrustTypeOK
  <2> QED BY <2>2, <2>3 DEF BadgeInv, OpenWasCounted
<1> QED BY <1>1, BadgeInvariance, PTL DEF TrustSpec, NoRiseUnderReport

-----------------------------------------------------------------------------
(* Scores *)

(* With a known reason, or a job that waits, there is little left to show.   *)
LEMMA AnnouncedSuffices ==
  ASSUME ScoreInv, Announced', StaysAreProviders', CrossingIsExcused', JobsRescore'
  PROVE  ScoreParts'
<1>1. OldReadIsAnnounced'
  BY DEF OldReadIsAnnounced
<1>2. StaleScoreIsExcused'
  BY DEF Announced, StaleScoreIsExcused
<1> QED BY <1>1, <1>2 DEF ScoreParts

(* A request that ends, or goes on elsewhere, and owed nothing to the score. *)
LEMMA QuietRequest ==
  ASSUME ScoreInv, NEW w \in Work, NEW x, work' = [work EXCEPT ![w] = x],
         x.pc # "rescore", x.for # "job", work[w].pc \notin {"send", "rescore"},
         UNCHANGED <<standing, stays, against, score, recomputes, excused>>
  PROVE  ScoreParts'
<1>1. \A o \in Work : work'[o] = IF o = w THEN x ELSE work[o]
  BY DEF ScoreInv, TrustTypeOK
<1>2. StaysAreProviders' /\ CrossingIsExcused' /\ JobsRescore'
  BY <1>1 DEF ScoreInv, ScoreParts, StaysAreProviders, CrossingIsExcused, JobsRescore
<1>3. Announced => Announced'
  BY <1>1 DEF Announced
<1>4. OldReadIsAnnounced'
  BY <1>1, <1>3 DEF ScoreInv, ScoreParts, OldReadIsAnnounced
<1>5. StaleScoreIsExcused'
  <2> SUFFICES ASSUME score # ScoreOf(stays, against)
               PROVE  excused \/ recomputes > 0 \/ \E o \in Work : work'[o].pc = "send" \/ work'[o].for = "job"
    BY DEF StaleScoreIsExcused
  <2>1. excused \/ recomputes > 0 \/ \E o \in Work : work[o].pc = "send" \/ work[o].for = "job"
    BY DEF ScoreInv, ScoreParts, StaleScoreIsExcused
  <2>2. work[w].pc # "send" /\ work[w].for # "job"
    BY DEF ScoreInv, ScoreParts, JobsRescore
  <2> QED BY <1>1, <2>1, <2>2
<1> QED BY <1>2, <1>4, <1>5 DEF ScoreParts

(* A request or a job that begins to compute from the events of now, when    *)
(* nobody else does; a job is taken from the queue.                          *)
LEMMA FreshRead ==
  ASSUME ScoreInv, NEW w \in Work, NEW x, work' = [work EXCEPT ![w] = x], work[w].pc = "idle",
         x.pc = "rescore", ScoreOf(x.stays, x.against) = ScoreOf(stays, against),
         UNCHANGED <<standing, stays, against, score>>,
         excused' = (excused \/ Rescoring # {}),
         x.for = "job" \/ UNCHANGED recomputes
  PROVE  ScoreParts'
<1>1. \A o \in Work : work'[o] = IF o = w THEN x ELSE work[o]
  BY DEF ScoreInv, TrustTypeOK
<1>2. StaysAreProviders' /\ JobsRescore'
  BY <1>1 DEF ScoreInv, ScoreParts, StaysAreProviders, JobsRescore
<1>3. \A o \in Work : o # w /\ work[o].pc = "rescore" => excused'
  BY DEF Rescoring
<1>4. CrossingIsExcused'
  BY <1>1, <1>3 DEF CrossingIsExcused
<1>5. OldReadIsAnnounced'
  BY <1>1, <1>3 DEF OldReadIsAnnounced, Announced
<1>6. StaleScoreIsExcused'
  <2> SUFFICES ASSUME score # ScoreOf(stays, against), x.for # "job"
               PROVE  excused' \/ recomputes > 0 \/ \E o \in Work : work'[o].pc = "send" \/ work'[o].for = "job"
    BY <1>1 DEF StaleScoreIsExcused
  <2>1. excused \/ recomputes > 0 \/ \E o \in Work : work[o].pc = "send" \/ work[o].for = "job"
    BY DEF ScoreInv, ScoreParts, StaleScoreIsExcused
  <2>2. work[w].pc # "send" /\ work[w].for # "job"
    BY DEF ScoreInv, ScoreParts, JobsRescore
  <2> QED BY <1>1, <2>1, <2>2
<1> QED BY <1>2, <1>4, <1>5, <1>6 DEF ScoreParts

(* What getTrustScore reads: the cached score, or events that are current.   *)
LEMMA ReadScoreStep ==
  ASSUME ScoreInv, NEW w \in Work, NEW i \in Item, NEW cached, ScoreRead(w, i, cached),
         work[w].pc = "idle", i.stays = 0, i.against = 0, cached.pc # "rescore",
         cached.for # "job",
         UNCHANGED <<standing, stays, against, score, recomputes>>
  PROVE  ScoreParts'
<1>1. CASE standing = "provider" /\ score # NoScore
  BY <1>1, QuietRequest DEF ScoreRead
<1>2. CASE standing = "provider" /\ score = NoScore
  <2> DEFINE s == Snapshot(i)
  <2>1. s.pc = "rescore" /\ s.stays = stays /\ s.against = against
    BY DEF Snapshot, Item
  <2>2. work' = [work EXCEPT ![w] = s] /\ excused' = (excused \/ Rescoring # {})
    BY <1>2 DEF ScoreRead
  <2> HIDE DEF s
  <2> QED BY <2>1, <2>2, FreshRead
<1>3. CASE standing # "provider"
  <2> DEFINE n == [i EXCEPT !.pc = "rescore"]
  <2>1. n.pc = "rescore" /\ n.stays = 0 /\ n.against = 0
    BY DEF Item
  <2>2. work' = [work EXCEPT ![w] = n] /\ excused' = (excused \/ Rescoring # {})
    BY <1>3 DEF ScoreRead
  <2>3. stays = 0
    BY <1>3 DEF ScoreInv, ScoreParts, StaysAreProviders
  <2> HIDE DEF n
  <2>4. ScoreOf(n.stays, n.against) = ScoreOf(stays, against)
    BY <2>1, <2>3, NoStayNoScore
  <2> QED BY <2>1, <2>2, <2>4, FreshRead
<1> QED BY <1>1, <1>2, <1>3

(* Every step keeps what is known of the scores.                             *)
LEMMA ScoreStep == ScoreInv /\ [TrustNext]_trustVars => ScoreInv'
<1> SUFFICES ASSUME ScoreInv, [TrustNext]_trustVars PROVE ScoreParts'
  BY TrustTypeStep DEF ScoreInv
<1>0. /\ work \in [Work -> Item] /\ recomputes \in Nat /\ stays \in Nat
      /\ StaysAreProviders /\ CrossingIsExcused /\ OldReadIsAnnounced /\ JobsRescore
      /\ StaleScoreIsExcused
  BY DEF ScoreInv, ScoreParts, TrustTypeOK
<1>1. ASSUME FollowersChange \/ Approve PROVE ScoreParts'
  BY <1>0, <1>1 DEF FollowersChange, Approve, ScoreParts, StaysAreProviders, CrossingIsExcused,
                    OldReadIsAnnounced, JobsRescore, StaleScoreIsExcused, Announced
<1>2. ASSUME ReportSomebody PROVE ScoreParts'
  BY <1>0, <1>2 DEF ReportSomebody, ScoreParts, StaysAreProviders, CrossingIsExcused,
                    OldReadIsAnnounced, JobsRescore, StaleScoreIsExcused, Announced
<1>3. ASSUME NEW r \in Reports, ReportArrives(r) \/ ReportDismissed(r) PROVE ScoreParts'
  <2>1. \A w \in Work : /\ work'[w].pc = work[w].pc /\ work'[w].for = work[w].for
                        /\ work'[w].stays = work[w].stays /\ work'[w].against = work[w].against
    BY <1>0, <1>3 DEF ReportArrives, ReportDismissed, Item
  <2>2. UNCHANGED <<standing, stays, against, score, recomputes, excused>>
    BY <1>3 DEF ReportArrives, ReportDismissed
  <2> QED BY <1>0, <2>1, <2>2 DEF ScoreParts, StaysAreProviders, CrossingIsExcused,
                    OldReadIsAnnounced, JobsRescore, StaleScoreIsExcused, Announced
<1>4. ASSUME NEW w \in Work, RecordEvent(w) PROVE ScoreParts'
  <2> DEFINE x == [Free EXCEPT !.pc = "send"]
  <2>1. x.pc = "send" /\ x.for = "none"
    BY DEF Free
  <2>2. work' = [work EXCEPT ![w] = x]
    BY <1>4 DEF RecordEvent, Take
  <2> HIDE DEF x
  <2>3. \A o \in Work : work'[o] = IF o = w THEN x ELSE work[o]
    BY <1>0, <2>2
  <2>4. StaysAreProviders' /\ CrossingIsExcused' /\ JobsRescore' /\ Announced'
    BY <1>0, <1>4, <2>1, <2>3 DEF RecordEvent, StaysAreProviders, CrossingIsExcused, JobsRescore,
                                  Announced
  <2> QED BY <2>4, AnnouncedSuffices
<1>5. ASSUME NEW w \in Work, SendRecompute(w) PROVE ScoreParts'
  <2>1. \A o \in Work : work'[o] = IF o = w THEN Free ELSE work[o]
    BY <1>0, <1>5 DEF SendRecompute, Drop
  <2>2. StaysAreProviders' /\ CrossingIsExcused' /\ JobsRescore' /\ Announced'
    BY <1>0, <1>5, <2>1 DEF SendRecompute, inputs, Free, StaysAreProviders, CrossingIsExcused,
                            JobsRescore, Announced
  <2> QED BY <2>2, AnnouncedSuffices
<1>6. ASSUME NEW w \in Work, NEW r \in Reports, ConfirmReport(w, r) PROVE ScoreParts'
  <2> DEFINE x == [Free EXCEPT !.pc = "commit", !.report = r]
  <2>1. x.pc = "commit" /\ x.for = "none"
    BY DEF Free
  <2>2. work' = [work EXCEPT ![w] = x]
    BY <1>6 DEF ConfirmReport, Take
  <2> HIDE DEF x
  <2>3. \A o \in Work : work'[o] = IF o = w THEN x ELSE work[o]
    BY <1>0, <2>2
  <2>4. StaysAreProviders' /\ CrossingIsExcused' /\ JobsRescore' /\ Announced'
    BY <1>0, <1>6, <2>1, <2>3 DEF ConfirmReport, inputs, StaysAreProviders, CrossingIsExcused,
                                  JobsRescore, Announced
  <2> QED BY <2>4, AnnouncedSuffices
<1>7. ASSUME NEW w \in Work, ConfirmCommit(w) PROVE ScoreParts'
  <2>1. \A o \in Work : work'[o] = IF o = w THEN Free ELSE work[o]
    BY <1>0, <1>7 DEF ConfirmCommit, Drop
  <2>4. /\ UNCHANGED <<standing, stays, recomputes>>
        /\ (excused \/ recomputes = 0) => excused'
    BY <1>7, Zenon DEF ConfirmCommit
  <2>2. Announced'
    BY <1>0, <2>4 DEF Announced
  <2>3. StaysAreProviders' /\ CrossingIsExcused' /\ JobsRescore'
    BY <1>0, <2>1, <2>4 DEF Free, StaysAreProviders, CrossingIsExcused, JobsRescore
  <2> QED BY <2>2, <2>3, AnnouncedSuffices
<1>8. ASSUME NEW w \in Work, JobRead(w) PROVE ScoreParts'
  <2> DEFINE x == Snapshot([Free EXCEPT !.for = "job"])
  <2>1. x.pc = "rescore" /\ x.for = "job" /\ x.stays = stays /\ x.against = against
    BY DEF Free, Snapshot
  <2>2. work' = [work EXCEPT ![w] = x] /\ work[w].pc = "idle"
    BY <1>8 DEF JobRead, Take
  <2>3. /\ excused' = (excused \/ Rescoring # {})
        /\ UNCHANGED <<standing, stays, against, score>>
    BY <1>8 DEF JobRead, inputs
  <2> HIDE DEF x
  <2> QED BY <2>1, <2>2, <2>3, FreshRead
<1>9. ASSUME NEW w \in Work, GetScore(w) PROVE ScoreParts'
  <2> DEFINE i == [Free EXCEPT !.for = "score"]
  <2>1. i \in Item /\ i.stays = 0 /\ i.against = 0
    BY FreeIsItem DEF Free, Item
  <2>2. Free.pc # "rescore" /\ Free.for # "job"
    BY DEF Free
  <2>3. ScoreRead(w, i, Free) /\ work[w].pc = "idle"
    BY <1>9 DEF GetScore
  <2>4. UNCHANGED <<standing, stays, against, score, recomputes>>
    BY <1>9 DEF GetScore, inputs
  <2> HIDE DEF i
  <2> QED BY <2>1, <2>2, <2>3, <2>4, ReadScoreStep
<1>10. ASSUME NEW w \in Work, StageRead(w) PROVE ScoreParts'
  <2> DEFINE i == [Free EXCEPT !.pc = "count", !.for = "stage", !.standing = standing,
                        !.famous = famous, !.score = score, !.open = OpenReports]
  <2>1. i \in Item /\ i.stays = 0 /\ i.against = 0 /\ i.pc = "count" /\ i.for = "stage"
    <3>1. OpenReports \subseteq Reports
      BY DEF OpenReports
    <3>2. i.stays = 0 /\ i.against = 0 /\ i.pc = "count" /\ i.for = "stage"
      BY DEF Free
    <3>3. i \in Item
      BY FreeIsItem, <3>1 DEF Free, Item, ScoreInv, TrustTypeOK
    <3> QED BY <3>2, <3>3
  <2>3. ScoreRead(w, i, i) /\ work[w].pc = "idle"
    BY <1>10 DEF StageRead
  <2>4. UNCHANGED <<standing, stays, against, score, recomputes>>
    BY <1>10 DEF StageRead, inputs
  <2> HIDE DEF i
  <2> QED BY <2>1, <2>3, <2>4, ReadScoreStep
<1>11. ASSUME NEW w \in Work, Rescore(w) PROVE ScoreParts'
  <2> DEFINE x == work'[w]
             new == ScoreOf(work[w].stays, work[w].against)
             now == ScoreOf(stays, against)
  <2>1. \A o \in Work : work'[o] = IF o = w THEN x ELSE work[o]
    BY <1>0, <1>11 DEF Rescore
  <2>2. x.pc # "rescore" /\ x.for # "job"
    <3>1. CASE work[w].for = "stage"
      BY <1>0, <1>11, <3>1 DEF Rescore, Item
    <3>2. CASE work[w].for # "stage"
      BY <1>0, <1>11, <3>2 DEF Rescore, Free
    <3> QED BY <3>1, <3>2
  <2>3. work[w].pc = "rescore" /\ UNCHANGED <<standing, stays, against, recomputes>>
    BY <1>11 DEF Rescore, inputs
  <2>4. score' = new /\ excused' = (excused /\ (new # now \/ Rescoring # {w}))
    BY <1>11 DEF Rescore
  <2> HIDE DEF x, new
  <2>5. \A o \in Work : o # w /\ work[o].pc = "rescore" => (excused' <=> excused) /\ excused
    BY <1>0, <2>3, <2>4 DEF Rescoring, CrossingIsExcused
  <2>6. StaysAreProviders' /\ CrossingIsExcused' /\ JobsRescore'
    BY <1>0, <2>1, <2>2, <2>3, <2>5 DEF StaysAreProviders, CrossingIsExcused, JobsRescore
  <2>7. OldReadIsAnnounced'
    BY <1>0, <2>1, <2>2, <2>5 DEF OldReadIsAnnounced, Announced
  <2>8. StaleScoreIsExcused'
    <3> SUFFICES ASSUME new # now PROVE StaleScoreIsExcused'
      BY <2>3, <2>4 DEF StaleScoreIsExcused
    <3>1. Announced
      BY <1>0, <2>3 DEF OldReadIsAnnounced, new
    <3>2. Announced'
      BY <2>1, <2>3, <2>4, <3>1 DEF Announced
    <3> QED BY <3>2 DEF Announced, StaleScoreIsExcused
  <2> QED BY <2>6, <2>7, <2>8 DEF ScoreParts
<1>12. ASSUME NEW w \in Work, StageCount(w) PROVE ScoreParts'
  <2> DEFINE c == [stage |-> StageOf(work[w].standing, work[w].famous, work[w].score,
                                     work[w].flagged \/ OpenReports # {}),
                   identity |-> work[w].standing # "new",
                   risk |-> work[w].flagged \/ OpenReports # {}]
             x == [Free EXCEPT !.pc = "previous", !.for = "stage", !.open = work[w].open, !.computed = c]
  <2>1. work' = [work EXCEPT ![w] = x]
    BY <1>12 DEF StageCount, Compute
  <2>2. x.pc = "previous" /\ x.for = "stage"
    <3> HIDE DEF c
    <3> QED BY DEF Free
  <2> HIDE DEF x
  <2> QED BY <1>12, <2>1, <2>2, QuietRequest DEF StageCount, inputs
<1>13. ASSUME NEW w \in Work, StagePrevious(w) PROVE ScoreParts'
  <2> DEFINE a == Awarded(badge, work[w].computed)
             x == [work[w] EXCEPT !.pc = "store", !.award = a]
  <2>1. work' = [work EXCEPT ![w] = x]
    BY <1>0, <1>13 DEF StagePrevious
  <2>2. x.pc = "store" /\ x.for = work[w].for
    BY <1>0 DEF Item
  <2>3. work[w].pc = "previous" /\ work[w].for # "job"
    BY <1>0, <1>13 DEF StagePrevious, JobsRescore
  <2> HIDE DEF x
  <2> QED BY <1>13, <2>1, <2>2, <2>3, QuietRequest DEF StagePrevious, inputs
<1>14. ASSUME NEW w \in Work, StageStore(w) PROVE ScoreParts'
  <2>1. work' = [work EXCEPT ![w] = Free] /\ Free.pc # "rescore" /\ Free.for # "job"
    BY <1>14 DEF StageStore, Drop, Free
  <2> QED BY <1>14, <2>1, QuietRequest DEF StageStore, inputs
<1>15. ASSUME NEW w \in Work, TrustAbort(w) PROVE ScoreParts'
  <2>1. work' = [work EXCEPT ![w] = Free] /\ Free.pc # "rescore" /\ Free.for # "job"
    BY <1>15 DEF TrustAbort, Drop, Free
  <2>2. \A o \in Work : work'[o] = IF o = w THEN Free ELSE work[o]
    BY <1>0, <2>1
  <2>3. StaysAreProviders' /\ CrossingIsExcused' /\ JobsRescore'
    BY <1>0, <1>15, <2>1, <2>2 DEF TrustAbort, inputs, StaysAreProviders, CrossingIsExcused,
                                   JobsRescore
  <2>4. CASE work[w].pc = "send" \/ work[w].for = "job"
    BY <1>15, <2>3, <2>4, AnnouncedSuffices DEF TrustAbort, Announced
  <2>5. CASE work[w].pc # "send" /\ work[w].for # "job"
    <3>1. excused' <=> excused
      BY <1>15, <2>5 DEF TrustAbort
    <3>2. UNCHANGED <<standing, stays, against, score, recomputes>>
      BY <1>15 DEF TrustAbort, inputs
    <3>3. OldReadIsAnnounced'
      BY <1>0, <2>1, <2>2, <2>5, <3>1, <3>2 DEF OldReadIsAnnounced, Announced
    <3>4. StaleScoreIsExcused'
      BY <1>0, <2>1, <2>2, <2>5, <3>1, <3>2 DEF StaleScoreIsExcused
    <3> QED BY <2>3, <3>3, <3>4 DEF ScoreParts
  <2> QED BY <2>4, <2>5
<1>16. CASE UNCHANGED trustVars
  BY <1>0, <1>16 DEF trustVars, ScoreParts, StaysAreProviders, CrossingIsExcused,
                    OldReadIsAnnounced, JobsRescore, StaleScoreIsExcused, Announced
<1> QED
  BY <1>1, <1>2, <1>3, <1>4, <1>5, <1>6, <1>7, <1>8, <1>9, <1>10, <1>11, <1>12, <1>13, <1>14,
     <1>15, <1>16 DEF TrustNext

(* What is known of the scores holds always.                                 *)
LEMMA ScoreInvariance == TrustSpec => []ScoreInv
<1>1. TrustInit => ScoreInv
  <2> SUFFICES ASSUME TrustInit PROVE ScoreParts
    BY TrustTypeInit DEF ScoreInv
  <2>1. \A w \in Work : work[w].pc = "idle" /\ work[w].for = "none"
    BY DEF TrustInit, Free
  <2>2. stays = 0 /\ score = ScoreOf(stays, against)
    BY NoStayNoScore DEF TrustInit
  <2> QED BY <2>1, <2>2 DEF ScoreParts, StaysAreProviders, CrossingIsExcused,
                            OldReadIsAnnounced, JobsRescore, StaleScoreIsExcused
<1> QED BY <1>1, ScoreStep, PTL DEF TrustSpec

(* The tables of trust keep their types (trust.service.ts).                  *)
THEOREM TrustTypeCorrect == TrustSpec => []TrustTypeOK
<1>1. BadgeInv => TrustTypeOK
  BY DEF BadgeInv
<1> QED BY <1>1, BadgeInvariance, PTL

(* However many jobs and requests compute a score while events come, a score *)
(* that lacks some is about to be computed again, or it is known why not     *)
(* (trust.service.ts recomputeScore).                                        *)
THEOREM StaleScoresAreExcused == TrustSpec => []StaleScoreIsExcused
<1>1. ScoreInv => StaleScoreIsExcused
  BY DEF ScoreInv, ScoreParts
<1> QED BY <1>1, ScoreInvariance, PTL

-----------------------------------------------------------------------------
(* Verification.                                                             *)

(* A review carries a verdict: what it will write is never PENDING again. *)
Verdict == {"APPROVED", "REJECTED"}
ReviewsCarryVerdicts ==
  \A s \in Slots :
    slot[s].pc \in {"profileReview", "pageReview", "profileDecide", "pageDecide"} =>
      slot[s].outcome \in Verdict /\ slot[s].sub \in Submissions

(* The inductive invariant. *)
IInv == VerificationTypeOK /\ ReviewsCarryVerdicts /\ NeverBothUnderReview

-----------------------------------------------------------------------------
USE DEF account, reviews

(* A request starts on what it has read, goes on, or ends; no row changes. *)
LEMMA SlotStep ==
  ASSUME IInv, NEW s \in Slots, UNCHANGED <<account, reviews, identityEvents>>,
         \/ \E r \in Request :
              /\ Start(s, r)
              /\ r.pc \in {"profileReview", "pageReview", "profileDecide", "pageDecide"}
                   => r.outcome \in Verdict /\ r.sub \in Submissions
         \/ Finish(s)
         \/ /\ slot[s].pc = "profileReview"
            /\ Goto(s, "profileDecide")
         \/ /\ slot[s].pc = "pageReview"
            /\ Goto(s, "pageDecide")
  PROVE  IInv'
<1>1. NeverBothUnderReview'
  BY DEF IInv, NeverBothUnderReview
<1>2. slot[s] \in Request
  BY DEF IInv, VerificationTypeOK
<1>3. Idle \in Request
  BY VerificationAssumption DEF Idle, Request, Pc, Decision
<1>4. \E r \in Request :
        /\ slot' = [slot EXCEPT ![s] = r]
        /\ r.pc \in {"profileReview", "pageReview", "profileDecide", "pageDecide"}
             => r.outcome \in Verdict /\ r.sub \in Submissions
  <2>1. CASE Finish(s)
    BY <2>1, <1>3 DEF Finish, Idle
  <2>2. ASSUME NEW pc \in {"profileDecide", "pageDecide"}, Goto(s, pc),
               slot[s].pc \in {"profileReview", "pageReview"}
        PROVE  slot' = [slot EXCEPT ![s] = [slot[s] EXCEPT !.pc = pc]]
               /\ [slot[s] EXCEPT !.pc = pc] \in Request
    BY <2>2, <1>2 DEF Goto, Request, Pc, IInv, VerificationTypeOK
  <2>3. slot[s].pc \in {"profileReview", "pageReview"} =>
          slot[s].outcome \in Verdict /\ slot[s].sub \in Submissions
    BY DEF IInv, ReviewsCarryVerdicts
  <2>4. CASE \E pc \in {"profileDecide", "pageDecide"} :
               Goto(s, pc) /\ slot[s].pc \in {"profileReview", "pageReview"}
    BY <2>2, <2>3, <2>4, <1>2 DEF Request
  <2>5. CASE \E r \in Request :
               /\ Start(s, r)
               /\ r.pc \in {"profileReview", "pageReview", "profileDecide", "pageDecide"}
                    => r.outcome \in Verdict /\ r.sub \in Submissions
    BY <2>5 DEF Start
  <2> QED BY <2>1, <2>4, <2>5
<1>5. VerificationTypeOK'
  <2>1. overlapped' \in BOOLEAN
    BY DEF IInv, VerificationTypeOK, Start, Finish, Goto
  <2> QED BY <1>4, <2>1 DEF IInv, VerificationTypeOK
<1>6. ReviewsCarryVerdicts'
  BY <1>4 DEF IInv, VerificationTypeOK, ReviewsCarryVerdicts
<1> QED BY <1>1, <1>5, <1>6 DEF IInv

(* A transaction commits and its request ends: what is left to show is that  *)
(* the rows keep their types and do not end under review twice.              *)
LEMMA Commit ==
  ASSUME IInv, NEW s \in Slots, Finish(s),
         role' \in Role, profile' \in Profile, page' \in Page, consent' \in BOOLEAN,
         subject' \in [Submissions -> Subject],
         decision' \in [Submissions -> Decision],
         identityEvents' \in Nat,
         NeverBothUnderReview'
  PROVE  IInv'
<1>1. Idle \in Request
  BY VerificationAssumption DEF Idle, Request, Pc, Decision
<1>2. VerificationTypeOK'
  BY <1>1 DEF IInv, VerificationTypeOK, Finish
<1>3. ReviewsCarryVerdicts'
  BY DEF IInv, VerificationTypeOK, ReviewsCarryVerdicts, Finish, Idle
<1> QED BY <1>2, <1>3 DEF IInv

(* A queue of submissions keeps its type when one is added or decided.       *)
LEMMA QueueTypes ==
  ASSUME VerificationTypeOK, NEW what \in Subject, Queue(what)
  PROVE  /\ subject' \in [Submissions -> Subject]
         /\ decision' \in [Submissions -> Decision]
BY DEF VerificationTypeOK, Queue, Unused, Decision

-----------------------------------------------------------------------------
(* One case per action. *)

LEMMA UserStep == ASSUME IInv, NEW s \in Slots, User(s) PROVE IInv'
<1> DEFINE R(pc, agrees) == [Idle EXCEPT !.pc = pc, !.consent = agrees]
<1>0. \A pc \in Pc, agrees \in BOOLEAN :
        /\ R(pc, agrees) \in Request /\ R(pc, agrees).pc = pc
        /\ [Idle EXCEPT !.pc = pc] \in Request /\ [Idle EXCEPT !.pc = pc].pc = pc
  <2> SUFFICES ASSUME NEW pc \in Pc, NEW agrees \in BOOLEAN
               PROVE  /\ R(pc, agrees) \in Request /\ R(pc, agrees).pc = pc
                      /\ [Idle EXCEPT !.pc = pc] \in Request
                      /\ [Idle EXCEPT !.pc = pc].pc = pc
    OBVIOUS
  <2>1. Idle \in Request
    BY VerificationAssumption DEF Idle, Request, Pc, Decision
  <2>2. \A r \in Request : /\ [r EXCEPT !.pc = pc] \in Request
                           /\ [r EXCEPT !.pc = pc].pc = pc
                           /\ [r EXCEPT !.pc = pc, !.consent = agrees] \in Request
                           /\ [r EXCEPT !.pc = pc, !.consent = agrees].pc = pc
    BY DEF Request
  <2> QED BY <2>1, <2>2
<1> HIDE DEF R
<1>1. CASE CompleteRead(s)
  BY <1>1, <1>0, SlotStep DEF CompleteRead, Pc
<1>2. CASE CompleteSubmit(s)
  BY <1>2, QueueTypes, Commit DEF CompleteSubmit, IInv, VerificationTypeOK,
                                  NeverBothUnderReview, Profile, Subject
<1>3. ASSUME NEW agrees \in BOOLEAN, Create(s, agrees) PROVE IInv'
  BY <1>3, <1>0, SlotStep DEF Create, Consented, Pc, R, IInv, VerificationTypeOK
<1>4. ASSUME NEW agrees \in BOOLEAN, Update(s, agrees) PROVE IInv'
  BY <1>4, <1>0, SlotStep DEF Update, Consented, Pc, R, IInv, VerificationTypeOK
<1>5. CASE PageWrite(s)
  <2>1. slot[s].consent \in BOOLEAN
    BY DEF IInv, VerificationTypeOK, Request
  <2> QED BY <1>5, <2>1, Commit DEF PageWrite, IInv, VerificationTypeOK,
                                    NeverBothUnderReview, Page
<1>6. CASE SubmitRead(s)
  BY <1>6, <1>0, SlotStep DEF SubmitRead, Pc
<1>7. CASE Submit(s)
  BY <1>7, QueueTypes, Commit DEF Submit, IInv, VerificationTypeOK,
                                  NeverBothUnderReview, Page, Subject
<1> QED BY <1>1, <1>2, <1>3, <1>4, <1>5, <1>6, <1>7 DEF User

(* A step of an administrator's request keeps the invariant.                 *)
LEMMA AdminStep == ASSUME IInv, NEW s \in Slots, Admin(s) PROVE IInv'
<1>0. slot[s] \in Request
  BY DEF IInv, VerificationTypeOK
<1>1. ASSUME NEW i \in Submissions, NEW outcome \in Verdict,
             ReviewProfileRead(s, i, outcome) \/ ReviewPageRead(s, i, outcome)
      PROVE  IInv'
  <2>1. \A pc \in Pc : Review(pc, i, outcome) \in Request
    BY VerificationAssumption DEF Review, Request, Decision, Verdict, Submissions,
                                  IInv, VerificationTypeOK
  <2>2. \A pc \in Pc : Review(pc, i, outcome).outcome \in Verdict
                       /\ Review(pc, i, outcome).sub \in Submissions
    BY DEF Review
  <2> QED BY <1>1, <2>1, <2>2, SlotStep DEF ReviewProfileRead, ReviewPageRead, Pc
<1>2. CASE ReviewCheck(s)
  BY <1>2, SlotStep DEF ReviewCheck
<1>3. CASE ProfileDecide(s)
  <2>1. slot[s].outcome \in Verdict
    BY <1>3 DEF ProfileDecide, IInv, ReviewsCarryVerdicts
  <2>2. decision' \in [Submissions -> Decision]
    BY <1>3, <2>1 DEF ProfileDecide, Decide, IInv, VerificationTypeOK, Verdict, Decision
  <2>3. profile' \in Profile /\ profile' # "PENDING" /\ role' \in Role
    BY <1>3, <2>1 DEF ProfileDecide, IInv, VerificationTypeOK, Verdict, Profile, Role
  <2> QED BY <1>3, <2>2, <2>3, Commit DEF ProfileDecide, IInv, VerificationTypeOK,
                                          NeverBothUnderReview
<1>4. CASE PageDecide(s)
  <2>1. slot[s].outcome \in Verdict
    BY <1>4 DEF PageDecide, IInv, ReviewsCarryVerdicts
  <2>2. decision' \in [Submissions -> Decision]
    BY <1>4, <2>1 DEF PageDecide, Decide, IInv, VerificationTypeOK, Verdict, Decision
  <2>3. /\ page' \in Page /\ page' # "SUBMITTED" /\ role' \in Role
        /\ identityEvents' \in Nat
    BY <1>4, <2>1 DEF PageDecide, IInv, VerificationTypeOK, Page, Role
  <2> QED BY <1>4, <2>2, <2>3, Commit DEF PageDecide, IInv, VerificationTypeOK,
                                          NeverBothUnderReview
<1> QED BY <1>1, <1>2, <1>3, <1>4 DEF Admin, Verdict

-----------------------------------------------------------------------------
(* The invariant holds in every state of every behaviour. *)
THEOREM VerificationInvariance == Spec => []IInv
<1>1. Init => IInv
  <2> SUFFICES ASSUME Init PROVE IInv
    OBVIOUS
  <2>1. Idle \in Request
    BY VerificationAssumption DEF Idle, Request, Pc, Decision
  <2>2. VerificationTypeOK
    BY <2>1 DEF Init, VerificationTypeOK, Role, Profile, Page, Subject, Decision
  <2>3. ReviewsCarryVerdicts /\ NeverBothUnderReview
    BY DEF Init, ReviewsCarryVerdicts, NeverBothUnderReview, Idle
  <2> QED BY <2>2, <2>3 DEF IInv
<1>2. IInv /\ [Next]_vars => IInv'
  <2> SUFFICES ASSUME IInv, [Next]_vars PROVE IInv'
    OBVIOUS
  <2>1. CASE UNCHANGED vars
    BY <2>1 DEF vars, IInv, VerificationTypeOK, ReviewsCarryVerdicts,
                NeverBothUnderReview
  <2>2. ASSUME NEW s \in Slots, Abort(s) PROVE IInv'
    BY <2>2, SlotStep DEF Abort
  <2>3. CASE Next
    BY <2>2, <2>3, UserStep, AdminStep DEF Next
  <2> QED BY <2>1, <2>3
<1> QED BY <1>1, <1>2, PTL DEF Spec

(* An account is never under review as a student and as a provider at once,  *)
(* whatever submissions, edits and reviews overlap: completeProfile and      *)
(* submit look at each other's row in SERIALIZABLE transactions.             *)
THEOREM NeverUnderReviewTwice == Spec => []NeverBothUnderReview
<1>1. IInv => NeverBothUnderReview
  BY DEF IInv
<1> QED BY <1>1, VerificationInvariance, PTL

-----------------------------------------------------------------------------
(* What holds while no requests about the account have overlapped.  Of the   *)
(* submissions one at most is open, and it is about what is under review.    *)
OpensAgree ==
  /\ \A i, j \in Open : i = j
  /\ \A i \in Open : \/ subject[i] = "student_profile" /\ profile = "PENDING"
                     \/ subject[i] = "provider_page" /\ page = "SUBMITTED"
  /\ profile = "PENDING" => \E i \in Open : subject[i] = "student_profile"
  /\ page = "SUBMITTED" => \E i \in Open : subject[i] = "provider_page"

(* What the one request has read is still so when it writes. *)
RequestFits ==
  \A s \in Slots :
    /\ \A t \in Slots : slot[s].pc # "idle" /\ slot[t].pc # "idle" => s = t
    /\ slot[s].pc \in {"profileInsert", "profileUpdate"} => profile # "PENDING"
    /\ slot[s].pc \in {"pageInsert", "pageUpdate", "pageSubmit"} => page # "SUBMITTED"
    /\ slot[s].pc \in {"profileReview", "profileDecide"} =>
         slot[s].sub \in Open /\ subject[slot[s].sub] = "student_profile"
    /\ slot[s].pc \in {"pageReview", "pageDecide"} =>
         slot[s].sub \in Open /\ subject[slot[s].sub] = "provider_page"

(* A request is the only one under way. *)
Alone(s) == \A t \in Slots \ {s} : slot[t].pc = "idle"

(* While nothing has overlapped, a request that takes a step is alone.       *)
LEMMA StepsAlone ==
  ASSUME RequestFits, ~overlapped', NEW s \in Slots, User(s) \/ Admin(s) \/ Abort(s)
  PROVE  Alone(s)
<1>1. CASE slot[s].pc # "idle"
  BY <1>1 DEF RequestFits, Alone
<1>2. CASE slot[s].pc = "idle"
  <2>1. \E r : Start(s, r)
    BY <1>2 DEF User, Admin, Abort, CompleteRead, CompleteSubmit, Create, Update, PageWrite,
       SubmitRead, Submit, ReviewProfileRead, ReviewPageRead, ReviewCheck, ProfileDecide, PageDecide
  <2> QED BY <2>1 DEF Start, Alone
<1> QED BY <1>1, <1>2

(* A request that ends, or starts on what it has just read. *)
LEMMA ReadFits ==
  ASSUME IInv, OpensAgree, NEW s \in Slots, Alone(s),
         UNCHANGED <<account, reviews, identityEvents>>, NEW r \in Request,
         slot' = [slot EXCEPT ![s] = r],
         r.pc \in {"profileInsert", "profileUpdate"} => profile # "PENDING",
         r.pc \in {"pageInsert", "pageUpdate", "pageSubmit"} => page # "SUBMITTED",
         r.pc \in {"profileReview", "profileDecide"} =>
           r.sub \in Open /\ subject[r.sub] = "student_profile",
         r.pc \in {"pageReview", "pageDecide"} =>
           r.sub \in Open /\ subject[r.sub] = "provider_page"
  PROVE  OpensAgree' /\ RequestFits'
<1>1. slot'[s] = r /\ \A t \in Slots \ {s} : slot'[t].pc = "idle"
  BY DEF Alone, IInv, VerificationTypeOK
<1>2. Open' = Open
  BY DEF Open
<1> QED BY <1>1, <1>2 DEF OpensAgree, RequestFits

(* One that ends with a write. *)
LEMMA EndedFits ==
  ASSUME IInv, NEW s \in Slots, Alone(s), Finish(s)
  PROVE  RequestFits'
<1>1. \A t \in Slots : slot'[t].pc = "idle"
  BY DEF Alone, IInv, VerificationTypeOK, Finish, Idle
<1> QED BY <1>1 DEF RequestFits, Idle

(* A new submission is the only open one when nothing was under review. *)
LEMMA QueuedAlone ==
  ASSUME VerificationTypeOK, OpensAgree, NEW what \in {"student_profile", "provider_page"}, Queue(what),
         profile # "PENDING", page # "SUBMITTED",
         profile' = "PENDING" <=> what = "student_profile",
         page' = "SUBMITTED" <=> what = "provider_page"
  PROVE  OpensAgree'
<1>1. Open = {}
  BY DEF OpensAgree
<1>2. PICK i \in Unused : subject' = [subject EXCEPT ![i] = what]
                          /\ decision' = [decision EXCEPT ![i] = "PENDING"]
  BY DEF Queue
<1>3. Open' = {i}
  BY <1>1, <1>2 DEF Open, Unused, VerificationTypeOK
<1>4. subject'[i] = what
  BY <1>2 DEF Unused, VerificationTypeOK
<1> QED BY <1>3, <1>4 DEF OpensAgree

(* A decision closes the only open submission. *)
LEMMA DecidedAlone ==
  ASSUME VerificationTypeOK, OpensAgree, NEW s \in Slots, Decide(s), slot[s].sub \in Open,
         slot[s].outcome \in Verdict, profile' # "PENDING", page' # "SUBMITTED"
  PROVE  OpensAgree'
<1>1. Open = {slot[s].sub}
  BY DEF OpensAgree
<1>2. Open' = {}
  BY <1>1 DEF Open, Decide, Verdict, VerificationTypeOK
<1> QED BY <1>2 DEF OpensAgree

(* A step of a provider's request keeps the one open submission and its row  *)
(* agreed.                                                                   *)
LEMMA UserFits ==
  ASSUME IInv, OpensAgree, RequestFits, NEW s \in Slots, Alone(s), User(s)
  PROVE  OpensAgree' /\ RequestFits'
<1>0. \A pc \in Pc, agrees \in BOOLEAN :
        /\ [Idle EXCEPT !.pc = pc] \in Request /\ [Idle EXCEPT !.pc = pc].pc = pc
        /\ [Idle EXCEPT !.pc = pc, !.consent = agrees] \in Request
        /\ [Idle EXCEPT !.pc = pc, !.consent = agrees].pc = pc
  <2> SUFFICES ASSUME NEW pc \in Pc, NEW agrees \in BOOLEAN
               PROVE  /\ [Idle EXCEPT !.pc = pc] \in Request /\ [Idle EXCEPT !.pc = pc].pc = pc
                      /\ [Idle EXCEPT !.pc = pc, !.consent = agrees] \in Request
                      /\ [Idle EXCEPT !.pc = pc, !.consent = agrees].pc = pc
    OBVIOUS
  <2>1. Idle \in Request
    BY VerificationAssumption DEF Idle, Request, Pc, Decision
  <2>2. \A r \in Request : /\ [r EXCEPT !.pc = pc] \in Request
                           /\ [r EXCEPT !.pc = pc].pc = pc
                           /\ [r EXCEPT !.pc = pc, !.consent = agrees] \in Request
                           /\ [r EXCEPT !.pc = pc, !.consent = agrees].pc = pc
    BY DEF Request
  <2> QED BY <2>1, <2>2
<1>t. VerificationTypeOK
  BY DEF IInv
<1>p. {"profileInsert", "profileUpdate", "pageInsert", "pageUpdate", "pageSubmit"} \subseteq Pc
  BY DEF Pc
<1>1. CASE CompleteRead(s)
  <2>1. PICK pc \in {"profileInsert", "profileUpdate"} : Start(s, [Idle EXCEPT !.pc = pc])
    BY <1>1 DEF CompleteRead
  <2>2. profile # "PENDING" /\ UNCHANGED <<account, reviews, identityEvents>>
    BY <1>1 DEF CompleteRead
  <2>3. PICK r \in Request : r = [Idle EXCEPT !.pc = pc] /\ r.pc = pc
    BY <1>0, <1>p
  <2> QED BY <2>1, <2>2, <2>3, ReadFits DEF Start
<1>2. CASE CompleteSubmit(s)
  <2>1. profile # "PENDING" /\ page # "SUBMITTED"
    BY <1>2 DEF CompleteSubmit, RequestFits
  <2>2. OpensAgree'
    BY <1>2, <1>t, <2>1, QueuedAlone DEF CompleteSubmit
  <2> QED BY <1>2, <2>2, EndedFits DEF CompleteSubmit
<1>3. ASSUME NEW agrees \in BOOLEAN, Create(s, agrees) \/ Update(s, agrees)
      PROVE  OpensAgree' /\ RequestFits'
  <2>1. PICK c \in BOOLEAN : c = Consented(agrees)
    BY <1>t DEF Consented, VerificationTypeOK
  <2>2. PICK pc \in {"pageInsert", "pageUpdate"} : Start(s, [Idle EXCEPT !.pc = pc, !.consent = c])
    BY <1>3, <2>1 DEF Create, Update
  <2>3. page # "SUBMITTED" /\ UNCHANGED <<account, reviews, identityEvents>>
    BY <1>3 DEF Create, Update
  <2>4. PICK r \in Request : r = [Idle EXCEPT !.pc = pc, !.consent = c] /\ r.pc = pc
    BY <1>0, <1>p
  <2> QED BY <2>2, <2>3, <2>4, ReadFits DEF Start
<1>4. CASE PageWrite(s)
  <2>1. page # "SUBMITTED" /\ page' = "DRAFT" /\ UNCHANGED <<profile, reviews>>
    BY <1>4 DEF PageWrite, RequestFits
  <2>2. OpensAgree'
    BY <2>1 DEF OpensAgree, Open
  <2> QED BY <1>4, <2>2, EndedFits DEF PageWrite
<1>5. CASE SubmitRead(s)
  <2>1. page # "SUBMITTED" /\ UNCHANGED <<account, reviews, identityEvents>>
        /\ Start(s, [Idle EXCEPT !.pc = "pageSubmit"])
    BY <1>5 DEF SubmitRead
  <2>2. PICK r \in Request : r = [Idle EXCEPT !.pc = "pageSubmit"] /\ r.pc = "pageSubmit"
    BY <1>0, <1>p
  <2> QED BY <2>1, <2>2, ReadFits DEF Start
<1>6. CASE Submit(s)
  <2>1. profile # "PENDING" /\ page # "SUBMITTED"
    BY <1>6 DEF Submit, RequestFits
  <2>2. OpensAgree'
    BY <1>6, <1>t, <2>1, QueuedAlone DEF Submit
  <2> QED BY <1>6, <2>2, EndedFits DEF Submit
<1> QED BY <1>1, <1>2, <1>3, <1>4, <1>5, <1>6 DEF User

(* So does a step of an administrator's.                                     *)
LEMMA AdminFits ==
  ASSUME IInv, OpensAgree, RequestFits, NEW s \in Slots, Alone(s), Admin(s)
  PROVE  OpensAgree' /\ RequestFits'
<1>t. VerificationTypeOK /\ slot[s] \in Request /\ Idle \in Request
  BY VerificationAssumption DEF IInv, VerificationTypeOK, Idle, Request, Pc, Decision
<1>v. slot[s].pc \in {"profileDecide", "pageDecide"} => slot[s].outcome \in Verdict
  BY DEF IInv, ReviewsCarryVerdicts
<1>1. ASSUME NEW i \in Submissions, NEW outcome \in Verdict,
             ReviewProfileRead(s, i, outcome) \/ ReviewPageRead(s, i, outcome)
      PROVE  OpensAgree' /\ RequestFits'
  <2>1. PICK pc \in {"profileReview", "pageReview"} :
          /\ Start(s, Review(pc, i, outcome)) /\ i \in Open
          /\ pc = "profileReview" => subject[i] = "student_profile"
          /\ pc = "pageReview" => subject[i] = "provider_page"
          /\ UNCHANGED <<account, reviews, identityEvents>>
    BY <1>1 DEF ReviewProfileRead, ReviewPageRead
  <2>2. PICK r \in Request : r = Review(pc, i, outcome) /\ r.pc = pc /\ r.sub = i
    <3>1. Review(pc, i, outcome) \in Request
      BY <1>t, VerificationAssumption DEF Review, Request, Decision, Verdict, Submissions, Pc, VerificationTypeOK
    <3> QED BY <3>1 DEF Review
  <2> QED BY <2>1, <2>2, ReadFits DEF Start
<1>2. CASE ReviewCheck(s)
  <2>1. UNCHANGED <<account, reviews, identityEvents>>
    BY <1>2 DEF ReviewCheck
  <2>2. CASE Finish(s)
    <3>1. PICK r \in Request : r = Idle
      BY <1>t
    <3> QED BY <2>1, <2>2, <3>1, ReadFits DEF Finish, Idle
  <2>3. ASSUME NEW pc \in {"profileDecide", "pageDecide"}, Goto(s, pc),
               slot[s].pc = IF pc = "pageDecide" THEN "pageReview" ELSE "profileReview"
        PROVE  OpensAgree' /\ RequestFits'
    <3>1. PICK r \in Request : r = [slot[s] EXCEPT !.pc = pc] /\ r.pc = pc /\ r.sub = slot[s].sub
      <4>1. \A q \in Request : /\ [q EXCEPT !.pc = pc] \in Request
                              /\ [q EXCEPT !.pc = pc].pc = pc /\ [q EXCEPT !.pc = pc].sub = q.sub
        BY DEF Request, Pc
      <4> QED BY <1>t, <4>1
    <3>2. slot' = [slot EXCEPT ![s] = r]
      BY <2>3, <3>1 DEF Goto
    <3>3. /\ pc = "profileDecide" => slot[s].sub \in Open /\ subject[slot[s].sub] = "student_profile"
          /\ pc = "pageDecide" => slot[s].sub \in Open /\ subject[slot[s].sub] = "provider_page"
      BY <2>3 DEF RequestFits
    <3> QED BY <2>1, <3>1, <3>2, <3>3, ReadFits
  <2> QED BY <1>2, <2>2, <2>3 DEF ReviewCheck
<1>3. CASE ProfileDecide(s)
  <2>1. slot[s].sub \in Open /\ subject[slot[s].sub] = "student_profile"
    BY <1>3 DEF ProfileDecide, RequestFits
  <2>2. page # "SUBMITTED"
    BY <2>1 DEF OpensAgree
  <2>3. profile' # "PENDING" /\ page' # "SUBMITTED" /\ Decide(s) /\ slot[s].outcome \in Verdict
    BY <1>3, <1>v, <2>2 DEF ProfileDecide, Verdict
  <2>4. OpensAgree'
    BY <1>t, <2>1, <2>3, DecidedAlone
  <2> QED BY <1>3, <2>4, EndedFits DEF ProfileDecide
<1>4. CASE PageDecide(s)
  <2>1. slot[s].sub \in Open /\ subject[slot[s].sub] = "provider_page"
    BY <1>4 DEF PageDecide, RequestFits
  <2>2. profile # "PENDING"
    BY <2>1 DEF OpensAgree
  <2>3. profile' # "PENDING" /\ page' # "SUBMITTED" /\ Decide(s) /\ slot[s].outcome \in Verdict
    BY <1>4, <1>v, <2>2 DEF PageDecide, Verdict
  <2>4. OpensAgree'
    BY <1>t, <2>1, <2>3, DecidedAlone
  <2> QED BY <1>4, <2>4, EndedFits DEF PageDecide
<1> QED BY <1>1, <1>2, <1>3, <1>4 DEF Admin, Verdict

(* While no two requests about an account have overlapped, what is under     *)
(* review has exactly one open submission and an open submission is about    *)
(* something under review, for any number of submissions, verdicts and       *)
(* requests that die (ProviderPagesService, AdminService.reviewSubmission).  *)
THEOREM OneOpenSubmission == Spec => []OpenSubmissionsMatch
<1> DEFINE Serial == ~overlapped => OpensAgree /\ RequestFits
<1>1. Init => Serial
  BY DEF Init, OpensAgree, RequestFits, Open, Idle
<1>2. IInv /\ Serial /\ [Next]_vars => Serial'
  <2> SUFFICES ASSUME IInv, Serial, [Next]_vars, ~overlapped' PROVE OpensAgree' /\ RequestFits'
    OBVIOUS
  <2>0. OpensAgree /\ RequestFits
    BY DEF vars, Next, User, Admin, Abort, CompleteRead, CompleteSubmit, Create, Update, PageWrite,
       SubmitRead, Submit, ReviewProfileRead, ReviewPageRead, ReviewCheck, ProfileDecide, PageDecide,
       Start, Finish, Goto
  <2>1. CASE UNCHANGED vars
    BY <2>0, <2>1 DEF vars, OpensAgree, RequestFits, Open
  <2>2. ASSUME NEW s \in Slots, Abort(s) PROVE OpensAgree' /\ RequestFits'
    <3>1. Idle \in Request
      BY VerificationAssumption DEF Idle, Request, Pc, Decision
    <3>2. PICK r \in Request : r = Idle
      BY <3>1
    <3>3. slot' = [slot EXCEPT ![s] = r] /\ r.pc = "idle"
      BY <2>2, <3>2 DEF Abort, Finish, Idle
    <3>4. Alone(s)
      BY <2>0, <2>2, StepsAlone
    <3> QED BY <2>0, <2>2, <3>3, <3>4, ReadFits DEF Abort
  <2>3. ASSUME NEW s \in Slots, User(s) \/ Admin(s) PROVE OpensAgree' /\ RequestFits'
    <3>1. Alone(s)
      BY <2>0, <2>3, StepsAlone
    <3> QED BY <2>0, <2>3, <3>1, UserFits, AdminFits
  <2> QED BY <2>1, <2>2, <2>3 DEF Next
<1>3. Serial => OpenSubmissionsMatch
  <2> SUFFICES ASSUME OpensAgree PROVE Cardinality(Open) <= 1
    BY DEF OpensAgree, OpenSubmissionsMatch
  <2>1. CASE Open = {}
    BY <2>1, FS_EmptySet
  <2>2. CASE Open # {}
    <3>0. PICK i : i \in Open
      BY <2>2
    <3>1. Open = {i}
      BY <3>0 DEF OpensAgree
    <3> QED BY <3>1, FS_Singleton
  <2> QED BY <2>1, <2>2
<1> HIDE DEF Serial
<1> QED BY <1>1, <1>2, <1>3, VerificationInvariance, PTL DEF Spec

-----------------------------------------------------------------------------
(* People.                                                                   *)

(* A search that is waited for is of the query of now, and there is none     *)
(* while the pause runs.                                                     *)
AwaitedIsAsked ==
  /\ \A s \in searches : s = [number |-> s.number, query |-> s.query, live |-> s.live]
  /\ \A s \in searches : s.live => s.query = query /\ ~due

(* Without an error the page has the results of the query, or waits.         *)
ResultsOrWait ==
  /\ query # NoQuery /\ ~due /\ ~searching /\ ~searchError => found = query
  /\ searching => due \/ \E s \in searches : s.live

(* What is shown of an account is of the account it was loaded for.          *)
AboutIsLoaded == ~hidden /\ about # Nothing => about.who = aboutFor

(* The picture is the account's, and so is the one that is still waited for. *)
FaceIsOwn ==
  /\ faceNumber \in Nat
  /\ face # Nothing => face = about.picture
  /\ \A f \in faces : f.number \in 0..faceNumber /\ (f.number = faceNumber => f.picture = about.picture)

(* The inductive invariant. *)
ConnectInv == AwaitedIsAsked /\ ResultsOrWait
(* The inductive invariant of a person's page.                               *)
PersonInv == AboutIsLoaded /\ FaceIsOwn

-----------------------------------------------------------------------------
(* A search nobody waits for any more is a search. *)
LEMMA SearchIsLeft ==
  ASSUME NEW s, s = [number |-> s.number, query |-> s.query, live |-> s.live], NEW v
  PROVE  LET d == [s EXCEPT !.live = v]
         IN  d = [number |-> d.number, query |-> d.query, live |-> d.live] /\ d.live = v
<1>1. PICK r : r = [number |-> s.number, query |-> s.query, live |-> v]
  OBVIOUS
<1>2. [s EXCEPT !.live = v] = r
  BY <1>1
<1>3. r = [number |-> r.number, query |-> r.query, live |-> r.live] /\ r.live = v
  BY <1>1
<1> QED BY <1>2, <1>3

(* The query changes, by the user's typing or by choosing a recent one.      *)
LEMMA QueryChanges == ASSUME ConnectInv, NEW q, SetQuery(q) PROVE ConnectInv'
<1> DEFINE D(s) == [s EXCEPT !.live = FALSE]
<1>1. query' = q /\ searches' = {D(s) : s \in searches} /\ due' = (q # NoQuery)
  BY DEF SetQuery
<1>2. ASSUME NEW s \in searches
      PROVE  D(s) = [number |-> D(s).number, query |-> D(s).query, live |-> D(s).live] /\ ~D(s).live
  BY SearchIsLeft DEF ConnectInv, AwaitedIsAsked
<1> HIDE DEF D
<1>3. AwaitedIsAsked'
  BY <1>1, <1>2 DEF AwaitedIsAsked
<1>4. CASE q = NoQuery
  <2>1. searching' = FALSE
    BY <1>4 DEF SetQuery
  <2> QED BY <1>1, <1>3, <1>4, <2>1 DEF ConnectInv, ResultsOrWait
<1>5. CASE q # NoQuery
  BY <1>1, <1>3, <1>5 DEF ConnectInv, ResultsOrWait
<1> QED BY <1>4, <1>5

(* The pause ends: a cached answer is shown, another one is waited for.      *)
LEMMA PauseHasEnded == ASSUME ConnectInv, PauseEnds PROVE ConnectInv'
<1>1. due /\ ~due' /\ query' = query
  BY DEF PauseEnds
<1>2. CASE query \in answered
  <2>1. found' = query /\ ~searching' /\ searches' = searches
    BY <1>2 DEF PauseEnds
  <2> QED BY <1>1, <2>1 DEF ConnectInv, AwaitedIsAsked, ResultsOrWait
<1>3. CASE query \notin answered
  <2> DEFINE n == [number |-> asked, query |-> query, live |-> TRUE]
  <2>1. searches' = searches \cup {n} /\ searching' = TRUE
    BY <1>3 DEF PauseEnds
  <2>2. n = [number |-> n.number, query |-> n.query, live |-> n.live] /\ n.live /\ n.query = query
    OBVIOUS
  <2> HIDE DEF n
  <2> QED BY <1>1, <2>1, <2>2 DEF ConnectInv, AwaitedIsAsked, ResultsOrWait
<1> QED BY <1>2, <1>3

(* An answer arrives, or a search fails: only one that is waited for counts. *)
LEMMA SearchEnds ==
  ASSUME ConnectInv, NEW s \in searches, SearchArrives(s) \/ SearchFails(s) PROVE ConnectInv'
<1>1. searches' = searches \ {s} /\ UNCHANGED <<query, due>>
  BY DEF SearchArrives, SearchFails
<1>2. CASE s.live
  <2>1. ~searching' /\ (found' = query \/ searchError')
    BY <1>2 DEF SearchArrives, SearchFails, Show, ConnectInv, AwaitedIsAsked
  <2> QED BY <1>1, <2>1 DEF ConnectInv, AwaitedIsAsked, ResultsOrWait
<1>3. CASE ~s.live
  <2>1. UNCHANGED <<found, searching, searchError>>
    BY <1>3 DEF SearchArrives, SearchFails
  <2> QED BY <1>1, <1>3, <2>1 DEF ConnectInv, AwaitedIsAsked, ResultsOrWait
<1> QED BY <1>2, <1>3

(* Every step of the search page keeps what is known of it.                  *)
LEMMA ConnectStep == ASSUME ConnectInv, [PeopleNext]_peopleVars PROVE ConnectInv'
<1>1. ASSUME UNCHANGED <<query, due, found, searching, searchError, searches>> PROVE ConnectInv'
  BY <1>1 DEF ConnectInv, AwaitedIsAsked, ResultsOrWait
<1>2. ASSUME NEW q \in Queries \cup {NoQuery}, Search(q) PROVE ConnectInv'
  BY <1>2, QueryChanges DEF Search
<1>3. ASSUME NEW i \in DOMAIN recents, ChooseRecent(i) PROVE ConnectInv'
  BY <1>3, QueryChanges DEF ChooseRecent
<1>4. CASE ClearRecents \/ FollowFromCard \/ (\E ok \in BOOLEAN : CardLoads(ok)) \/ UNCHANGED peopleVars
  BY <1>1, <1>4 DEF ClearRecents, FollowFromCard, CardLoads, peopleVars, connectVars
<1>5. CASE \/ \E p \in Members : OpenPerson(p) \/ VerificationChanges(p) \/ EntryAges(p)
           \/ \E p \in Members, q \in Portraits \cup {Nothing} : PortraitChanges(p, q)
           \/ \E v \in visits : PersonServed(v) \/ PersonArrives(v) \/ PersonFails(v)
           \/ \E f \in faces, ok \in BOOLEAN : FaceComes(f, ok)
  <2>1. UNCHANGED connectVars
    BY <1>5 DEF OpenPerson, VerificationChanges, EntryAges, PortraitChanges, PersonServed, PersonArrives,
                PersonFails, FaceComes
  <2> QED BY <1>1, <2>1 DEF connectVars
<1> QED BY <1>2, <1>3, <1>4, <1>5, PauseHasEnded, SearchEnds DEF PeopleNext

(* A profile is shown: its picture is the only one waited for.               *)
LEMMA PersonIsShown == ASSUME PersonInv, NEW a, ShowPerson(a) PROVE PersonInv'
<1>1. about' = a /\ aboutFor' = a.who /\ face' = Nothing /\ faceNumber' = faceNumber + 1
  BY DEF ShowPerson, ResolveFace
<1>2. faceNumber \in Nat /\ faceNumber' \in Nat
  BY <1>1 DEF PersonInv, FaceIsOwn
<1> DEFINE n == [number |-> faceNumber', picture |-> a.picture]
<1>3. faces' \subseteq faces \cup {n}
  BY DEF ShowPerson, ResolveFace
<1>4. n.number = faceNumber' /\ n.picture = a.picture
  OBVIOUS
<1> HIDE DEF n
<1>5. ASSUME NEW f \in faces' PROVE f.number \in 0..faceNumber' /\ (f.number = faceNumber' => f.picture = a.picture)
  <2>1. CASE f = n
    BY <1>2, <1>4, <2>1
  <2>2. CASE f \in faces
    <3>1. f.number \in 0..faceNumber
      BY <2>2 DEF PersonInv, FaceIsOwn
    <3> QED BY <1>1, <1>2, <3>1
  <2> QED BY <1>3, <2>1, <2>2
<1> QED BY <1>1, <1>2, <1>5 DEF PersonInv, AboutIsLoaded, FaceIsOwn

(* The page of a person opens: nothing is shown of anybody else.             *)
LEMMA PersonIsOpened == ASSUME PersonInv, NEW p \in Members, OpenPerson(p) PROVE PersonInv'
<1>1. CASE kept[p] # Nothing
  BY <1>1, PersonIsShown DEF OpenPerson
<1>2. CASE kept[p] = Nothing
  <2>1. UNCHANGED <<about, aboutFor, hidden, face, faces>> /\ faceNumber' = faceNumber + 1
    BY <1>2 DEF OpenPerson
  <2>2. faceNumber \in Nat /\ faceNumber' \in Nat
    BY <2>1 DEF PersonInv, FaceIsOwn
  <2>3. ASSUME NEW f \in faces PROVE f.number \in 0..faceNumber' /\ f.number # faceNumber'
    <3>1. f.number \in 0..faceNumber
      BY DEF PersonInv, FaceIsOwn
    <3> QED BY <2>1, <2>2, <3>1
  <2> QED BY <2>1, <2>2, <2>3 DEF PersonInv, AboutIsLoaded, FaceIsOwn
<1> QED BY <1>1, <1>2

(* A profile arrives, or does not. *)
LEMMA PersonHasCome ==
  ASSUME PersonInv, NEW v \in visits, PersonArrives(v) \/ PersonFails(v) PROVE PersonInv'
<1>1. CASE ShowPerson(v.got)
  BY <1>1, PersonIsShown
<1>2. CASE ~ShowPerson(v.got)
  <2>1. UNCHANGED <<about, face, faces, faceNumber>> /\ (hidden' \/ UNCHANGED <<hidden, aboutFor>>)
    BY <1>2 DEF PersonArrives, PersonFails
  <2> QED BY <2>1 DEF PersonInv, AboutIsLoaded, FaceIsOwn
<1> QED BY <1>1, <1>2

(* Every step of a person's page keeps what is known of it.                  *)
LEMMA PersonStep == ASSUME PersonInv, [PeopleNext]_peopleVars PROVE PersonInv'
<1>1. ASSUME UNCHANGED <<about, aboutFor, hidden, face, faces, faceNumber>> PROVE PersonInv'
  BY <1>1 DEF PersonInv, AboutIsLoaded, FaceIsOwn
<1>2. CASE \/ \E q \in Queries \cup {NoQuery} : Search(q)
           \/ \E i \in DOMAIN recents : ChooseRecent(i)
           \/ ClearRecents \/ PauseEnds \/ FollowFromCard
           \/ \E s \in searches : SearchArrives(s) \/ SearchFails(s)
           \/ \E ok \in BOOLEAN : CardLoads(ok)
           \/ UNCHANGED peopleVars
  <2>1. UNCHANGED personVars
    BY <1>2 DEF Search, ChooseRecent, ClearRecents, PauseEnds, FollowFromCard, SearchArrives, SearchFails,
                CardLoads, peopleVars
  <2> QED BY <1>1, <2>1 DEF personVars
<1>3. CASE \/ \E p \in Members : VerificationChanges(p) \/ EntryAges(p)
           \/ \E p \in Members, q \in Portraits \cup {Nothing} : PortraitChanges(p, q)
           \/ \E v \in visits : PersonServed(v)
  BY <1>1, <1>3 DEF VerificationChanges, EntryAges, PortraitChanges, PersonServed
<1>4. ASSUME NEW f \in faces, NEW ok \in BOOLEAN, FaceComes(f, ok) PROVE PersonInv'
  <2>1. /\ UNCHANGED <<about, aboutFor, hidden, faceNumber>> /\ faces' = faces \ {f}
        /\ face' = face \/ face' = Nothing \/ (f.number = faceNumber /\ face' = f.picture)
    BY <1>4 DEF FaceComes
  <2> QED BY <2>1 DEF PersonInv, AboutIsLoaded, FaceIsOwn
<1> QED BY <1>2, <1>3, <1>4, PersonIsOpened, PersonHasCome DEF PeopleNext

(* Once nothing is waited for the results are those of the query, the page   *)
(* of an account shows that account and no picture but its own, and a        *)
(* skeleton waits for a search somebody awaits: for any numbers of queries,  *)
(* answers, pages and pictures that overtake each other.                     *)
THEOREM ShownWasAskedFor == PeopleSpec => []ShownIsAskedFor
<1>1. PeopleInit => ConnectInv /\ PersonInv
  BY DEF PeopleInit, ConnectInv, AwaitedIsAsked, ResultsOrWait, PersonInv, AboutIsLoaded, FaceIsOwn
<1>2. ConnectInv /\ PersonInv => ShownIsAskedFor
  <2> SUFFICES ASSUME ConnectInv, PersonInv PROVE ShownIsAskedFor
    OBVIOUS
  <2>1. ResultsFitQuery /\ SkeletonIsAwaited
    BY DEF ConnectInv, ResultsOrWait, ResultsFitQuery, SkeletonIsAwaited, ConnectShows
  <2>2. PersonShownIsAsked
    BY DEF PersonInv, AboutIsLoaded, FaceIsOwn, PersonShownIsAsked, PageShows
  <2> QED BY <2>1, <2>2 DEF ShownIsAskedFor
<1> QED BY <1>1, <1>2, ConnectStep, PersonStep, PTL DEF PeopleSpec

=============================================================================
