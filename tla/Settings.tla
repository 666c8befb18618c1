------------------------------ MODULE Settings ------------------------------
(***************************************************************************)
(* One's own account: the pages that show it and save its name, picture    *)
(* and password, the browser's copy of it, the pictures that are resolved  *)
(* to URLs apart, and the row behind it all.                               *)
(*                                                                         *)
(* Every save is given a number, which stands for the name, picture or     *)
(* password it saves.  The texts of the inputs are left out, and so is the *)
(* end of a resolved URL or of a stored avatar (a day, a month).           *)
(***************************************************************************)
EXTENDS Integers, FiniteSets

CONSTANTS
  NoAccount,        \* no account
  MaxSaves,      \* bound: saves
  MaxVisits,      \* bound: pages opened
  MaxElsewhere,  \* bound: saves on another device
  MaxFetches       \* bound: calls of getCurrentUser

VARIABLES
  users,      \* the row: name, picture, password, and how often name or picture were written
  page,       \* the page that is open: "away", "profile", "settings"
  account,    \* account, user: what the page shows
  avatar,     \* avatarUrl: nothing, the URL of a picture, or the preview of a save
  preview,    \* avatarPreviewUrl: the save whose preview the page holds
  previews,   \* object URLs that are not revoked
  own,       \* the cached current user: its value and whether it is fresh
  keptAvatar, \* getCachedUserAvatar: the picture its URL belongs to
  urls,       \* pictures whose URL is cached
  faces,      \* resolveMediaUrl calls, and who waits for them
  fetches,    \* calls of getCurrentUser
  saves,      \* saves under way
  believed,   \* the password the user was told, or set first
  saved, visits, elsewhere, fetched,   \* how many so far
  unsure      \* history: of "account" or "password" an answer was overtaken or lost, or it
              \* changed elsewhere

shownVars == <<page, account, avatar, preview>>
countVars == <<saved, visits, elsewhere, fetched>>
settingsVars == <<users, shownVars, previews, own, keptAvatar, urls, faces, fetches, saves,
                  believed, countVars, unsure>>

Values == 0..(MaxSaves + MaxElsewhere)
None == -1
Account == [name : Values, picture : Values, version : Nat]

ASSUME SettingsAssumption ==
  {MaxSaves, MaxVisits, MaxElsewhere, MaxFetches} \subseteq Nat /\ NoAccount \notin Account

User == [name : Values, picture : Values, password : Values, version : Nat]
NoAvatar == [kind |-> "none", of |-> None]
Url(p) == [kind |-> "url", of |-> p]
Preview(n) == [kind |-> "preview", of |-> n]
Mine(u) == [name |-> u.name, picture |-> u.picture, version |-> u.version]

-----------------------------------------------------------------------------
(* updateAccountState and its twins: the account is shown, and with it the   *)
(* avatar last stored, whatever picture that is; a known URL of its own      *)
(* picture takes its place, an unknown one is asked for.                     *)
Apply(a, keep) ==
  /\ account' = a
  /\ IF a.picture \in urls
     THEN avatar' = Url(a.picture) /\ keptAvatar' = (IF keep THEN a.picture ELSE keptAvatar)
          /\ UNCHANGED faces
     ELSE /\ avatar' = IF keptAvatar # None THEN Url(keptAvatar) ELSE avatar
          /\ faces' = faces \cup {[picture |-> a.picture, here |-> TRUE, keep |-> keep]}
          /\ UNCHANGED keptAvatar

(* primeCurrentUserCache: both entries are written, and an open page is told.*)
Prime(a) ==
  /\ own' = [value |-> a, fresh |-> TRUE]
  /\ unsure' = IF a.version = users.version THEN unsure \ {"account"}
              ELSE IF own.value # NoAccount /\ a.version < own.value.version
              THEN unsure \cup {"account"} ELSE unsure
  /\ IF page = "away" THEN UNCHANGED <<account, avatar, faces, keptAvatar>> ELSE Apply(a, TRUE)

(* cachedCurrentUser: a cached account is shown at once and, when it is      *)
(* older than 10 minutes, asked for again behind it.                         *)
Open(p) ==
  /\ page = "away" /\ visits < MaxVisits /\ visits' = visits + 1
  /\ page' = p
  /\ IF own.value # NoAccount THEN Apply(own.value, p = "settings" \/ own.value.picture \in urls)
     ELSE UNCHANGED <<account, avatar, faces, keptAvatar>>
  /\ IF own.value # NoAccount /\ own.fresh THEN UNCHANGED <<fetches, fetched>>
     ELSE /\ fetched < MaxFetches /\ fetched' = fetched + 1
          /\ fetches' = fetches \cup {[number |-> fetched', got |-> NoAccount]}
  /\ UNCHANGED <<users, preview, previews, own, urls, saves, believed, saved, elsewhere, unsure>>

(* Nobody waits any more for what is under way, but it goes on. *)
Gone ==
  /\ page' = "away" /\ account' = NoAccount /\ avatar' = NoAvatar
  /\ preview' = None /\ previews' = previews \ {preview}

Leave ==
  /\ page # "away" /\ Gone
  /\ faces' = {[f EXCEPT !.here = FALSE] : f \in faces}
  /\ saves' = {[s EXCEPT !.here = FALSE] : s \in saves}
  /\ UNCHANGED <<users, own, keptAvatar, urls, fetches, believed, countVars, unsure>>

(* clearUserSession (module Sessions): the copies go, and the browser loads  *)
(* the login page anew.  Saves may be served still, but nobody hears of it.  *)
(* The user signs in again.                                                  *)
SessionCleared ==
  /\ page # "away" /\ Gone
  /\ own' = [value |-> NoAccount, fresh |-> FALSE] /\ keptAvatar' = None /\ urls' = {}
  /\ faces' = {} /\ fetches' = {}
  /\ saves' = {[s EXCEPT !.here = FALSE, !.heard = FALSE] :
                 s \in {t \in saves : t.phase \notin {"upload", "resolve"}}}
  /\ UNCHANGED <<users, believed, countVars, unsure>>

-----------------------------------------------------------------------------
SaveCall(kind, phase, shown) ==
  [number |-> saved + elsewhere + 1, kind |-> kind, phase |-> phase, here |-> TRUE,
   heard |-> TRUE, shown |-> shown, old |-> believed, got |-> NoAccount]

StartSave(kind, phase) ==
  /\ page = "settings" /\ account # NoAccount
  /\ \A s \in saves : s.kind = kind => ~s.here
  /\ saved < MaxSaves /\ saved' = saved + 1
  /\ saves' = saves \cup {SaveCall(kind, phase, avatar)}
  /\ UNCHANGED <<users, page, account, own, keptAvatar, urls, faces, fetches, believed, visits,
                 elsewhere, fetched, unsure>>

SaveName == StartSave("name", "sent") /\ UNCHANGED <<avatar, preview, previews>>

(* updateProfilePicture: the preview of the last picture is revoked. *)
SavePicture ==
  /\ StartSave("picture", "upload")
  /\ LET n == saved + elsewhere + 1
     IN  /\ preview' = n /\ avatar' = Preview(n)
         /\ previews' = (previews \ {preview}) \cup {n}

SavePassword == StartSave("password", "sent") /\ UNCHANGED <<avatar, preview, previews>>

Becomes(s, t) == saves' = (saves \ {s}) \cup {t}
NothingShown == UNCHANGED <<shownVars, previews, own, keptAvatar, urls, faces, fetches, believed,
                           countVars>>

(* uploadDocument (module Media) returned the picture's id. *)
PictureUploaded(s) ==
  /\ s.phase = "upload" /\ Becomes(s, [s EXCEPT !.phase = "sent"])
  /\ NothingShown /\ UNCHANGED <<users, unsure>>

(* updateProfile *)
SaveServed(s) ==
  /\ s.phase = "sent" /\ s.kind \in {"name", "picture"}
  /\ users' = [users EXCEPT ![s.kind] = s.number, !.version = @ + 1]
  /\ Becomes(s, [s EXCEPT !.phase = "served", !.got = Mine(users')])
  /\ NothingShown /\ UNCHANGED unsure

(* changePassword: the password is verified, and then hashed and written.    *)
PasswordRead(s) ==
  /\ s.phase = "sent" /\ s.kind = "password"
  /\ Becomes(s, [s EXCEPT !.phase = IF s.old = users.password THEN "verified" ELSE "refused"])
  /\ NothingShown /\ UNCHANGED <<users, unsure>>

PasswordWritten(s) ==
  /\ s.phase = "verified"
  /\ users' = [users EXCEPT !.password = s.number]
  /\ Becomes(s, [s EXCEPT !.phase = "served"])
  /\ NothingShown /\ UNCHANGED unsure

PasswordAnswered(s) ==
  /\ s.heard /\ s.kind = "password" /\ s.phase \in {"served", "refused"}
  /\ believed' = IF s.phase = "served" THEN s.number ELSE believed
  /\ saves' = saves \ {s}
  /\ unsure' = IF s.phase = "served" /\ users.password # s.number
              THEN unsure \cup {"password"} ELSE unsure
  /\ UNCHANGED <<users, shownVars, previews, own, keptAvatar, urls, faces, fetches, countVars>>

(* A mutant: the page shows the new name, the cache keeps the old one. *)
NameAnsweredHere(s) ==
  /\ s.heard /\ s.kind = "name" /\ s.phase = "served" /\ saves' = saves \ {s}
  /\ IF s.here THEN Apply(s.got, TRUE) ELSE UNCHANGED <<account, avatar, faces, keptAvatar>>
  /\ UNCHANGED <<users, page, preview, previews, own, urls, fetches, believed, countVars, unsure>>

(* updateDisplayName: the answer is what the row held when it was written.   *)
NameAnswered(s) ==
  /\ s.heard /\ s.kind = "name" /\ s.phase = "served" /\ saves' = saves \ {s}
  /\ Prime(s.got)
  /\ UNCHANGED <<users, page, preview, previews, urls, fetches, believed, countVars>>

(* The page learns of the saved picture through the cache and shows the      *)
(* avatar of before until the new one is resolved.                           *)
PictureAnswered(s) ==
  /\ s.heard /\ s.kind = "picture" /\ s.phase = "served"
  /\ Prime(s.got)
  /\ IF s.got.picture \in urls
     THEN /\ saves' = saves \ {s} /\ previews' = previews \ {s.number}
          /\ preview' = IF s.here THEN None ELSE preview
     ELSE Becomes(s, [s EXCEPT !.phase = "resolve"]) /\ UNCHANGED <<preview, previews>>
  /\ UNCHANGED <<users, page, urls, fetches, believed, countVars>>

(* A request that failed, or the lost answer of one that was served: what    *)
(* was shown before the picture was chosen comes back.                       *)
SaveFails(s) ==
  /\ s.phase \in {"upload", "sent", "refused", "served"} /\ saves' = saves \ {s}
  /\ unsure' = IF s.phase # "served" THEN unsure
              ELSE unsure \cup {IF s.kind = "password" THEN "password" ELSE "account"}
  /\ IF s.kind = "picture"
     THEN /\ previews' = previews \ {s.number}
          /\ IF s.here THEN avatar' = s.shown /\ preview' = None ELSE UNCHANGED <<avatar, preview>>
     ELSE UNCHANGED <<avatar, preview, previews>>
  /\ UNCHANGED <<users, page, account, own, keptAvatar, urls, faces, fetches, believed, countVars>>

-----------------------------------------------------------------------------
(* The answer of resolveMediaUrl, which all that asked for the picture wait  *)
(* for: null when it failed.  A saved picture is then no preview any more.   *)
FaceComes(p, ok) ==
  LET asked == {f \in faces : f.picture = p}
      waiting == {s \in saves : s.phase = "resolve" /\ s.got.picture = p}
  IN  /\ asked # {} \/ waiting # {}
      /\ faces' = faces \ asked /\ saves' = saves \ waiting
      /\ IF ok
         THEN /\ urls' = urls \cup {p}
              /\ avatar' = IF \E w \in asked \cup waiting : w.here THEN Url(p) ELSE avatar
              /\ keptAvatar' = IF waiting # {} \/ \E f \in asked : f.here \/ f.keep THEN p
                              ELSE keptAvatar
              /\ previews' = previews \ {s.number : s \in waiting}
              /\ preview' = IF \E s \in waiting : s.here THEN None ELSE preview
         ELSE UNCHANGED <<urls, avatar, keptAvatar, previews, preview>>
      /\ UNCHANGED <<users, page, account, own, fetches, believed, countVars, unsure>>

(* getProfile *)
OwnServed(l) ==
  /\ l.got = NoAccount
  /\ fetches' = (fetches \ {l}) \cup {[l EXCEPT !.got = Mine(users)]}
  /\ UNCHANGED <<users, shownVars, previews, own, keptAvatar, urls, faces, saves, believed,
                 countVars, unsure>>

OwnArrives(l) ==
  /\ l.got # NoAccount /\ fetches' = fetches \ {l}
  /\ Prime(l.got)
  /\ UNCHANGED <<users, page, preview, previews, urls, saves, believed, countVars>>

OwnFails(l) ==
  /\ fetches' = fetches \ {l}
  /\ UNCHANGED <<users, shownVars, previews, own, keptAvatar, urls, faces, saves, believed,
                 countVars, unsure>>

CopyAges ==
  /\ own.fresh /\ own' = [own EXCEPT !.fresh = FALSE]
  /\ UNCHANGED <<users, shownVars, previews, keptAvatar, urls, faces, fetches, saves, believed,
                 countVars, unsure>>

(* Another device saves a name or picture, or a password (also by a reset,   *)
(* module Accounts), which its user knows.                                   *)
SavedElsewhere(kind) ==
  /\ elsewhere < MaxElsewhere /\ elsewhere' = elsewhere + 1
  /\ LET n == saved + elsewhere + 1
     IN  /\ users' = [users EXCEPT ![kind] = n, !.version = IF kind = "password" THEN @ ELSE @ + 1]
         /\ believed' = IF kind = "password" THEN n ELSE believed
  /\ unsure' = unsure \cup {IF kind = "password" THEN "password" ELSE "account"}
  /\ UNCHANGED <<shownVars, previews, own, keptAvatar, urls, faces, fetches, saves,
                 saved, visits, fetched>>

-----------------------------------------------------------------------------
SettingsInit ==
  /\ users = [name |-> 0, picture |-> 0, password |-> 0, version |-> 0]
  /\ page = "away" /\ account = NoAccount /\ avatar = NoAvatar /\ preview = None /\ previews = {}
  /\ own = [value |-> NoAccount, fresh |-> FALSE] /\ keptAvatar = None /\ urls = {} /\ faces = {}
  /\ fetches = {} /\ saves = {} /\ believed = 0
  /\ saved = 0 /\ visits = 0 /\ elsewhere = 0 /\ fetched = 0 /\ unsure = {}

SettingsNext ==
  \/ \E p \in {"profile", "settings"} : Open(p)
  \/ Leave \/ SessionCleared \/ CopyAges
  \/ SaveName \/ SavePicture \/ SavePassword
  \/ \E s \in saves : \/ PictureUploaded(s) \/ SaveServed(s) \/ NameAnswered(s)
                      \/ PictureAnswered(s) \/ SaveFails(s)
                      \/ PasswordRead(s) \/ PasswordWritten(s) \/ PasswordAnswered(s)
  \/ \E p \in Values, ok \in BOOLEAN : FaceComes(p, ok)
  \/ \E l \in fetches : OwnServed(l) \/ OwnArrives(l) \/ OwnFails(l)
  \/ \E k \in {"name", "picture", "password"} : SavedElsewhere(k)

SettingsSpec == SettingsInit /\ [][SettingsNext]_settingsVars

-----------------------------------------------------------------------------
(* Row, pages, copies and calls have their types. *)
SettingsTypeOK ==
  /\ users \in User /\ page \in {"away", "profile", "settings"}
  /\ {account, own.value} \subseteq Account \cup {NoAccount} /\ own.fresh \in BOOLEAN
  /\ avatar \in [kind : {"none", "url", "preview"}, of : Values \cup {None}]
  /\ {preview, keptAvatar} \subseteq Values \cup {None} /\ previews \cup urls \subseteq Values
  /\ faces \subseteq [picture : Values, here : BOOLEAN, keep : BOOLEAN]
  /\ fetches \subseteq [number : 1..MaxFetches, got : Account \cup {NoAccount}]
  /\ \A s \in saves : /\ s.kind \in {"name", "picture", "password"} /\ s.number \in Values
                      /\ s.phase \in {"upload", "sent", "verified", "refused", "served", "resolve"}
  /\ believed \in Values /\ unsure \subseteq {"account", "password"}
  /\ {saved, visits, elsewhere, fetched} \subseteq Nat

(* With nothing under way an open page, and the copy the next one starts     *)
(* from, show the account as it is stored, and the password is the one the   *)
(* user was told, through pages left and reopened while saves went on,       *)
(* unless an answer was overtaken or lost or another device wrote            *)
(* (PersonalInfoContent.tsx, AccountSettingsPanel.tsx, users.service.ts      *)
(* updateProfile and changePassword).                                        *)
Quiet == saves = {} /\ fetches = {}
AccountIsSaved ==
  Quiet =>
    /\ "account" \notin unsure =>
         /\ account # NoAccount => account = Mine(users)
         /\ own.value # NoAccount => own.value = Mine(users)
    /\ "password" \notin unsure => users.password = believed

(* The avatar that is shown is of the account that is shown once nothing is  *)
(* being resolved.  The code does not hold it: getCachedUserAvatar does not  *)
(* ask which picture its URL belongs to, and resolutions arrive in any order.*)
AvatarFollowsAccount ==
  Quiet /\ faces = {} /\ account # NoAccount /\ avatar.kind = "url" => avatar.of = account.picture

(* A preview that is shown is not revoked.  The code does not hold it: when  *)
(* the first saved picture cannot be resolved its preview stays, and a       *)
(* second save that fails comes back to it after it was revoked.             *)
PreviewIsLive == avatar.kind = "preview" => avatar.of \in previews

=============================================================================
