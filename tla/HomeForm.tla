------------------------------ MODULE HomeForm ------------------------------
(***************************************************************************)
(* The form for a home (app/page/homes/new) in one tab of its provider:    *)
(* details, place, media, review; the draft kept on the device; the upload *)
(* of a photo or a video (api.ts uploadListingMedia, waitForMediaReady);   *)
(* and the rows it makes on the server.                                    *)
(*                                                                         *)
(* What is typed is a number, 0 when nothing valid is typed yet; a row     *)
(* remembers it, so that two rows of one text can be told.                 *)
(***************************************************************************)
EXTENDS Naturals, FiniteSets

CONSTANTS
  MaxHomes,    \* bound: rows
  MaxTexts,    \* bound: texts typed
  MaxOpens,    \* bound: times the form is opened
  PhotoLimit,   \* MAX_PHOTOS
  MaxTries,    \* attempts of waitForMediaReady
  MaxFiles     \* bound: files chosen

ASSUME HomeFormAssumption ==
  /\ {MaxHomes, MaxTexts, MaxOpens, MaxTries, MaxFiles} \subseteq Nat
  /\ PhotoLimit \in Nat \ {0}

VARIABLES
  homes,       \* the provider's rows
  window,      \* "closed", "loading", "open"
  opens,       \* times the form was opened
  asked,       \* the home in the address, 0 without; with "new=1" no draft is read
  afresh,
  form,        \* what the page holds
  copy,        \* the home as the page last read it
  keyed,       \* the page knows whose drafts it writes
  recovered,   \* "Draft restored"
  drafted,       \* the draft on the device
  writing,     \* the draft is written when 400 ms pass
  sending,     \* requests of the page, or of a page that was closed
  file,        \* the file being uploaded, on the page and on the server
  chosen,      \* files chosen so far
  texts,       \* texts typed so far
  unnoted,     \* history: for each text, rows made that the device does not know of
  mixed        \* history: texts whose home an answer from before a discarded draft replaced

homeVars == <<homes, window, opens, asked, afresh, form, copy, keyed, recovered, drafted, writing,
              sending, file, chosen, texts, unnoted, mixed>>
tabVars  == <<window, opens, asked, afresh, keyed, recovered>>

Editable == {"draft", "rejected"}
HomeIds  == 1..MaxHomes
Home     == [text : 0..MaxTexts, status : {"none", "draft", "submitted", "rejected", "verified"},
             photos : 0..PhotoLimit, video : BOOLEAN]
NoHome   == [text |-> 0, status |-> "none", photos |-> 0, video |-> FALSE]
Form     == [home : 0..MaxHomes, text : 0..MaxTexts, step : 1..4, reviewing : BOOLEAN]
Blank0   == [home |-> 0, text |-> 0, step |-> 1, reviewing |-> FALSE]
Local    == [home : 0..MaxHomes, text : 0..MaxTexts, step : 0..4]
NoLocal  == [home |-> 0, text |-> 0, step |-> 0]
FileOf   == [kind : {"photo", "video"}, home : 0..MaxHomes, tries : 0..MaxTries,
             at : {"none", "signing", "sending", "completing", "waiting", "attaching",
                   "refreshing", "failed"},
             held : {"none", "pending", "stored", "ready", "failed", "attached"}]
NoFile   == [kind |-> "photo", home |-> 0, tries |-> 0, at |-> "none", held |-> "none"]
Saving0  == [kind : {"post", "patch", "submit", "drop"}, home : 0..MaxHomes, text : 0..MaxTexts,
             mine : BOOLEAN, outcome : {"none", "done", "refused"}]

MediaThere(h) == h.photos > 0 \/ h.video
RowOfHome(id) == IF id = 0 THEN NoHome ELSE homes[id]
IsEditable == form.home = 0 \/ copy.status \in Editable
HomeBusy == \E r \in sending : r.mine
Shown0 == window = "open" /\ IsEditable

-----------------------------------------------------------------------------
(* Opening and leaving the form *)

OpenHomeForm(id, new) ==
  /\ window = "closed" /\ opens < MaxOpens /\ opens' = opens + 1
  /\ id # 0 => homes[id].status # "none" /\ ~new
  /\ window' = "loading" /\ asked' = id /\ afresh' = new
  /\ UNCHANGED <<homes, form, copy, keyed, recovered, drafted, writing, sending, file, chosen, texts,
                 unnoted, mixed>>

(* A mutant: a draft of any home is restored. *)
DraftForAny(id) == IF afresh THEN NoLocal ELSE drafted

(* The draft that is restored: the asked home's own, or one of no home. *)
DraftFor(id) == IF afresh \/ drafted.home # id THEN NoLocal ELSE drafted

(* A home that is not edited is only shown; no draft is written then. *)
HomeFormLoads ==
  /\ window = "loading" /\ window' = "open"
  /\ LET row == RowOfHome(asked)
         d   == DraftFor(asked)
     IN /\ copy' = row
        /\ IF asked # 0 /\ row.status \notin Editable
           THEN /\ form' = [home |-> asked, text |-> row.text, step |-> 4, reviewing |-> FALSE]
                /\ UNCHANGED <<keyed, recovered, writing>>
           ELSE /\ form' = [home |-> asked, reviewing |-> FALSE,
                            text |-> IF d # NoLocal THEN d.text ELSE row.text,
                            step |-> IF d # NoLocal THEN d.step ELSE 1]
                /\ keyed' = TRUE /\ writing' = TRUE
                /\ recovered' = (d # NoLocal /\ asked = 0)
  /\ asked' = 0 /\ afresh' = FALSE
  /\ UNCHANGED <<homes, opens, drafted, sending, file, chosen, texts, unnoted, mixed>>

(* The form cannot be read: it is there, blank and without a draft. *)
HomeFormFails ==
  /\ window = "loading" /\ window' = "open" /\ asked' = 0 /\ afresh' = FALSE
  /\ UNCHANGED <<homes, opens, form, copy, keyed, recovered, drafted, writing, sending,
                 file, chosen, texts, unnoted, mixed>>

(* The provider's page is not verified: on to that page. *)
NotYetVerified ==
  /\ window = "loading" /\ window' = "closed" /\ asked' = 0 /\ afresh' = FALSE
  /\ UNCHANGED <<homes, opens, form, copy, keyed, recovered, drafted, writing, sending,
                 file, chosen, texts, unnoted, mixed>>

(* The page goes with its timer, its transfer and the answers it waits for.  *)
(* Its draft may name no home though one was made, or is being made.         *)
CloseHomeForm ==
  /\ window = "open" /\ window' = "closed"
  /\ writing' = FALSE
  /\ unnoted' = [t \in 1..MaxTexts |-> unnoted[t]
       + Cardinality({r \in sending : r.mine /\ r.kind = "post" /\ r.outcome # "refused" /\ r.text = t})
       + (IF form.home # 0 /\ form.text = t /\ drafted.text = t /\ drafted.home = 0 THEN 1 ELSE 0)]
  /\ sending' = {[r EXCEPT !.mine = FALSE] : r \in sending}
  /\ file' = NoFile
  /\ form' = Blank0 /\ copy' = NoHome /\ keyed' = FALSE /\ recovered' = FALSE
  /\ UNCHANGED <<homes, opens, asked, afresh, drafted, chosen, texts, mixed>>

DraftWritten ==
  /\ writing /\ writing' = FALSE
  /\ drafted' = [home |-> form.home, text |-> form.text, step |-> form.step]
  /\ UNCHANGED <<homes, tabVars, form, copy, sending, file, chosen, texts, unnoted, mixed>>

DiscardHomeDraft ==
  /\ Shown0 /\ recovered
  /\ drafted' = NoLocal /\ form' = [Blank0 EXCEPT !.reviewing = form.reviewing] /\ copy' = NoHome
  /\ recovered' = FALSE /\ writing' = TRUE
  /\ UNCHANGED <<homes, window, opens, asked, afresh, keyed, sending, file, chosen, texts, unnoted, mixed>>

-----------------------------------------------------------------------------
(* The steps *)

(* What the draft holds has changed: its timer starts. *)
Edited(f) ==
  /\ form' = f
  /\ writing' = (writing \/ (keyed /\ <<f.home, f.text, f.step>> # <<form.home, form.text, form.step>>))

(* An answer makes its home the page's, whatever home the form is about by    *)
(* now, or is being made of.                                                  *)
BelongsTo(id) ==
  mixed' = IF form.home \in {0, id} /\ ~\E r \in sending' : r.mine /\ r.kind = "post"
           THEN mixed ELSE mixed \cup {form.text}

(* The home is read again, and is the page's home. *)
HomeRead(id) == copy' = homes[id] /\ Edited([form EXCEPT !.home = id]) /\ BelongsTo(id)

TypeHome ==
  /\ Shown0 /\ ~form.reviewing /\ form.step = 1 /\ form.text = 0
  /\ texts < MaxTexts /\ texts' = texts + 1
  /\ Edited([form EXCEPT !.text = texts + 1])
  /\ UNCHANGED <<homes, tabVars, copy, drafted, sending, file, chosen, unnoted, mixed>>

ToPlace ==
  /\ Shown0 /\ ~form.reviewing /\ form.step = 1 /\ form.text # 0 /\ ~HomeBusy
  /\ Edited([form EXCEPT !.step = 2])
  /\ UNCHANGED <<homes, tabVars, copy, drafted, sending, file, chosen, texts, unnoted, mixed>>

StepBack ==
  /\ Shown0 /\ ~form.reviewing /\ form.step > 1
  /\ Edited([form EXCEPT !.step = @ - 1])
  /\ UNCHANGED <<homes, tabVars, copy, drafted, sending, file, chosen, texts, unnoted, mixed>>

(* "Review home", and "Close". *)
ReviewHome ==
  /\ Shown0 /\ form.step > 2
  /\ form.reviewing \/ file.at \in {"none", "failed"}
  /\ form' = [form EXCEPT !.reviewing = ~@]
  /\ UNCHANGED <<homes, tabVars, copy, drafted, writing, sending, file, chosen, texts, unnoted, mixed>>

RequestHome(kind) ==
  /\ ~HomeBusy
  /\ sending' = sending \cup {[kind |-> kind, home |-> form.home, text |-> form.text,
                               mine |-> TRUE, outcome |-> "none"]}

(* saveListing: a new row, unless the page knows of one. *)
SaveHome ==
  /\ Shown0 /\ ~form.reviewing /\ form.step = 2 /\ form.text # 0
  /\ RequestHome(IF form.home = 0 THEN "post" ELSE "patch")
  /\ UNCHANGED <<homes, tabVars, form, copy, drafted, writing, file, chosen, texts, unnoted, mixed>>

DropMedia ==
  /\ Shown0 /\ ~form.reviewing /\ form.step = 3 /\ MediaThere(copy)
  /\ RequestHome("drop")
  /\ UNCHANGED <<homes, tabVars, form, copy, drafted, writing, file, chosen, texts, unnoted, mixed>>

SubmitHome ==
  /\ Shown0 /\ form.reviewing /\ form.home # 0 /\ MediaThere(copy)
  /\ RequestHome("submit")
  /\ UNCHANGED <<homes, tabVars, form, copy, drafted, writing, file, chosen, texts, unnoted, mixed>>

(* Without media the submission is not sent, and the form goes back a step. *)
SubmitWithoutMedia ==
  /\ Shown0 /\ form.reviewing /\ form.home # 0 /\ ~MediaThere(copy) /\ ~HomeBusy
  /\ form.step # 3 /\ Edited([form EXCEPT !.step = 3])
  /\ UNCHANGED <<homes, tabVars, copy, drafted, sending, file, chosen, texts, unnoted, mixed>>

-----------------------------------------------------------------------------
(* The server *)

RowStored(r, id, row) ==
  /\ homes' = [homes EXCEPT ![id] = row]
  /\ sending' = (sending \ {r}) \cup {[r EXCEPT !.outcome = "done", !.home = id]}

(* createListing; the bound leaves the rest unserved. *)
CreateServed(r) ==
  /\ r.kind = "post" /\ r.outcome = "none"
  /\ \E id \in HomeIds :
       /\ homes[id].status = "none" /\ \A h \in HomeIds : h < id => homes[h].status # "none"
       /\ RowStored(r, id, [NoHome EXCEPT !.text = r.text, !.status = "draft"])
  /\ UNCHANGED <<tabVars, form, copy, drafted, writing, file, chosen, texts, unnoted, mixed>>

(* updateListing, submitListing, and the removal of a photo or the video. *)
UpdateServed(r) ==
  /\ r.kind # "post" /\ r.outcome = "none"
  /\ LET row == homes[r.home]
     IN IF r.kind = "drop"
        THEN \E left \in {[row EXCEPT !.photos = IF @ > 0 THEN @ - 1 ELSE 0],
                          [row EXCEPT !.video = FALSE]} : RowStored(r, r.home, left)
        ELSE IF row.status \in Editable /\ (r.kind = "submit" => MediaThere(row))
        THEN RowStored(r, r.home, IF r.kind = "submit" THEN [row EXCEPT !.status = "submitted"]
                                                    ELSE [row EXCEPT !.text = r.text])
        ELSE /\ sending' = (sending \ {r}) \cup {[r EXCEPT !.outcome = "refused"]}
             /\ UNCHANGED homes
  /\ UNCHANGED <<tabVars, form, copy, drafted, writing, file, chosen, texts, unnoted, mixed>>

HomeDecided(id, status) ==
  /\ homes[id].status = "submitted" /\ status \in {"verified", "rejected"}
  /\ homes' = [homes EXCEPT ![id].status = status]
  /\ UNCHANGED <<tabVars, form, copy, drafted, writing, sending, file, chosen, texts, unnoted, mixed>>

(* A mutant: the row that was made is not noted. *)
SaveAnsweredUnnoted(r) ==
  /\ r.kind \in {"post", "patch"} /\ r.outcome = "done" /\ r.mine
  /\ sending' = sending \ {r}
  /\ copy' = homes[r.home]
  /\ Edited([form EXCEPT !.step = 3])
  /\ UNCHANGED <<homes, tabVars, drafted, file, chosen, texts, unnoted, mixed>>

SaveAnswered(r) ==
  /\ r.kind \in {"post", "patch"} /\ r.outcome = "done" /\ r.mine
  /\ sending' = sending \ {r}
  /\ copy' = homes[r.home]
  /\ Edited([form EXCEPT !.home = r.home, !.step = 3]) /\ BelongsTo(r.home)
  /\ UNCHANGED <<homes, tabVars, drafted, file, chosen, texts, unnoted>>

DropAnswered(r) ==
  /\ r.kind = "drop" /\ r.outcome = "done" /\ r.mine
  /\ sending' = sending \ {r} /\ HomeRead(r.home)
  /\ UNCHANGED <<homes, tabVars, drafted, file, chosen, texts, unnoted>>

(* The draft goes; the last step writes it again, unless it was there before. *)
SubmitAnswered(r) ==
  /\ r.kind = "submit" /\ r.outcome = "done" /\ r.mine
  /\ sending' = sending \ {r}
  /\ drafted' = IF keyed THEN NoLocal ELSE drafted
  /\ LET done == [form EXCEPT !.step = 4, !.reviewing = FALSE]
     IN \/ copy' = homes[r.home] /\ Edited([done EXCEPT !.home = r.home]) /\ BelongsTo(r.home)
        \/ /\ copy' = IF form.home = 0 THEN copy ELSE [copy EXCEPT !.status = "submitted"]
           /\ Edited(done) /\ UNCHANGED mixed
  /\ UNCHANGED <<homes, tabVars, file, chosen, texts, unnoted>>

(* It is refused, or it or its answer is lost: the page says so. *)
HomeRequestFails(r) ==
  /\ sending' = sending \ {r}
  /\ unnoted' = IF r.mine /\ r.kind = "post" /\ r.outcome = "done"
                THEN [unnoted EXCEPT ![r.text] = @ + 1] ELSE unnoted
  /\ UNCHANGED <<homes, tabVars, form, copy, drafted, writing, file, chosen, texts, mixed>>

-----------------------------------------------------------------------------
(* A photo or a video *)

fileOthers == <<homes, tabVars, drafted, sending, chosen, texts, unnoted>>
pageOfFile == <<form, writing, copy, mixed>>
FileAt(stage) == window = "open" /\ file.at = stage

ChooseMedia(kind) ==
  /\ Shown0 /\ ~form.reviewing /\ form.step = 3 /\ form.home # 0
  /\ file.at \in {"none", "failed"}
  /\ IF kind = "photo" THEN copy.photos < PhotoLimit ELSE ~copy.video
  /\ chosen < MaxFiles /\ chosen' = chosen + 1
  /\ file' = [NoFile EXCEPT !.kind = kind, !.home = form.home, !.at = "signing"]
  /\ UNCHANGED <<homes, tabVars, drafted, sending, texts, unnoted, pageOfFile>>

UploadSigned ==
  /\ FileAt("signing")
  /\ file' = [file EXCEPT !.at = "sending", !.held = "pending"]
  /\ UNCHANGED <<fileOthers, pageOfFile>>

(* Without what a completion needs, only a wait is left. *)
FileSent ==
  /\ FileAt("sending")
  /\ \E next \in {"completing", "waiting"} : file' = [file EXCEPT !.at = next, !.held = "stored"]
  /\ UNCHANGED <<fileOthers, pageOfFile>>

(* completeMediaUpload: ready, or not known yet. *)
UploadCompleted ==
  /\ FileAt("completing")
  /\ file' \in {[file EXCEPT !.at = "attaching", !.held = "ready"], [file EXCEPT !.at = "waiting"]}
  /\ file'.at = "attaching" => file.held \in {"stored", "ready"}
  /\ UNCHANGED <<fileOthers, pageOfFile>>

(* The store's report, or the server's own check, of a file it was sent. *)
FileReported ==
  /\ file.held = "stored"
  /\ \E held \in {"ready", "failed"} : file' = [file EXCEPT !.held = held]
  /\ UNCHANGED <<fileOthers, pageOfFile>>

(* A mutant: a wait that is over is taken for an answer. *)
StatusReadHopeful ==
  /\ FileAt("waiting")
  /\ \/ file.held = "ready" /\ file' = [file EXCEPT !.at = "attaching"]
     \/ file.held = "stored" /\ file' = IF file.tries < MaxTries THEN [file EXCEPT !.tries = @ + 1]
                                                                 ELSE NoFile
     \/ file.held = "failed" /\ file' = NoFile
  /\ UNCHANGED <<fileOthers, pageOfFile>>

(* An attempt of waitForMediaReady; after the last one it gives up. *)
StatusRead ==
  /\ FileAt("waiting")
  /\ \/ file.held = "ready" /\ file' = [file EXCEPT !.at = "attaching"]
     \/ file.held = "stored" /\ file.tries < MaxTries /\ file' = [file EXCEPT !.tries = @ + 1]
     \/ (file.held = "failed" \/ file.tries = MaxTries) /\ file' = [file EXCEPT !.at = "failed"]
  /\ UNCHANGED <<fileOthers, pageOfFile>>

(* attachPhotoMedia, attachVideoMedia: the file is ready and there is room. *)
MediaAttached ==
  /\ FileAt("attaching") /\ file.held = "ready"
  /\ LET row == homes[file.home]
     IN IF file.kind = "photo"
        THEN row.photos < PhotoLimit /\ homes' = [homes EXCEPT ![file.home].photos = @ + 1]
        ELSE ~row.video /\ homes' = [homes EXCEPT ![file.home].video = TRUE]
  /\ file' = [file EXCEPT !.at = "refreshing", !.held = "attached"]
  /\ UNCHANGED <<tabVars, form, copy, drafted, writing, sending, chosen, texts, unnoted, mixed>>

MediaRefreshed ==
  /\ FileAt("refreshing") /\ file' = NoFile
  /\ UNCHANGED fileOthers /\ HomeRead(file.home)

(* Refused or lost at any stage; when there was no room the home is read     *)
(* again.                                                                    *)
UploadGivenUp ==
  /\ window = "open" /\ file.at \notin {"none", "failed"}
  /\ file' = [file EXCEPT !.at = "failed"] /\ UNCHANGED fileOthers
  /\ \/ UNCHANGED pageOfFile
     \/ file.at = "attaching" /\ HomeRead(file.home)

(* "Refresh media". *)
RefreshMedia ==
  /\ Shown0 /\ ~form.reviewing /\ form.step = 3 /\ form.home # 0
  /\ UNCHANGED <<fileOthers, file>> /\ HomeRead(form.home)

-----------------------------------------------------------------------------
HomeFormInit ==
  /\ homes = [id \in HomeIds |-> NoHome]
  /\ window = "closed" /\ opens = 0 /\ asked = 0 /\ afresh = FALSE
  /\ form = Blank0 /\ copy = NoHome /\ keyed = FALSE /\ recovered = FALSE
  /\ drafted = NoLocal /\ writing = FALSE /\ sending = {} /\ file = NoFile
  /\ chosen = 0 /\ texts = 0 /\ unnoted = [t \in 1..MaxTexts |-> 0]
  /\ mixed = {}

HomeFormNext ==
  \/ \E id \in 0..MaxHomes, new \in BOOLEAN : OpenHomeForm(id, new)
  \/ HomeFormLoads \/ HomeFormFails \/ NotYetVerified \/ CloseHomeForm
  \/ DraftWritten \/ DiscardHomeDraft \/ TypeHome \/ ToPlace \/ StepBack \/ ReviewHome
  \/ SaveHome \/ DropMedia \/ SubmitHome \/ SubmitWithoutMedia
  \/ \E r \in sending : \/ CreateServed(r) \/ UpdateServed(r) \/ SaveAnswered(r)
                        \/ DropAnswered(r) \/ SubmitAnswered(r) \/ HomeRequestFails(r)
  \/ \E id \in HomeIds, status \in {"verified", "rejected"} : HomeDecided(id, status)
  \/ \E kind \in {"photo", "video"} : ChooseMedia(kind)
  \/ UploadSigned \/ FileSent \/ UploadCompleted \/ FileReported \/ StatusRead
  \/ MediaAttached \/ MediaRefreshed \/ UploadGivenUp \/ RefreshMedia

HomeFormSpec == HomeFormInit /\ [][HomeFormNext]_homeVars

-----------------------------------------------------------------------------
(* Rows, page, draft, requests and file have their types. *)
HomeFormTypeOK ==
  /\ homes \in [HomeIds -> Home] /\ window \in {"closed", "loading", "open"}
  /\ opens \in 0..MaxOpens /\ asked \in 0..MaxHomes /\ texts \in 0..MaxTexts
  /\ chosen \in 0..MaxFiles
  /\ {afresh, keyed, recovered, writing} \subseteq BOOLEAN
  /\ form \in Form /\ copy \in Home /\ drafted \in Local /\ file \in FileOf
  /\ sending \subseteq Saving0 /\ unnoted \in [1..MaxTexts -> Nat]
  /\ mixed \subseteq 0..MaxTexts

MadeOf(t) == {id \in HomeIds : homes[id].status # "none" /\ homes[id].text = t}

(* What is typed once becomes one home, however often the form is saved,     *)
(* left and restored from its draft, unless an answer was lost, the page     *)
(* went before the draft had the new row's name, or an answer of another     *)
(* home arrived (homes/new/page.tsx saveListing, the draft's rules).         *)
OneHomePerText ==
  \A t \in 1..MaxTexts \ mixed : Cardinality(MadeOf(t)) <= 1 + unnoted[t]

(* The same without the last exception.  The code does not hold it: an       *)
(* upload that ends after its draft was discarded makes its home the page's  *)
(* again, and the next save gives it the new text.                           *)
OneHomeAlways == \A t \in 1..MaxTexts : Cardinality(MadeOf(t)) <= 1 + unnoted[t]

(* A file the page has finished with is attached to the home, or the         *)
(* provider was told that it is not (addMedia, waitForMediaReady).           *)
AttachedOrTold == [][file.at \notin {"none", "failed"} /\ file'.at = "none" /\ window' = "open"
                       => file.held = "attached"]_homeVars

=============================================================================
