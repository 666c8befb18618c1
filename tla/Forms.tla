------------------------------- MODULE Forms -------------------------------
(***************************************************************************)
(* The forms a person fills in step by step: signing up, the student       *)
(* profile and the provider's Page, with the draft each keeps in           *)
(* localStorage and the files it uploads on the way.                       *)
(*                                                                         *)
(* The fields of a step are abstracted to whether the step accepts them.   *)
(* What the server does with a form is the module Verification.            *)
(***************************************************************************)
EXTENDS Naturals, FiniteSets

LOCAL INSTANCE FiniteSetsExt

CONSTANT
  MaxUploads   \* a bound: answers about files the Page's form awaits at a time

VARIABLES
  wizard,      \* which form this is
  view,        \* "closed", "form", "restored" (a draft), "waiting" (for a review),
               \* "leaving" (the next page is on its way)
  load,        \* what the form loads when it opens: "idle", "asked", the review as an
               \* answer on its way tells it, "loaded", "unkeyed" (no draftKey: it failed)
  step,        \* step
  field,       \* what the fields of the two steps with text hold
  files,       \* the uploaded files the form refers to
  unready,     \* mediaProcessing: those the server has not confirmed
  draft,       \* the draft in localStorage
  writeDue,    \* the timer of 400 ms that writes it
  uploads,     \* answers about files under way
  submitting,  \* the form that is being sent
  review,      \* what became of the last one, on the server
  received     \* history: the forms the server took

formVars == <<wizard, view, load, step, field, files, unready, draft, writeDue, uploads, submitting,
              review, received>>
formData == <<field, files, unready>>
reviewed == <<review, received>>

Texts == {"first", "second"}    \* account and password; details and contact; Page and payout
Files == {"proof", "picture"}
Field == [Texts -> {"bad", "ok"}]
Blank == [t \in Texts |-> "bad"]
Filled == [t \in Texts |-> "ok"]
Content == [field : Field, files : SUBSET Files]
NoDraft == [step |-> 5, field |-> Blank, files |-> {}]
NotSent == [pc |-> "idle", field |-> Blank, files |-> {}, keyed |-> FALSE]
Reviews == {"none", "pending", "accepted", "rejected"}

FirstStep == IF wizard = "page" THEN 1 ELSE 0
LastStep == CASE wizard = "signup" -> 2 [] wizard = "student" -> 4 [] OTHER -> 3
NeededFiles == IF wizard = "signup" THEN {} ELSE Files
shown == view \in {"form", "restored"}
keyed == load = "loaded"      \* draftKey

-----------------------------------------------------------------------------
(* The steps and what each asks for *)

SignupStep(t)  == IF t = "first" THEN 0 ELSE 1
ProfileStep(t) == IF t = "first" THEN 1 ELSE 3
StepOf(t) == IF wizard = "signup" THEN SignupStep(t) ELSE ProfileStep(t)

(* validateCurrentStep *)
SignupStepHolds(n) == \A t \in Texts : SignupStep(t) = n => field[t] = "ok"

(* validateStep of the student profile; the links of its last step are left  *)
(* out.                                                                      *)
StudentStepHolds(n) ==
  /\ \A t \in Texts : ProfileStep(t) = n => field[t] = "ok"
  /\ n = 2 => Files \subseteq files

(* validateStep of the Page *)
PageStepHolds(n) ==
  /\ \A t \in Texts : ProfileStep(t) = n => field[t] = "ok"
  /\ n = 2 => Files \subseteq files

(* The steps that are wrong when the form is sent; validateAccountStep looks *)
(* at both of signing up.                                                    *)
Refused == CASE wizard = "signup"  -> {n \in 0..1 : ~SignupStepHolds(n)}
             [] wizard = "student" -> {n \in 1..3 : ~StudentStepHolds(n)}
             [] OTHER              -> {n \in 1..3 : ~PageStepHolds(n)}

(* The draft of signing up holds no password. *)
DraftOf(n, f, w) ==
  [step |-> n, field |-> IF wizard = "signup" THEN [f EXCEPT !["second"] = "bad"] ELSE f,
   files |-> w]

-----------------------------------------------------------------------------
(* What the server has is put into the form, and over it the draft.          *)
Drafted == draft # NoDraft

(* The draft of signing up has a fixed key. *)
OpenSignup ==
  /\ wizard = "signup" /\ view = "closed" /\ review = "none"
  /\ load' = "loaded" /\ writeDue' = TRUE
  /\ IF Drafted THEN view' = "restored" /\ step' = draft.step /\ field' = draft.field
                ELSE view' = "form" /\ UNCHANGED <<step, field>>
  /\ UNCHANGED <<wizard, files, unready, draft, uploads, submitting, reviewed>>

(* The two others are shown, empty, and may be filled in while what they     *)
(* load is on its way.                                                       *)
OpenProfile ==
  /\ wizard # "signup" /\ view = "closed"
  /\ view' = "form" /\ load' = "asked" /\ writeDue' = TRUE
  /\ UNCHANGED <<wizard, step, formData, draft, uploads, submitting, reviewed>>

ProfileServed ==
  /\ load = "asked" /\ load' = review
  /\ UNCHANGED <<wizard, view, step, formData, draft, writeDue, uploads, submitting, reviewed>>

(* The form stays as it is, without a key for its draft.                     *)
ProfileLost ==
  /\ load \in {"asked"} \cup Reviews /\ load' = "unkeyed"
  /\ UNCHANGED <<wizard, view, step, formData, draft, writeDue, uploads, submitting, reviewed>>

Arrived(v) == /\ view' = IF view = "leaving" THEN view ELSE v
              /\ load' = "loaded" /\ writeDue' = TRUE
              /\ UNCHANGED <<wizard, uploads, submitting, reviewed>>

(* Who waits for a review sees that; who has been approved is sent on.  The  *)
(* profile may not be found; without it and a draft the form stays.          *)
StudentLoaded ==
  /\ wizard = "student" /\ load \in Reviews
  /\ Arrived(CASE load = "pending" -> "waiting" [] load = "accepted" -> "leaving"
                [] Drafted -> "restored" [] OTHER -> "form")
  /\ \E found \in IF load = "none" THEN {FALSE} ELSE BOOLEAN :
       CASE Drafted -> field' = draft.field /\ files' = draft.files /\ step' = draft.step
         [] ~Drafted /\ found -> field' = Filled /\ files' = Files /\ UNCHANGED step
         [] OTHER -> UNCHANGED <<field, files, step>>
  /\ UNCHANGED <<unready, draft>>

(* A Page that is under review is shown elsewhere.  Files that were uploaded *)
(* before are found, some not confirmed, and written to the draft.           *)
PageLoaded ==
  /\ wizard = "page" /\ load \in {"none", "rejected"}
  /\ Arrived(IF Drafted /\ load = "none" THEN "restored" ELSE "form")
  /\ step' = IF Drafted THEN draft.step ELSE FirstStep
  /\ field' = CASE Drafted -> draft.field [] load = "none" -> Blank [] OTHER -> Filled
  /\ LET base == CASE Drafted -> draft.files [] load = "none" -> {} [] OTHER -> Files
     IN  /\ \E found \in SUBSET Files : files' = base \cup found
         /\ draft' = IF files' = base THEN draft ELSE DraftOf(step', field', files')
  /\ unready' \in SUBSET files'

PageElsewhere ==
  /\ wizard = "page" /\ load \in {"pending", "accepted"}
  /\ load' = "unkeyed" /\ view' = "leaving"
  /\ UNCHANGED <<wizard, step, formData, draft, writeDue, uploads, submitting, reviewed>>

(* Another page, a reload: timers and answers are forgotten.                 *)
CloseForm ==
  /\ view # "closed" /\ view' = "closed" /\ load' = "idle"
  /\ writeDue' = FALSE /\ uploads' = {} /\ submitting' = NotSent
  /\ step' = FirstStep /\ field' = Blank /\ files' = {} /\ unready' = {}
  /\ UNCHANGED <<wizard, draft, reviewed>>

(* The effect with the timer, of the three forms: it waits for the key.      *)
WriteDraft(w) ==
  /\ wizard = w /\ keyed /\ writeDue /\ writeDue' = FALSE
  /\ draft' = DraftOf(step, field, files)
  /\ UNCHANGED <<wizard, view, load, step, formData, uploads, submitting, reviewed>>

WriteSignupDraft  == WriteDraft("signup")
WriteStudentDraft == WriteDraft("student")
WritePageDraft    == WriteDraft("page")

(* discardDraft: the timer writes the empty form soon after. *)
Discard(w) ==
  /\ wizard = w /\ view = "restored" /\ view' = "form"
  /\ draft' = NoDraft
  /\ field' = Blank /\ files' = {} /\ unready' = {} /\ step' = FirstStep
  /\ writeDue' = TRUE
  /\ UNCHANGED <<wizard, load, uploads, submitting, reviewed>>

DiscardSignup  == Discard("signup")
DiscardStudent == Discard("student")
DiscardPage    == Discard("page")

(* The fields of the step that is shown; a password starts no timer.         *)
TypeText(w, t) ==
  /\ wizard = w /\ shown /\ step = StepOf(t)
  /\ \E v \in {"bad", "ok"} \ {field[t]} : field' = [field EXCEPT ![t] = v]
  /\ writeDue' = (writeDue \/ w # "signup" \/ t = "first")
  /\ UNCHANGED <<wizard, view, load, step, files, unready, draft, uploads, submitting, reviewed>>

TypeAccount  == TypeText("signup", "first")
TypePassword == TypeText("signup", "second")
TypeStudy    == TypeText("student", "first")
TypeContact  == TypeText("student", "second")
TypePage     == TypeText("page", "first")
TypePayout   == TypeText("page", "second")

-----------------------------------------------------------------------------
(* A mutant: the timer is not started again for the step alone. *)
GoToUnsaved(n) ==
  /\ step' = n
  /\ UNCHANGED <<wizard, view, load, formData, draft, writeDue, uploads, submitting, reviewed>>

GoTo(n) ==
  /\ step' = n
  /\ writeDue' = (writeDue \/ n # step)
  /\ UNCHANGED <<wizard, view, load, formData, draft, uploads, submitting, reviewed>>

Uploading == {u \in uploads : ~u.swap}

(* goNext, nextStep: the step is checked.  next on the Page's form does not, *)
(* but waits for an upload.                                                  *)
Forth(w, allowed) == wizard = w /\ shown /\ step < LastStep /\ allowed /\ GoTo(step + 1)
Back(w) == wizard = w /\ shown /\ step > FirstStep /\ GoTo(step - 1)

SignupNext  == Forth("signup", SignupStepHolds(step))
StudentNext == Forth("student", StudentStepHolds(step))
PageNext    == Forth("page", Uploading = {})
SignupBack  == Back("signup")
StudentBack == Back("student")
PageBack    == Back("page")

-----------------------------------------------------------------------------
(* Files *)

(* The handlers of the Page's form keep the form they were made with; those  *)
(* of the student's do not use it.                                           *)
Begin(f, swap) ==
  /\ wizard = "page" => Cardinality(uploads) < MaxUploads
  /\ uploads' = uploads \cup
       {[file |-> f, swap |-> swap,
         field |-> IF wizard = "page" THEN field ELSE Blank,
         files |-> IF wizard = "page" THEN files ELSE {},
         keyed |-> wizard = "page" /\ keyed]}

(* The input of a file that is being uploaded is disabled. *)
StudentUpload(f) ==
  /\ wizard = "student" /\ shown /\ step = 2
  /\ \A u \in uploads : u.file # f
  /\ Begin(f, FALSE)
  /\ UNCHANGED <<wizard, view, load, step, formData, draft, writeDue, submitting, reviewed>>

(* Here both are, and that of a file the server has not confirmed.           *)
PageUpload(f) ==
  /\ wizard = "page" /\ shown /\ step = 2
  /\ Uploading = {} /\ f \notin unready
  /\ Begin(f, FALSE)
  /\ UNCHANGED <<wizard, view, load, step, formData, draft, writeDue, submitting, reviewed>>

(* selectExistingUpload: a file the server has is put into the form; one it  *)
(* replaces is cancelled first, and the form that was is then put back.      *)
ChooseFile(f) ==
  /\ shown /\ wizard = "page" /\ step = 2 /\ keyed
  /\ IF f \in files
     THEN Begin(f, TRUE) /\ UNCHANGED <<files, unready, draft, writeDue>>
     ELSE /\ files' = files \cup {f} /\ unready' \in {unready, unready \cup {f}}
          /\ draft' = DraftOf(step, field, files') /\ writeDue' = TRUE
          /\ UNCHANGED uploads
  /\ UNCHANGED <<wizard, view, load, step, field, submitting, reviewed>>

(* uploadStudentship, uploadAvatar: the file is put into the form as it is.  *)
StudentFileUploaded(u) ==
  /\ wizard = "student"
  /\ uploads' = uploads \ {u}
  /\ files' = files \cup {u.file}
  /\ writeDue' = TRUE
  /\ UNCHANGED <<wizard, view, load, step, field, unready, draft, submitting, reviewed>>

(* upload, selectExistingUpload: the file is put into the form the page had  *)
(* when it was chosen, and that is written to the draft if it had its key.   *)
PageFileUploaded(u) ==
  /\ wizard = "page"
  /\ uploads' = uploads \ {u}
  /\ files' = u.files \cup {u.file} /\ field' = u.field
  /\ unready' \in SUBSET files'
  /\ draft' = IF u.keyed THEN DraftOf(2, u.field, files') ELSE draft
  /\ writeDue' = TRUE
  /\ UNCHANGED <<wizard, view, load, step, submitting, reviewed>>

(* An upload fails; 429 leads the student back to the files.                 *)
UploadFails(u) ==
  /\ uploads' = uploads \ {u}
  /\ step' \in IF wizard = "student" THEN {step, 2} ELSE {step}
  /\ writeDue' = (writeDue \/ step' # step)
  /\ UNCHANGED <<wizard, view, load, formData, draft, submitting, reviewed>>

(* checkMediaStatus: some of the files are confirmed by now.  The record of  *)
(* their completion in the draft is left out.                                *)
CheckMedia ==
  /\ wizard = "page" /\ shown /\ unready # {}
  /\ unready' \in SUBSET unready
  /\ UNCHANGED <<wizard, view, load, step, field, files, draft, writeDue, uploads, submitting, reviewed>>

-----------------------------------------------------------------------------
(* Submitting *)

CanSubmit(w) ==
  /\ wizard = w /\ shown /\ step = LastStep /\ Uploading = {} /\ submitting = NotSent

(* What is wrong stops it; signing up shows nothing new, the others the      *)
(* first step that is refused.                                               *)
SignupRefused  == CanSubmit("signup") /\ Refused # {} /\ GoTo(step)
StudentRefused == CanSubmit("student") /\ Refused # {} /\ GoTo(Min(Refused))
PageRefused    == CanSubmit("page") /\ Refused # {} /\ GoTo(Min(Refused))

SendForm == /\ submitting' = [pc |-> "sent", field |-> field, files |-> files, keyed |-> keyed]
            /\ UNCHANGED <<wizard, view, load, step, formData, draft, writeDue, uploads, reviewed>>

(* Mutants: the steps' own checks are trusted. *)
SubmitPageUnchecked    == CanSubmit("page") /\ unready = {} /\ SendForm
SubmitStudentUnchecked == CanSubmit("student") /\ SendForm

(* Every step is checked again; the files of the Page must be confirmed.     *)
SubmitSignup  == CanSubmit("signup") /\ Refused = {} /\ SendForm
SubmitStudent == CanSubmit("student") /\ Refused = {} /\ SendForm
SubmitPage    == CanSubmit("page") /\ Refused = {} /\ unready = {} /\ SendForm

(* The server takes it unless it has one already; a Page that was not loaded *)
(* is sent as a new one.                                                     *)
SubmitArrives ==
  /\ submitting.pc = "sent"
  /\ review = "none" \/ (review = "rejected" /\ (wizard = "page" => submitting.keyed))
  /\ received' = received \cup {[field |-> submitting.field, files |-> submitting.files]}
  /\ review' = IF wizard = "signup" THEN "accepted" ELSE "pending"
  /\ submitting' = [submitting EXCEPT !.pc = "stored"]
  /\ UNCHANGED <<wizard, view, load, step, formData, draft, writeDue, uploads>>

(* The draft goes, and signing up stops its timer; each form is left for     *)
(* another page, and until that is shown a due timer writes the draft again. *)
SubmitDone ==
  /\ submitting.pc = "stored" /\ submitting' = NotSent
  /\ draft' = IF submitting.keyed THEN NoDraft ELSE draft
  /\ writeDue' = (writeDue /\ wizard # "signup")
  /\ view' = "leaving"
  /\ UNCHANGED <<wizard, load, step, formData, uploads, reviewed>>

(* It was refused, or it or its answer was lost.                             *)
SubmitFails ==
  /\ submitting.pc # "idle" /\ submitting' = NotSent
  /\ UNCHANGED <<wizard, view, load, step, formData, draft, writeDue, uploads, reviewed>>

ReviewDecided ==
  /\ review = "pending" /\ review' \in {"rejected", "accepted"}
  /\ UNCHANGED <<wizard, view, load, step, formData, draft, writeDue, uploads, submitting, received>>

(* refreshStatus: the page that says so asks every 30 s.  An approved        *)
(* student leaves it (CloseForm).                                            *)
ReviewSeen ==
  /\ view = "waiting" /\ review = "rejected" /\ view' = "form"
  /\ UNCHANGED <<wizard, load, step, formData, draft, writeDue, uploads, submitting, reviewed>>

-----------------------------------------------------------------------------
FormsInit ==
  /\ wizard \in {"signup", "student", "page"}
  /\ view = "closed" /\ load = "idle" /\ step = FirstStep /\ field = Blank /\ files = {} /\ unready = {}
  /\ draft = NoDraft /\ writeDue = FALSE
  /\ uploads = {} /\ submitting = NotSent /\ review = "none" /\ received = {}

FormsNext ==
  \/ OpenSignup \/ OpenProfile \/ ProfileServed \/ ProfileLost
  \/ StudentLoaded \/ PageLoaded \/ PageElsewhere \/ CloseForm
  \/ WriteSignupDraft \/ WriteStudentDraft \/ WritePageDraft
  \/ DiscardSignup \/ DiscardStudent \/ DiscardPage
  \/ TypeAccount \/ TypePassword \/ TypeStudy \/ TypeContact \/ TypePage \/ TypePayout
  \/ SignupNext \/ StudentNext \/ PageNext \/ SignupBack \/ StudentBack \/ PageBack
  \/ \E f \in Files : StudentUpload(f) \/ PageUpload(f) \/ ChooseFile(f)
  \/ \E u \in uploads : StudentFileUploaded(u) \/ PageFileUploaded(u) \/ UploadFails(u)
  \/ CheckMedia
  \/ SignupRefused \/ StudentRefused \/ PageRefused
  \/ SubmitSignup \/ SubmitStudent \/ SubmitPage
  \/ SubmitArrives \/ SubmitDone \/ SubmitFails \/ ReviewDecided \/ ReviewSeen

FormsSpec == FormsInit /\ [][FormsNext]_formVars

-----------------------------------------------------------------------------
(* The form, its draft and its requests have their types. *)
FormsTypeOK ==
  /\ wizard \in {"signup", "student", "page"}
  /\ view \in {"closed", "form", "restored", "waiting", "leaving"} /\ writeDue \in BOOLEAN
  /\ load \in {"idle", "asked", "loaded", "unkeyed"} \cup Reviews
  /\ step \in FirstStep..LastStep
  /\ field \in Field /\ files \subseteq Files /\ unready \subseteq files
  /\ draft \in [step : 0..5, field : Field, files : SUBSET Files]
  /\ uploads \subseteq
       [file : Files, swap : BOOLEAN, field : Field, files : SUBSET Files, keyed : BOOLEAN]
  /\ submitting \in
       [pc : {"idle", "sent", "stored"}, field : Field, files : SUBSET Files, keyed : BOOLEAN]
  /\ review \in Reviews
  /\ received \subseteq Content

(* Whatever the server accepted had passed the rules of every step at once,  *)
(* however drafts were restored, steps taken back, files refused and texts   *)
(* changed after their step had been left (submit of the three forms).       *)
ReceivedIsComplete ==
  \A r \in received : r.files = NeededFiles /\ \A t \in Texts : r.field[t] = "ok"

(* Once the form is loaded and no write is due, the draft is the form that   *)
(* is shown: a reload then costs nothing but the password, whatever loads,   *)
(* uploads and moves between steps came before (the effect with the 400 ms   *)
(* timer in each form).  Without what it loads a form has no draft.          *)
DraftIsCurrent == shown /\ keyed /\ ~writeDue => draft = DraftOf(step, field, files)

(* "Your draft is still saved." (the error of a Page's submission).  The     *)
(* code does not keep it where the form could not be loaded: it is filled in *)
(* all the same, and nothing of it is drafted.                               *)
TypedIsDrafted == wizard = "page" /\ load = "unkeyed" /\ submitting.pc # "idle" => Drafted

(* "Your details stay in this form while you move between sections." The     *)
(* code does not keep it while a file is uploaded, and what is typed before  *)
(* the form is loaded goes as well.                                          *)
DetailsStay == [][(\E u \in uploads : PageFileUploaded(u)) => field' = field]_formVars
TypedStays == [][PageLoaded /\ field # Blank => field' = field]_formVars

=============================================================================
