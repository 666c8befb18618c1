------------------------------ MODULE Listings ------------------------------
(***************************************************************************)
(* The life of a home before it is booked: ListingsService (draft, photos, *)
(* submission, review, deletion), FraudService (a report of the home, a    *)
(* duplicate flag on it) and AdminService.flagListing.                     *)
(*                                                                         *)
(* Homes share no row but duplicate flags, so one home is modelled, with   *)
(* one report of it, of its owner, or of both.  A handler reads and checks *)
(* rows, and writes `where: { id }` later, whatever others have written    *)
(* meanwhile.                                                              *)
(* What booking does to a verified home is in module Bookings.             *)
(***************************************************************************)
EXTENDS Naturals, FiniteSets

CONSTANTS
  Slots,      \* requests that may be in progress at a time
  MaxPhotos,  \* assertPhotoCapacity: 5
  MaxPrice    \* bound: prices are 1..MaxPrice

ASSUME ListingsAssumption ==
  IsFiniteSet(Slots) /\ MaxPhotos \in Nat \ {0} /\ MaxPrice \in Nat \ {0}

VARIABLES
  status,      \* listings.status; "none" before the home exists, "gone" after
  price,       \* listings.price
  discount,    \* listings.discount_amount, 0 also for null
  photos,      \* rows of listing_photos
  video,       \* whether listing_videos has a row
  report,      \* fraud_reports.status, "none" without a row
  named,       \* whom its row names: target_listing_id, target_user_id
  duplicate,   \* duplicate_flags.status, "none" without a row
  hashing,     \* an image-hash job for one of its photos waits
  penalties,   \* the owner's trust events, of the report (-60) and the flag (-40)
  bare,        \* history: photo or video rows may have outlived their files
  contested,   \* history: two administrators have resolved one case at once
  slot,        \* what each request has read and is about to write
  overlapped   \* history: two requests have been in progress at once

vars == <<status, price, discount, photos, video, report, named, duplicate,
          hashing, penalties, bare, contested, slot, overlapped>>
terms == <<price, discount>>
media == <<photos, video, bare>>
fraud == <<report, named, duplicate, hashing, penalties, contested>>

Status  == {"none", "DRAFT", "SUBMITTED", "VERIFIED", "REJECTED", "FLAGGED", "gone"}
Outcome == {"CONFIRMED", "DISMISSED"}
Case    == {"none", "PENDING"} \cup Outcome
Prices  == 1..MaxPrice
Keep    == MaxPrice + 1    \* an update that leaves the column alone
Pc == {"idle", "update", "photo", "video", "submit", "review", "delete",
       "report", "flag", "penalise"}
Targets == SUBSET {"home", "owner"}
Request == [pc : Pc, price : 1..Keep, discount : 0..Keep, verdict : Status \cup Outcome,
            named : Targets]
Idle == [pc |-> "idle", price |-> Keep, discount |-> Keep, verdict |-> "none", named |-> {}]

-----------------------------------------------------------------------------
Exists == status \notin {"none", "gone"}
Busy == {s \in Slots : slot[s].pc # "idle"}

(* A request begins, goes on, or ends. *)
Begin(s, r) ==
  /\ slot[s].pc = "idle"
  /\ slot' = [slot EXCEPT ![s] = r]
  /\ overlapped' = (overlapped \/ Busy # {})
Goto(s, pc) == slot' = [slot EXCEPT ![s].pc = pc] /\ UNCHANGED overlapped
End(s)      == slot' = [slot EXCEPT ![s] = Idle] /\ UNCHANGED overlapped
At(s, pc)   == slot[s].pc = pc

(* A request that is one statement. *)
Alone == UNCHANGED slot /\ overlapped' = (overlapped \/ Busy # {})

ReadFor(s, pc) == Begin(s, [Idle EXCEPT !.pc = pc]) /\ UNCHANGED <<status, terms, media, fraud>>

(* The row has gone: the update throws and its transaction rolls back. *)
Missing(s) == ~Exists /\ End(s) /\ UNCHANGED <<status, terms, media, fraud>>

-----------------------------------------------------------------------------
(* createListing and updateListing *)

Create ==
  /\ status = "none"
  /\ status' = "DRAFT"
  /\ \E p \in Prices, d \in 0..MaxPrice :
       d <= p /\ price' = p /\ discount' = d
  /\ Alone
  /\ UNCHANGED <<media, fraud>>

Merged(new, old) == IF new = Keep THEN old ELSE new

(* A mutant: the discount that stays is not compared with the new price. *)
UpdateReadInputOnly(s) ==
  /\ status \in {"DRAFT", "REJECTED"}
  /\ \E p \in 1..Keep, d \in 0..Keep :
       /\ d = Keep \/ d <= Merged(p, price)
       /\ Begin(s, [Idle EXCEPT !.pc = "update", !.price = p, !.discount = d])
  /\ UNCHANGED <<status, terms, media, fraud>>

(* A mutant: an update of a home in any state. *)
UpdateReadAny(s) ==
  /\ Exists
  /\ \E p \in 1..Keep, d \in 0..Keep :
       /\ Merged(d, discount) <= Merged(p, price)
       /\ Begin(s, [Idle EXCEPT !.pc = "update", !.price = p, !.discount = d])
  /\ UNCHANGED <<status, terms, media, fraud>>

UpdateRead(s) ==
  /\ status \in {"DRAFT", "REJECTED"}
  /\ \E p \in 1..Keep, d \in 0..Keep :
       /\ Merged(d, discount) <= Merged(p, price)
       /\ Begin(s, [Idle EXCEPT !.pc = "update", !.price = p, !.discount = d])
  /\ UNCHANGED <<status, terms, media, fraud>>

Update(s) ==
  /\ At(s, "update")
  /\ \/ /\ Exists
        /\ price' = Merged(slot[s].price, price)
        /\ discount' = Merged(slot[s].discount, discount)
        /\ End(s)
        /\ UNCHANGED <<status, media, fraud>>
     \/ Missing(s)

-----------------------------------------------------------------------------
(* uploadPhoto and attachPhotoMedia, attachVideoMedia, removePhoto and       *)
(* removeVideo: none of them looks at the home's status.                     *)

(* A mutant: a photo row is deleted without being looked up. *)
RemoveUnchecked ==
  /\ Exists
  /\ photos' = photos - 1
  /\ Alone
  /\ UNCHANGED <<status, terms, video, bare, fraud>>

(* A mutant: the comparison is off by one. *)
PhotoReadOffByOne(s) == Exists /\ photos <= MaxPhotos /\ ReadFor(s, "photo")

PhotoRead(s) == Exists /\ photos < MaxPhotos /\ ReadFor(s, "photo")

(* A photo that comes with bytes is given to the image-hash job. *)
Photo(s) ==
  /\ At(s, "photo")
  /\ \/ /\ Exists
        /\ photos' = photos + 1
        /\ hashing' \in {hashing, TRUE}
        /\ End(s)
        /\ UNCHANGED <<status, terms, video, bare, report, named, duplicate, penalties, contested>>
     \/ Missing(s)

VideoRead(s) == Exists /\ ~video /\ ReadFor(s, "video")

(* The unique listing_id refuses a second video. *)
Video(s) ==
  /\ At(s, "video")
  /\ \/ /\ Exists
        /\ video' = TRUE
        /\ End(s)
        /\ UNCHANGED <<status, terms, photos, bare, fraud>>
     \/ Missing(s)

Remove ==
  /\ Exists
  /\ \/ photos > 0 /\ photos' = photos - 1 /\ UNCHANGED video
     \/ video /\ video' = FALSE /\ UNCHANGED photos
  /\ bare' = (bare /\ (photos' > 0 \/ video'))
  /\ Alone
  /\ UNCHANGED <<status, terms, fraud>>

-----------------------------------------------------------------------------
(* submitListing and reviewListing *)

HasMedia == photos > 0 \/ video

SubmitRead(s) ==
  /\ status \in {"DRAFT", "REJECTED"}
  /\ price >= 1
  /\ HasMedia
  /\ ReadFor(s, "submit")

Submit(s) ==
  /\ At(s, "submit")
  /\ \/ /\ Exists
        /\ status' = "SUBMITTED"
        /\ End(s)
        /\ UNCHANGED <<terms, media, fraud>>
     \/ Missing(s)

(* A mutant: a review of a home in any state. *)
ReviewReadAny(s) ==
  /\ Exists
  /\ \E v \in {"VERIFIED", "REJECTED"} :
       Begin(s, [Idle EXCEPT !.pc = "review", !.verdict = v])
  /\ UNCHANGED <<status, terms, media, fraud>>

(* UNDER_REVIEW is accepted too, but nothing writes it. *)
ReviewRead(s) ==
  /\ status = "SUBMITTED"
  /\ \E v \in {"VERIFIED", "REJECTED"} :
       Begin(s, [Idle EXCEPT !.pc = "review", !.verdict = v])
  /\ UNCHANGED <<status, terms, media, fraud>>

Review(s) ==
  /\ At(s, "review")
  /\ \/ /\ Exists
        /\ status' = slot[s].verdict
        /\ End(s)
        /\ UNCHANGED <<terms, media, fraud>>
     \/ Missing(s)

-----------------------------------------------------------------------------
(* deleteListing: its files are deleted first; then the row goes with those  *)
(* of its photos and video, unless a duplicate flag refers to it; a report   *)
(* of it no longer names it (ON DELETE SET NULL).                            *)

DeleteRead(s) ==
  /\ status = "DRAFT"
  /\ bare' = (bare \/ HasMedia)
  /\ Begin(s, [Idle EXCEPT !.pc = "delete"])
  /\ UNCHANGED <<status, terms, photos, video, fraud>>

Delete(s) ==
  /\ At(s, "delete")
  /\ \/ /\ Exists /\ duplicate = "none"
        /\ status' = "gone" /\ photos' = 0 /\ video' = FALSE /\ bare' = FALSE
        /\ named' = named \ {"home"}
        /\ End(s)
        /\ UNCHANGED <<terms, report, duplicate, hashing, penalties, contested>>
     \/ duplicate # "none" /\ End(s) /\ UNCHANGED <<status, terms, media, fraud>>
     \/ Missing(s)

-----------------------------------------------------------------------------
(* flagListing, and the fraud desk *)

FlagListing ==
  /\ Exists
  /\ status' = "FLAGGED"
  /\ Alone
  /\ UNCHANGED <<terms, media, fraud>>

(* reportFraud against the home, its owner, or both.  (The reporter's own    *)
(* -10 is written next and concerns no row of the home.)                     *)
Report ==
  /\ report = "none" /\ report' = "PENDING"
  /\ named' \in Targets \ {{}}
  /\ "home" \in named' => Exists
  /\ Alone
  /\ UNCHANGED <<status, terms, media, duplicate, hashing, penalties, contested>>

(* The image-hash job compares the home with flagged homes, and other homes' *)
(* jobs compare them with it once it is flagged.  A pair is stored once.     *)
StoreFlag ==
  /\ Exists
  /\ duplicate' \in {duplicate, IF duplicate = "none" THEN "PENDING" ELSE duplicate}
  /\ Alone
  /\ UNCHANGED <<status, terms, media, report, named, penalties, contested>>

HashJob == hashing /\ hashing' = FALSE /\ StoreFlag
OthersHashJob == status = "FLAGGED" /\ StoreFlag /\ UNCHANGED hashing
HashJobOfNone ==
  /\ hashing /\ ~Exists
  /\ hashing' = FALSE
  /\ Alone
  /\ UNCHANGED <<status, terms, media, report, named, duplicate, penalties, contested>>

ReadCase(s, pc) ==
  /\ \E o \in Outcome : Begin(s, [Idle EXCEPT !.pc = pc, !.verdict = o, !.named = named])
  /\ contested' = (contested \/ \E t \in Slots : At(t, pc))
  /\ UNCHANGED <<status, terms, media, report, named, duplicate, hashing, penalties>>

(* A mutant: a report that has been resolved is resolved again. *)
ResolveReportReadAny(s) == report # "none" /\ ReadCase(s, "report")

ResolveReportRead(s) == report = "PENDING" /\ ReadCase(s, "report")

(* One transaction about whom the report named when it was read: a home that *)
(* has gone since makes a confirmation roll back.                            *)
ResolveReport(s) ==
  /\ At(s, "report")
  /\ \/ /\ slot[s].verdict = "CONFIRMED" /\ ("home" \in slot[s].named => Exists)
        /\ report' = "CONFIRMED"
        /\ penalties' = IF "owner" \in slot[s].named
                        THEN [penalties EXCEPT !.report = @ + 1] ELSE penalties
        /\ status' = IF "home" \in slot[s].named THEN "FLAGGED" ELSE status
        /\ End(s)
        /\ UNCHANGED <<terms, media, named, duplicate, hashing, contested>>
     \/ /\ slot[s].verdict = "DISMISSED"
        /\ report' = "DISMISSED"
        /\ End(s)
        /\ UNCHANGED <<status, terms, media, named, duplicate, hashing, penalties, contested>>
     \/ slot[s].verdict = "CONFIRMED" /\ "home" \in slot[s].named /\ Missing(s)

ResolveFlagRead(s) == duplicate = "PENDING" /\ ReadCase(s, "flag")

(* resolveDuplicateFlag has no transaction: the owner's event comes after. *)
ResolveFlag(s) ==
  /\ At(s, "flag")
  /\ duplicate' = slot[s].verdict
  /\ IF slot[s].verdict = "CONFIRMED" THEN Goto(s, "penalise") ELSE End(s)
  /\ UNCHANGED <<status, terms, media, report, named, hashing, penalties, contested>>

Penalise(s) ==
  /\ At(s, "penalise")
  /\ penalties' = [penalties EXCEPT !.duplicate = @ + 1]
  /\ End(s)
  /\ UNCHANGED <<status, terms, media, report, named, duplicate, hashing, contested>>

(* The process stops or the database refuses between two steps. *)
Abort(s) ==
  /\ slot[s].pc # "idle"
  /\ End(s)
  /\ UNCHANGED <<status, terms, media, fraud>>

-----------------------------------------------------------------------------
Init ==
  /\ status = "none" /\ price = 1 /\ discount = 0
  /\ photos = 0 /\ video = FALSE
  /\ report = "none" /\ named = {} /\ duplicate = "none" /\ contested = FALSE
  /\ hashing = FALSE /\ bare = FALSE
  /\ penalties = [report |-> 0, duplicate |-> 0]
  /\ slot = [s \in Slots |-> Idle]
  /\ overlapped = FALSE

Next ==
  \/ Create \/ Remove \/ FlagListing \/ Report
  \/ HashJob \/ OthersHashJob \/ HashJobOfNone
  \/ \E s \in Slots :
       \/ UpdateRead(s) \/ Update(s)
       \/ PhotoRead(s) \/ Photo(s) \/ VideoRead(s) \/ Video(s)
       \/ SubmitRead(s) \/ Submit(s) \/ ReviewRead(s) \/ Review(s)
       \/ DeleteRead(s) \/ Delete(s)
       \/ ResolveReportRead(s) \/ ResolveReport(s)
       \/ ResolveFlagRead(s) \/ ResolveFlag(s) \/ Penalise(s)
       \/ Abort(s)

Spec == Init /\ [][Next]_vars

-----------------------------------------------------------------------------
(* The types of the variables. *)
ListingsTypeOK ==
  /\ status \in Status /\ price \in Prices /\ discount \in 0..MaxPrice
  /\ photos \in Nat /\ video \in BOOLEAN
  /\ report \in Case /\ named \in Targets /\ duplicate \in Case
  /\ penalties \in [report : Nat, duplicate : Nat]
  /\ hashing \in BOOLEAN /\ bare \in BOOLEAN /\ contested \in BOOLEAN
  /\ slot \in [Slots -> Request]
  /\ overlapped \in BOOLEAN

(* What the code guarantees of the five photos when uploads overlap: each    *)
(* request beyond the first can add one more.  Alone, a request adds no      *)
(* sixth photo.                                                              *)
Uploading == {s \in Slots : slot[s].pc = "photo"}
PhotosWithinLimit ==
  photos + Cardinality(Uploading) <= MaxPhotos - 1 + Cardinality(Slots)

(* Without overlapping requests, no discount exceeds its price, through any  *)
(* sequence of partial updates.                                              *)
DiscountWithinPrice == ~overlapped => discount <= price

(* Without overlapping requests, a home moves along its documented life: a   *)
(* submission, a decision, and a flag that nothing lifts.                    *)
Life == {<<"none", "DRAFT">>, <<"DRAFT", "gone">>,
         <<"DRAFT", "SUBMITTED">>, <<"REJECTED", "SUBMITTED">>,
         <<"SUBMITTED", "VERIFIED">>, <<"SUBMITTED", "REJECTED">>}
StatusFollowsLife ==
  [][~overlapped' =>
       status' = status \/ status' = "FLAGGED" \/ <<status, status'>> \in Life]_vars

(* Without overlapping requests, the terms an admin reviews are the terms    *)
(* that were submitted, and students see the terms that were approved.       *)
ReviewedTermsStand ==
  [][~overlapped' /\ status \in {"SUBMITTED", "VERIFIED"} => UNCHANGED terms]_vars

(* A confirmed report has brought its owner's penalty, if it names one,      *)
(* whatever else happened to the home meanwhile; and while no two            *)
(* administrators resolve one case at once, it has brought one only, and no  *)
(* other report or flag has brought any.                                     *)
Deserved == report = "CONFIRMED" /\ "owner" \in named
OnePenaltyPerCase ==
  /\ Deserved => penalties.report >= 1
  /\ ~contested =>
       /\ penalties.report <= IF Deserved THEN 1 ELSE 0
       /\ penalties.duplicate <= IF duplicate = "CONFIRMED" THEN 1 ELSE 0

(* The same properties without their condition: what requests that overlap   *)
(* break.                                                                    *)
AlwaysDiscountWithinPrice == discount <= price
AlwaysOnePenalty == penalties.report = IF Deserved THEN 1 ELSE 0
FlagStands == [][status = "FLAGGED" => status' = "FLAGGED"]_vars

(* A confirmed duplicate brings its penalty.  A crash between the two writes *)
(* breaks it for good.                                                       *)
ConfirmedDuplicateIsPenalised ==
  duplicate = "CONFIRMED" /\ (\A s \in Slots : ~At(s, "penalise")) =>
    penalties.duplicate > 0

(* Photo and video rows have their files, but between the two steps of a     *)
(* deletion.  A deletion that a duplicate flag refuses has deleted the files. *)
RowsHaveFiles == bare /\ Exists => \E s \in Slots : At(s, "delete")

(* A home that awaits review has a photo or a video.  Its owner can remove   *)
(* them after the submission.                                                *)
SubmittedHasMedia == status = "SUBMITTED" => HasMedia

=============================================================================
