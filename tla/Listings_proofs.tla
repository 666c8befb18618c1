--------------------------- MODULE Listings_proofs ---------------------------
(***************************************************************************)
(* Theorems of Listings, for any number of requests that overlap and any   *)
(* limits of photos and prices, and of what an administrator sees of homes *)
(* and accounts: Desk and Roster, for any bounds. The modules share no     *)
(* variables: each theorem is about the specification of one.              *)
(***************************************************************************)
EXTENDS Listings, Desk, Roster, FiniteSetTheorems, TLAPS

-----------------------------------------------------------------------------
(* Listings.                                                                 *)

(* What a request is about to write is of the kind it writes. *)
Fits(r) ==
  /\ r.pc = "review" => r.verdict \in {"VERIFIED", "REJECTED"}
  /\ r.pc \in {"report", "flag"} => r.verdict \in Outcome
VerdictsFit == \A s \in Slots : Fits(slot[s])

(* What a request has read still stands, as long as it was alone. *)
StillStands(s) ==
  /\ At(s, "update") => /\ status \in {"DRAFT", "REJECTED"}
                        /\ Merged(slot[s].discount, discount) <= Merged(slot[s].price, price)
  /\ At(s, "submit")   => status \in {"DRAFT", "REJECTED"}
  /\ At(s, "review")   => status = "SUBMITTED"
  /\ At(s, "delete")   => status = "DRAFT"

OneAtATime == ~overlapped => \A s, t \in Slots : At(s, "idle") \/ At(t, "idle") \/ s = t
ReadsStand == ~overlapped => \A s \in Slots : StillStands(s)

(* Whoever resolves a report knows whether it names the owner: a deletion of *)
(* the home only takes the home's name away.                                 *)
KnowsOwner(s) ==
  At(s, "report") => /\ report # "none"
                     /\ "owner" \in slot[s].named <=> "owner" \in named
CasesAreKnown == \A s \in Slots : KnowsOwner(s)

(* While no two administrators meet on one case, the one who resolves it     *)
(* finds it as it was read.                                                  *)
CaseStands(s) ==
  /\ At(s, "report")   => report = "PENDING"
  /\ At(s, "flag")     => duplicate = "PENDING"
  /\ At(s, "penalise") => duplicate = "CONFIRMED" /\ penalties.duplicate = 0
Apart(s, t) ==
  /\ ~(At(s, "report") /\ At(t, "report"))
  /\ ~(slot[s].pc \in {"flag", "penalise"} /\ slot[t].pc \in {"flag", "penalise"})
CasesStand ==
  ~contested => \A s \in Slots : CaseStands(s) /\ \A t \in Slots : t # s => Apart(s, t)

(* The inductive invariant. *)
IInv == /\ ListingsTypeOK /\ VerdictsFit /\ PhotosWithinLimit
        /\ OneAtATime /\ ReadsStand
        /\ DiscountWithinPrice
        /\ CasesAreKnown /\ CasesStand /\ OnePenaltyPerCase

-----------------------------------------------------------------------------
(* How slots change. *)

LEMMA IdleFits == Idle \in Request /\ Fits(Idle)
BY ListingsAssumption DEF Idle, Request, Pc, Status, Outcome, Fits, Keep, Targets

LEMMA Requests ==
  ASSUME NEW pc \in Pc, NEW v \in Status \cup Outcome,
         NEW p \in 1..Keep, NEW d \in 0..Keep
  PROVE  /\ [Idle EXCEPT !.pc = pc] \in Request
         /\ [Idle EXCEPT !.pc = pc, !.verdict = v] \in Request
         /\ [Idle EXCEPT !.pc = pc, !.price = p, !.discount = d] \in Request
BY IdleFits DEF Request, Idle

(* Begin, Goto and End keep the types of the slots and what fits. *)
LEMMA SlotTypes ==
  ASSUME ListingsTypeOK, VerdictsFit,
         \/ Alone
         \/ \E s \in Slots :
              \/ \E r \in Request : Fits(r) /\ Begin(s, r)
              \/ Goto(s, "penalise")
              \/ End(s)
  PROVE  slot' \in [Slots -> Request] /\ overlapped' \in BOOLEAN /\ VerdictsFit'
<1>1. CASE Alone
  BY <1>1 DEF Alone, ListingsTypeOK, VerdictsFit
<1>2. ASSUME NEW s \in Slots, NEW r \in Request, Fits(r), Begin(s, r)
      PROVE  slot' \in [Slots -> Request] /\ overlapped' \in BOOLEAN /\ VerdictsFit'
  BY <1>2 DEF Begin, ListingsTypeOK, VerdictsFit
<1>3. ASSUME NEW s \in Slots, Goto(s, "penalise")
      PROVE  slot' \in [Slots -> Request] /\ overlapped' \in BOOLEAN /\ VerdictsFit'
  <2>1. /\ [slot[s] EXCEPT !.pc = "penalise"] \in Request
        /\ Fits([slot[s] EXCEPT !.pc = "penalise"])
    BY DEF ListingsTypeOK, Request, Pc, Fits
  <2> QED BY <1>3, <2>1 DEF Goto, ListingsTypeOK, VerdictsFit
<1>4. ASSUME NEW s \in Slots, End(s)
      PROVE  slot' \in [Slots -> Request] /\ overlapped' \in BOOLEAN /\ VerdictsFit'
  BY <1>4, IdleFits DEF End, ListingsTypeOK, VerdictsFit
<1> QED BY <1>1, <1>2, <1>3, <1>4

-----------------------------------------------------------------------------
(* The types and the verdicts. *)

LEMMA TypeStep == ASSUME ListingsTypeOK, VerdictsFit, Next
                  PROVE  ListingsTypeOK' /\ VerdictsFit'
<1> DEFINE RowIsTyped == /\ status' \in Status /\ price' \in Prices /\ discount' \in 0..MaxPrice
                   /\ photos' \in Nat /\ video' \in BOOLEAN
                   /\ report' \in Case /\ named' \in Targets /\ duplicate' \in Case
                   /\ penalties' \in [report : Nat, duplicate : Nat]
                   /\ hashing' \in BOOLEAN /\ bare' \in BOOLEAN /\ contested' \in BOOLEAN
<1> SUFFICES RowIsTyped /\ slot' \in [Slots -> Request] /\ overlapped' \in BOOLEAN /\ VerdictsFit'
  BY DEF ListingsTypeOK
<1> USE DEF terms, media, fraud
<1>1. CASE Create
  <2>1. RowIsTyped
    BY <1>1, ListingsAssumption DEF Create, ListingsTypeOK, Prices, Status
  <2> QED BY <1>1, <2>1, SlotTypes DEF Create
<1>2. CASE Remove
  <2>0. bare' \in BOOLEAN
    BY <1>2, Zenon DEF Remove
  <2>1. /\ \/ photos > 0 /\ photos' = photos - 1 /\ UNCHANGED video
           \/ video' = FALSE /\ UNCHANGED photos
        /\ UNCHANGED <<status, terms, fraud>>
    BY <1>2 DEF Remove
  <2>2. photos' \in Nat
    BY <2>1 DEF ListingsTypeOK
  <2>3. video' \in BOOLEAN
    BY <2>1, Zenon DEF ListingsTypeOK
  <2>4. RowIsTyped
    BY <2>0, <2>1, <2>2, <2>3 DEF ListingsTypeOK
  <2> QED BY <1>2, <2>4, SlotTypes DEF Remove
<1>3. CASE FlagListing \/ Report
  <2>1. RowIsTyped
    BY <1>3 DEF FlagListing, Report, ListingsTypeOK, Status, Case
  <2> QED BY <1>3, <2>1, SlotTypes DEF FlagListing, Report
<1>4. CASE HashJob \/ OthersHashJob \/ HashJobOfNone
  <2>1. RowIsTyped
    BY <1>4 DEF HashJob, OthersHashJob, HashJobOfNone, StoreFlag, ListingsTypeOK, Case
  <2> QED BY <1>4, <2>1, SlotTypes DEF HashJob, OthersHashJob, HashJobOfNone, StoreFlag
<1>5. ASSUME NEW s \in Slots,
             \/ UpdateRead(s) \/ PhotoRead(s) \/ VideoRead(s) \/ SubmitRead(s)
             \/ ReviewRead(s) \/ DeleteRead(s) \/ ResolveReportRead(s) \/ ResolveFlagRead(s)
      PROVE  RowIsTyped /\ slot' \in [Slots -> Request] /\ overlapped' \in BOOLEAN /\ VerdictsFit'
  <2>1. RowIsTyped
    BY <1>5 DEF UpdateRead, PhotoRead, VideoRead, SubmitRead, ReviewRead, DeleteRead,
                ResolveReportRead, ResolveFlagRead, ReadCase, ReadFor, ListingsTypeOK, HasMedia
  <2>2. \E r \in Request : Fits(r) /\ Begin(s, r)
    <3>1. CASE PhotoRead(s) \/ VideoRead(s) \/ SubmitRead(s) \/ DeleteRead(s)
      <4>1. \A pc \in {"photo", "video", "submit", "delete"} :
              [Idle EXCEPT !.pc = pc] \in Request /\ Fits([Idle EXCEPT !.pc = pc])
        BY IdleFits DEF Request, Pc, Fits, Idle
      <4> QED BY <3>1, <4>1 DEF PhotoRead, VideoRead, SubmitRead, DeleteRead, ReadFor
    <3>2. CASE ReviewRead(s) \/ ResolveReportRead(s) \/ ResolveFlagRead(s)
      <4>1. CASE ReviewRead(s)
        <5>1. \A v \in {"VERIFIED", "REJECTED"} :
                /\ [Idle EXCEPT !.pc = "review", !.verdict = v] \in Request
                /\ Fits([Idle EXCEPT !.pc = "review", !.verdict = v])
          BY IdleFits DEF Request, Pc, Idle, Status, Fits
        <5> QED BY <4>1, <5>1 DEF ReviewRead
      <4>2. ASSUME NEW pc \in {"report", "flag"}, ReadCase(s, pc)
            PROVE  \E r \in Request : Fits(r) /\ Begin(s, r)
        <5>1. \A v \in Outcome :
                /\ [Idle EXCEPT !.pc = pc, !.verdict = v, !.named = named] \in Request
                /\ Fits([Idle EXCEPT !.pc = pc, !.verdict = v, !.named = named])
          BY IdleFits DEF Request, Pc, Idle, Fits, ListingsTypeOK
        <5> QED BY <4>2, <5>1 DEF ReadCase
      <4> QED BY <3>2, <4>1, <4>2 DEF ResolveReportRead, ResolveFlagRead
    <3>3. CASE UpdateRead(s)
      <4>1. \A p \in 1..Keep, d \in 0..Keep :
              /\ [Idle EXCEPT !.pc = "update", !.price = p, !.discount = d] \in Request
              /\ Fits([Idle EXCEPT !.pc = "update", !.price = p, !.discount = d])
        BY IdleFits DEF Request, Pc, Idle, Fits
      <4> QED BY <3>3, <4>1 DEF UpdateRead
    <3> QED BY <1>5, <3>1, <3>2, <3>3
  <2> QED BY <2>1, <2>2, SlotTypes
<1>6. ASSUME NEW s \in Slots,
             \/ Update(s) \/ Photo(s) \/ Video(s) \/ Submit(s) \/ Review(s) \/ Delete(s)
             \/ ResolveReport(s) \/ Penalise(s) \/ Abort(s)
      PROVE  RowIsTyped /\ slot' \in [Slots -> Request] /\ overlapped' \in BOOLEAN /\ VerdictsFit'
  <2>1. slot[s] \in Request /\ Fits(slot[s])
    BY DEF ListingsTypeOK, VerdictsFit
  <2>2. End(s)
    BY <1>6 DEF Update, Photo, Video, Submit, Review, Delete, ResolveReport, Penalise,
                Abort, Missing
  <2>3. CASE UNCHANGED <<status, terms, media, fraud>>
    BY <2>3, <2>2, SlotTypes DEF ListingsTypeOK
  <2>4. CASE Update(s) /\ ~UNCHANGED <<status, terms, media, fraud>>
    <3>1. /\ price' = Merged(slot[s].price, price)
          /\ discount' = Merged(slot[s].discount, discount)
          /\ UNCHANGED <<status, media, fraud>>
      BY <2>4 DEF Update, Missing
    <3>2. price' \in Prices /\ discount' \in 0..MaxPrice
      BY <2>1, <3>1, ListingsAssumption DEF Merged, ListingsTypeOK, Request, Prices, Keep
    <3> QED BY <2>2, <3>1, <3>2, SlotTypes DEF ListingsTypeOK
  <2>5. CASE (Photo(s) \/ Video(s)) /\ ~UNCHANGED <<status, terms, media, fraud>>
    <3>1. /\ photos' \in {photos, photos + 1}
          /\ UNCHANGED <<status, terms, bare, report, named, duplicate, penalties, contested>>
      BY <2>5 DEF Photo, Video, Missing
    <3>2. video' \in BOOLEAN /\ hashing' \in BOOLEAN
      BY <2>5, Zenon DEF Photo, Video, Missing, ListingsTypeOK
    <3> QED BY <2>2, <3>1, <3>2, SlotTypes DEF ListingsTypeOK
  <2>6. CASE (Submit(s) \/ Review(s) \/ Delete(s)) /\ ~UNCHANGED <<status, terms, media, fraud>>
    <3>1. CASE Submit(s)
      BY <2>2, <2>6, <3>1, SlotTypes DEF Submit, Missing, ListingsTypeOK, Status
    <3>2. CASE Review(s)
      <4>1. status' = slot[s].verdict /\ slot[s].verdict \in Status
        BY <2>1, <2>6, <3>2 DEF Review, Missing, Fits, At, Status
      <4>2. UNCHANGED <<terms, media, fraud>>
        BY <2>6, <3>2 DEF Review, Missing
      <4> QED BY <2>2, <4>1, <4>2, SlotTypes DEF ListingsTypeOK
    <3>3. CASE Delete(s)
      <4>1. /\ status' = "gone" /\ photos' = 0 /\ video' = FALSE /\ bare' = FALSE
            /\ named' = named \ {"home"}
            /\ UNCHANGED <<terms, report, duplicate, hashing, penalties, contested>>
        BY <2>6, <3>3 DEF Delete, Missing
      <4>2. named' \in Targets
        BY <4>1 DEF ListingsTypeOK, Targets
      <4> QED BY <2>2, <4>1, <4>2, SlotTypes DEF ListingsTypeOK, Status
    <3> QED BY <2>6, <3>1, <3>2, <3>3
  <2>7. CASE (ResolveReport(s) \/ Penalise(s)) /\ ~UNCHANGED <<status, terms, media, fraud>>
    <3>1. /\ status' \in {status, "FLAGGED"} /\ report' \in {report} \cup Outcome
          /\ \/ penalties' = penalties
             \/ penalties' = [penalties EXCEPT !.report = @ + 1]
             \/ penalties' = [penalties EXCEPT !.duplicate = @ + 1]
          /\ UNCHANGED <<terms, media, named, duplicate, hashing, contested>>
      BY <2>7 DEF ResolveReport, Penalise, Missing, Outcome
    <3>2. penalties' \in [report : Nat, duplicate : Nat]
      BY <3>1 DEF ListingsTypeOK
    <3> QED BY <2>2, <3>1, <3>2, SlotTypes DEF ListingsTypeOK, Status, Case
  <2> QED BY <1>6, <2>3, <2>4, <2>5, <2>6, <2>7 DEF Abort
<1>7. ASSUME NEW s \in Slots, ResolveFlag(s)
      PROVE  RowIsTyped /\ slot' \in [Slots -> Request] /\ overlapped' \in BOOLEAN /\ VerdictsFit'
  <2>1. slot[s].verdict \in Outcome
    BY <1>7 DEF ResolveFlag, VerdictsFit, Fits, At
  <2>2. RowIsTyped
    BY <1>7, <2>1 DEF ResolveFlag, ListingsTypeOK, Case
  <2>3. Goto(s, "penalise") \/ End(s)
    BY <1>7 DEF ResolveFlag
  <2> QED BY <2>2, <2>3, SlotTypes
<1> QED BY <1>1, <1>2, <1>3, <1>4, <1>5, <1>6, <1>7 DEF Next

-----------------------------------------------------------------------------
(* The photos: an upload either starts below the limit, or ends by turning a *)
(* request in progress into a photo.                                         *)

LEMMA PhotosStep == ASSUME ListingsTypeOK, PhotosWithinLimit, Next, ListingsTypeOK'
                    PROVE  PhotosWithinLimit'
<1> USE DEF terms, media, fraud
<1>1. /\ Uploading \subseteq Slots /\ Uploading' \subseteq Slots
      /\ IsFiniteSet(Uploading) /\ IsFiniteSet(Uploading')
      /\ Cardinality(Uploading) \in Nat /\ Cardinality(Uploading') \in Nat
      /\ Cardinality(Slots) \in Nat
      /\ Cardinality(Uploading') <= Cardinality(Slots)
  <2>1. Uploading \subseteq Slots /\ Uploading' \subseteq Slots
    BY DEF Uploading
  <2> QED BY <2>1, ListingsAssumption, FS_Subset, FS_CardinalityType DEF ListingsAssumption
<1>2. MaxPhotos \in Nat /\ photos \in Nat /\ photos' \in Nat
  BY ListingsAssumption DEF ListingsTypeOK
<1>3. CASE photos' <= photos /\ Uploading' \subseteq Uploading
  <2>1. Cardinality(Uploading') <= Cardinality(Uploading)
    BY <1>1, <1>3, FS_Subset
  <2> QED BY <1>1, <1>2, <1>3, <2>1 DEF PhotosWithinLimit
<1>4. ASSUME NEW s \in Slots, PhotoRead(s)
      PROVE  PhotosWithinLimit'
  <2>1. photos < MaxPhotos /\ photos' = photos
    BY <1>4 DEF PhotoRead, ReadFor
  <2> QED BY <1>1, <1>2, <2>1 DEF PhotosWithinLimit
<1>5. ASSUME NEW s \in Slots, Photo(s), photos' = photos + 1
      PROVE  PhotosWithinLimit'
  <2>1. s \in Uploading /\ End(s)
    BY <1>5 DEF Photo, Missing, Uploading, At
  <2>2. Uploading' = Uploading \ {s}
    BY <2>1 DEF End, Uploading, Idle, ListingsTypeOK
  <2>3. Cardinality(Uploading') = Cardinality(Uploading) - 1
    BY <1>1, <2>1, <2>2, FS_RemoveElement
  <2> QED BY <1>1, <1>2, <1>5, <2>3 DEF PhotosWithinLimit
<1>6. CASE Create \/ Remove \/ FlagListing \/ Report \/ HashJob \/ OthersHashJob \/ HashJobOfNone
  <2>1. Alone
    BY <1>6 DEF Create, Remove, FlagListing, Report, HashJob, OthersHashJob, HashJobOfNone, StoreFlag
  <2>2. Uploading' = Uploading
    BY <2>1 DEF Alone, Uploading
  <2>3. photos' = photos \/ photos' = photos - 1
    BY <1>6, Zenon DEF Create, Remove, FlagListing, Report, HashJob, OthersHashJob,
                       HashJobOfNone, StoreFlag
  <2> QED BY <1>2, <1>3, <2>2, <2>3
<1>7. ASSUME NEW s \in Slots,
             \/ UpdateRead(s) \/ VideoRead(s) \/ SubmitRead(s) \/ ReviewRead(s)
             \/ DeleteRead(s) \/ ResolveReportRead(s) \/ ResolveFlagRead(s)
      PROVE  PhotosWithinLimit'
  <2>1. photos' = photos
    BY <1>7 DEF UpdateRead, VideoRead, SubmitRead, ReviewRead, DeleteRead,
                ResolveReportRead, ResolveFlagRead, ReadFor, ReadCase
  <2>2. \E r \in Request :
          r.pc # "photo" /\ slot' = [slot EXCEPT ![s] = r]
    <3>1. slot' \in [Slots -> Request]
      BY DEF ListingsTypeOK
    <3>2. slot' = [slot EXCEPT ![s] = slot'[s]]
      BY <1>7 DEF UpdateRead, VideoRead, SubmitRead, ReviewRead, DeleteRead,
                  ResolveReportRead, ResolveFlagRead, ReadFor, ReadCase, Begin, ListingsTypeOK
    <3>3. slot'[s].pc # "photo"
      BY <1>7 DEF UpdateRead, VideoRead, SubmitRead, ReviewRead, DeleteRead,
                  ResolveReportRead, ResolveFlagRead, ReadFor, ReadCase, Begin, ListingsTypeOK, Idle
    <3> QED BY <3>1, <3>2, <3>3
  <2>3. Uploading' \subseteq Uploading
    BY <2>2 DEF Uploading, ListingsTypeOK
  <2> QED BY <1>2, <1>3, <2>1, <2>3
<1>8. ASSUME NEW s \in Slots, End(s), photos' <= photos
      PROVE  PhotosWithinLimit'
  <2>1. Uploading' \subseteq Uploading
    BY <1>8 DEF End, Uploading, Idle, ListingsTypeOK
  <2> QED BY <1>3, <1>8, <2>1
<1>9. ASSUME NEW s \in Slots,
             \/ Update(s) \/ Photo(s) \/ Video(s) \/ Submit(s) \/ Review(s) \/ Delete(s)
             \/ ResolveReport(s) \/ Penalise(s) \/ Abort(s)
      PROVE  PhotosWithinLimit'
  <2>1. End(s)
    BY <1>9 DEF Update, Photo, Video, Submit, Review, Delete, ResolveReport, Penalise,
                Abort, Missing
  <2>2. photos' = photos \/ photos' = 0 \/ (Photo(s) /\ photos' = photos + 1)
    BY <1>9, Zenon DEF Update, Photo, Video, Submit, Review, Delete, ResolveReport, Penalise,
                Abort, Missing
  <2> QED BY <1>2, <1>5, <1>8, <2>1, <2>2
<1>10. ASSUME NEW s \in Slots, ResolveFlag(s)
       PROVE  PhotosWithinLimit'
  <2>1. photos' = photos
    BY <1>10 DEF ResolveFlag
  <2>2. Uploading' \subseteq Uploading
    <3>1. CASE Goto(s, "penalise")
      BY <3>1 DEF Goto, Uploading, ListingsTypeOK
    <3>2. CASE End(s)
      BY <3>2 DEF End, Idle, Uploading, ListingsTypeOK
    <3> QED BY <1>10, <3>1, <3>2 DEF ResolveFlag
  <2> QED BY <1>2, <1>3, <2>1, <2>2
<1> QED BY <1>4, <1>6, <1>7, <1>9, <1>10 DEF Next

-----------------------------------------------------------------------------
(* Requests one at a time: what a request has read still stands when it      *)
(* writes, so that no write breaks the terms.                                *)

Orderly == OneAtATime /\ ReadsStand /\ DiscountWithinPrice

Fair == discount <= price

LEMMA OrderlyMeans ==
  Orderly <=> (~overlapped => /\ \A s, t \in Slots : At(s, "idle") \/ At(t, "idle") \/ s = t
                              /\ \A s \in Slots : StillStands(s)
                              /\ Fair)
BY DEF Orderly, OneAtATime, ReadsStand, DiscountWithinPrice, Fair

(* While every request is idle, or after one has ended, nothing is pending. *)
LEMMA Quiet ==
  ASSUME ListingsTypeOK, ~overlapped' => Fair',
         \/ Alone
         \/ Orderly /\ \E s \in Slots : ~At(s, "idle") /\ End(s)
  PROVE  Orderly'
<1>1. ~overlapped' => \A s \in Slots : (At(s, "idle"))'
  <2>1. CASE Alone
    BY <2>1 DEF Alone, Busy, At
  <2>2. ASSUME NEW s \in Slots, ~At(s, "idle"), End(s), Orderly
        PROVE  ~overlapped' => \A t \in Slots : (At(t, "idle"))'
    BY <2>2 DEF End, At, Idle, ListingsTypeOK, Orderly, OneAtATime
  <2> QED BY <2>1, <2>2
<1>2. \A s \in Slots : (At(s, "idle"))' => StillStands(s)'
  BY DEF At, StillStands
<1> QED BY <1>1, <1>2 DEF Orderly, OneAtATime, ReadsStand, DiscountWithinPrice, Fair

(* A request that begins is alone, if nothing overlaps. *)
LEMMA Beginning ==
  ASSUME ListingsTypeOK, NEW s \in Slots, NEW r, Begin(s, r),
         ~overlapped' => Fair' /\ StillStands(s)'
  PROVE  Orderly'
<1>1. ~overlapped' => \A t \in Slots : t # s => (At(t, "idle"))'
  BY DEF Begin, Busy, At, ListingsTypeOK
<1>2. \A t \in Slots : (At(t, "idle"))' => StillStands(t)'
  BY DEF At, StillStands
<1> QED BY <1>1, <1>2 DEF Orderly, OneAtATime, ReadsStand, DiscountWithinPrice, Fair

LEMMA OrderlyStep == ASSUME IInv, Next PROVE Orderly'
<1> USE DEF terms, media, fraud
<1>1. /\ ListingsTypeOK /\ VerdictsFit /\ Orderly
      /\ ~overlapped => Fair /\ \A s \in Slots : StillStands(s)
  BY OrderlyMeans DEF IInv, Orderly
<1>2. ~overlapped' => ~overlapped
  BY DEF Next, Create, Remove, FlagListing, Report, HashJob, OthersHashJob,
     HashJobOfNone, StoreFlag, UpdateRead, Update, PhotoRead, Photo, VideoRead, Video,
     SubmitRead, Submit, ReviewRead, Review, DeleteRead, Delete, ResolveReportRead,
     ResolveReport, ResolveFlagRead, ResolveFlag, Penalise, Abort, ReadFor, ReadCase,
     Missing, Begin, End, Goto, Alone
<1>3. CASE Create \/ Remove \/ FlagListing \/ Report \/ HashJob \/ OthersHashJob \/ HashJobOfNone
  <2>1. Alone
    BY <1>3 DEF Create, Remove, FlagListing, Report, HashJob, OthersHashJob, HashJobOfNone, StoreFlag
  <2>2. CASE Create
    <3>1. discount' <= price'
      BY <2>2 DEF Create, Prices
    <3> QED BY <1>1, <1>2, <2>1, <3>1, Quiet DEF Fair
  <2>3. CASE ~Create
    <3>1. UNCHANGED terms
      BY <1>3, <2>3, Zenon DEF Remove, FlagListing, Report, HashJob, OthersHashJob,
                               HashJobOfNone, StoreFlag
    <3> QED BY <1>1, <1>2, <2>1, <3>1, Quiet DEF Fair
  <2> QED BY <2>2, <2>3
<1>4. ASSUME NEW s \in Slots,
             \/ UpdateRead(s) \/ PhotoRead(s) \/ VideoRead(s) \/ SubmitRead(s)
             \/ ReviewRead(s) \/ DeleteRead(s) \/ ResolveReportRead(s) \/ ResolveFlagRead(s)
      PROVE  Orderly'
  <2>1. UNCHANGED <<status, terms>>
    BY <1>4 DEF UpdateRead, PhotoRead, VideoRead, SubmitRead, ReviewRead, DeleteRead,
                ResolveReportRead, ResolveFlagRead, ReadFor, ReadCase
  <2>2. PICK r : Begin(s, r)
    BY <1>4 DEF UpdateRead, PhotoRead, VideoRead, SubmitRead, ReviewRead, DeleteRead,
                ResolveReportRead, ResolveFlagRead, ReadFor, ReadCase
  <2>3. StillStands(s)'
    <3>1. CASE UpdateRead(s)
      BY <3>1, <2>1 DEF UpdateRead, Begin, Idle, StillStands, At, ListingsTypeOK
    <3>2. ASSUME NEW pc \in Pc, slot' = [slot EXCEPT ![s] = [Idle EXCEPT !.pc = pc]]
          PROVE  slot'[s].pc = pc
      BY <1>1, <3>2 DEF Idle, ListingsTypeOK
    <3>3. ASSUME NEW pc \in Pc, ReadFor(s, pc)
          PROVE  slot'[s].pc = pc
      BY <3>2, <3>3 DEF ReadFor, Begin
    <3>4. CASE PhotoRead(s) \/ VideoRead(s)
      <4>1. slot'[s].pc \in {"photo", "video"}
        BY <3>3, <3>4 DEF PhotoRead, VideoRead, Pc
      <4> QED BY <4>1 DEF StillStands, At
    <3>5. CASE SubmitRead(s)
      <4>1. slot'[s].pc = "submit"
        BY <3>3, <3>5 DEF SubmitRead, Pc
      <4> QED BY <2>1, <3>5, <4>1 DEF StillStands, At, SubmitRead
    <3>6. CASE DeleteRead(s)
      <4>1. slot'[s].pc = "delete"
        BY <3>2, <3>6 DEF DeleteRead, Begin, Pc
      <4> QED BY <2>1, <3>6, <4>1 DEF StillStands, At, DeleteRead
    <3>7. CASE ReviewRead(s)
      <4>1. slot'[s].pc = "review"
        BY <1>1, <3>7 DEF Idle, ReviewRead, Begin, ListingsTypeOK
      <4> QED BY <2>1, <3>7, <4>1 DEF StillStands, At, ReviewRead
    <3>8. ASSUME NEW pc \in {"report", "flag"}, ReadCase(s, pc)
          PROVE  StillStands(s)'
      <4>1. slot'[s].pc = pc
        BY <1>1, <3>8 DEF Idle, ReadCase, Begin, ListingsTypeOK
      <4> QED BY <4>1 DEF StillStands, At
    <3>9. CASE ResolveReportRead(s) \/ ResolveFlagRead(s)
      BY <3>8, <3>9 DEF ResolveReportRead, ResolveFlagRead
    <3> QED BY <1>4, <3>1, <3>4, <3>5, <3>6, <3>7, <3>9
  <2> QED BY <1>1, <1>2, <2>1, <2>2, <2>3, Beginning DEF Fair
<1>5. ASSUME NEW s \in Slots,
             \/ Update(s) \/ Photo(s) \/ Video(s) \/ Submit(s) \/ Review(s) \/ Delete(s)
             \/ ResolveReport(s) \/ Penalise(s) \/ Abort(s)
      PROVE  Orderly'
  <2>1. End(s) /\ ~At(s, "idle")
    BY <1>5 DEF Update, Photo, Video, Submit, Review, Delete, ResolveReport, Penalise,
                Abort, Missing, At
  <2>2. ~overlapped => Fair'
    <3>1. CASE UNCHANGED terms
      BY <1>1, <3>1 DEF Fair
    <3>2. CASE Update(s) /\ ~UNCHANGED terms
      BY <1>1, <3>2 DEF Update, Missing, StillStands, Fair
    <3>3. CASE ~Update(s)
      BY <1>5, <3>1, <3>3, Zenon DEF Photo, Video, Submit, Review, Delete, ResolveReport,
                                     Penalise, Abort, Missing
    <3> QED BY <3>1, <3>2, <3>3
  <2> QED BY <1>1, <1>2, <2>1, <2>2, Quiet
<1>6. ASSUME NEW s \in Slots, ResolveFlag(s)
      PROVE  Orderly'
  <2>1. ~overlapped => Fair'
    BY <1>1, <1>6 DEF ResolveFlag, Fair
  <2>2. CASE slot[s].verdict # "CONFIRMED"
    BY <1>1, <1>2, <1>6, <2>1, <2>2, Quiet DEF ResolveFlag, At
  <2>3. CASE slot[s].verdict = "CONFIRMED"
    <3>1. /\ slot' = [slot EXCEPT ![s].pc = "penalise"] /\ UNCHANGED overlapped
      BY <1>6, <2>3 DEF ResolveFlag, Goto
    <3>2. \A t \in Slots : t # s => slot'[t] = slot[t]
      BY <3>1 DEF ListingsTypeOK, IInv
    <3>3. slot'[s].pc = "penalise"
      BY <1>1, <3>1 DEF ListingsTypeOK, Request
    <3>4. ~overlapped => \A t \in Slots : t # s => At(t, "idle") /\ (At(t, "idle"))'
      BY <1>1, <1>6, <3>2 DEF ResolveFlag, Orderly, OneAtATime, At
    <3>5. ~overlapped' => \A t \in Slots : StillStands(t)'
      BY <2>1, <3>1, <3>3, <3>4 DEF StillStands, At
    <3>6. ~overlapped' => \A t, u \in Slots : (At(t, "idle"))' \/ (At(u, "idle"))' \/ t = u
      BY <3>1, <3>4
    <3> QED BY <2>1, <3>1, <3>5, <3>6 DEF Orderly, OneAtATime, ReadsStand, DiscountWithinPrice, Fair
  <2> QED BY <2>2, <2>3
<1> QED BY <1>3, <1>4, <1>5, <1>6 DEF Next

-----------------------------------------------------------------------------
(* The cases: a report or a flag is resolved once, while nobody else is      *)
(* resolving it.                                                             *)

Resolving == {"report", "flag", "penalise"}
Cases == CasesAreKnown /\ CasesStand /\ OnePenaltyPerCase

(* A step that begins no resolution, and leaves the cases alone but for a    *)
(* new report, a new flag, or the name of a home that goes.                  *)
LEMMA CasesKept ==
  ASSUME ListingsTypeOK, Cases,
         \A s \in Slots : slot'[s] = slot[s] \/ slot'[s].pc \notin Resolving,
         \/ /\ report' = report
            /\ "owner" \in named' <=> "owner" \in named
         \/ report = "none" /\ report' = "PENDING",
         duplicate' = duplicate \/ (duplicate = "none" /\ duplicate' = "PENDING"),
         UNCHANGED <<penalties, contested>>
  PROVE  Cases'
<1>1. CasesAreKnown'
  BY DEF Cases, CasesAreKnown, KnowsOwner, At, Resolving
<1>2. CasesStand'
  BY DEF Cases, CasesStand, CaseStands, Apart, At, Resolving
<1>3. OnePenaltyPerCase'
  BY DEF Cases, OnePenaltyPerCase, Deserved
<1> QED BY <1>1, <1>2, <1>3 DEF Cases

LEMMA CasesStep == ASSUME IInv, Next, ListingsTypeOK' PROVE Cases'
<1> USE DEF terms, media, fraud
<1>1. ListingsTypeOK /\ VerdictsFit /\ Cases
  BY DEF IInv, Cases
<1>2. CASE Create \/ Remove \/ FlagListing \/ Report \/ HashJob \/ OthersHashJob \/ HashJobOfNone
  <2>1. UNCHANGED slot
    BY <1>2 DEF Create, Remove, FlagListing, Report, HashJob, OthersHashJob, HashJobOfNone,
                StoreFlag, Alone
  <2>2. /\ UNCHANGED <<penalties, contested>>
        /\ duplicate' = duplicate \/ (duplicate = "none" /\ duplicate' = "PENDING")
        /\ \/ UNCHANGED <<report, named>>
           \/ report = "none" /\ report' = "PENDING"
    BY <1>2, Zenon DEF Create, Remove, FlagListing, Report, HashJob, OthersHashJob,
                       HashJobOfNone, StoreFlag
  <2> QED BY <1>1, <2>1, <2>2, CasesKept
<1>3. ASSUME NEW s \in Slots,
             \/ UpdateRead(s) \/ PhotoRead(s) \/ VideoRead(s) \/ SubmitRead(s)
             \/ ReviewRead(s) \/ DeleteRead(s)
             \/ Update(s) \/ Photo(s) \/ Video(s) \/ Submit(s) \/ Review(s) \/ Abort(s)
      PROVE  Cases'
  <2>1. UNCHANGED <<report, named, duplicate, penalties, contested>>
    BY <1>3, Zenon DEF UpdateRead, PhotoRead, VideoRead, SubmitRead, ReviewRead, DeleteRead,
       Update, Photo, Video, Submit, Review, Abort, ReadFor, Missing
  <2>2. \A t \in Slots : slot'[t] = slot[t] \/ slot'[t].pc \notin Resolving
    <3>1. CASE Update(s) \/ Photo(s) \/ Video(s) \/ Submit(s) \/ Review(s) \/ Abort(s)
      <4>1. End(s)
        BY <3>1 DEF Update, Photo, Video, Submit, Review, Abort, Missing
      <4> QED BY <1>1, <4>1 DEF End, Idle, Resolving, ListingsTypeOK
    <3>2. CASE PhotoRead(s) \/ VideoRead(s) \/ SubmitRead(s) \/ DeleteRead(s)
      BY <1>1, <3>2 DEF PhotoRead, VideoRead, SubmitRead, DeleteRead, ReadFor, Begin, Idle,
                        Resolving, ListingsTypeOK
    <3>3. CASE UpdateRead(s)
      BY <1>1, <3>3 DEF UpdateRead, Begin, Idle, Resolving, ListingsTypeOK
    <3>4. CASE ReviewRead(s)
      BY <1>1, <3>4 DEF ReviewRead, Begin, Idle, Resolving, ListingsTypeOK
    <3> QED BY <1>3, <3>1, <3>2, <3>3, <3>4
  <2> QED BY <1>1, <2>1, <2>2, CasesKept
<1>4. ASSUME NEW s \in Slots, Delete(s)
      PROVE  Cases'
  <2>1. /\ UNCHANGED <<report, duplicate, penalties, contested>>
        /\ named' = named \ {"home"} \/ named' = named
    BY <1>4, Zenon DEF Delete, Missing
  <2>2. End(s)
    BY <1>4 DEF Delete, Missing
  <2>3. \A t \in Slots : slot'[t] = slot[t] \/ slot'[t].pc \notin Resolving
    BY <1>1, <2>2 DEF End, Idle, Resolving, ListingsTypeOK
  <2>4. "owner" \in named' <=> "owner" \in named
    BY <2>1
  <2> QED BY <1>1, <2>1, <2>3, <2>4, CasesKept
<1>5. ASSUME NEW s \in Slots, NEW pc \in {"report", "flag"}, ReadCase(s, pc),
             pc = "report" => report = "PENDING",
             pc = "flag" => duplicate = "PENDING"
      PROVE  Cases'
  <2>1. /\ UNCHANGED <<report, named, duplicate, penalties>>
        /\ contested' = (contested \/ \E t \in Slots : At(t, pc))
    BY <1>5 DEF ReadCase
  <2>2. \A t \in Slots : t # s => slot'[t] = slot[t]
    BY <1>1, <1>5 DEF ReadCase, Begin, ListingsTypeOK
  <2>3. slot'[s].pc = pc /\ slot'[s].named = named
    BY <1>1, <1>5 DEF ReadCase, Begin, Idle, ListingsTypeOK
  <2>4. CasesAreKnown'
    BY <1>1, <1>5, <2>1, <2>2, <2>3 DEF Cases, CasesAreKnown, KnowsOwner, At
  <2>5. CasesStand'
    <3>1. SUFFICES ASSUME ~contested'
                   PROVE  \A t \in Slots : CaseStands(t)' /\ \A u \in Slots : u # t => Apart(t, u)'
      BY DEF CasesStand
    <3>2. /\ ~contested /\ \A t \in Slots : ~At(t, pc)
          /\ \A t \in Slots : CaseStands(t) /\ \A u \in Slots : u # t => Apart(t, u)
      BY <1>1, <2>1, <3>1, Zenon DEF Cases, CasesStand
    <3>3. \A t \in Slots : CaseStands(t)'
      BY <1>5, <2>1, <2>2, <2>3, <3>2 DEF CaseStands, At
    <3>4. pc = "flag" => \A t \in Slots : slot[t].pc # "penalise"
      BY <1>5, <3>2 DEF CaseStands, At
    <3>5. \A t \in Slots : t # s => Apart(s, t)' /\ Apart(t, s)'
      BY <2>2, <2>3, <3>2, <3>4 DEF Apart, At
    <3>6. \A t, u \in Slots : t # u /\ t # s /\ u # s => Apart(t, u)'
      BY <2>2, <3>2 DEF Apart, At
    <3> QED BY <3>3, <3>5, <3>6
  <2>6. OnePenaltyPerCase'
    BY <1>1, <2>1 DEF Cases, OnePenaltyPerCase, Deserved
  <2> QED BY <2>4, <2>5, <2>6 DEF Cases
<1>6. ASSUME NEW s \in Slots, ResolveReport(s)
      PROVE  Cases'
  <2>1. At(s, "report") /\ End(s) /\ UNCHANGED <<named, duplicate, contested>>
    BY <1>6, Zenon DEF ResolveReport, Missing
  <2>2. /\ slot'[s].pc = "idle"
        /\ \A t \in Slots : t # s => slot'[t] = slot[t]
    BY <1>1, <2>1 DEF End, Idle, ListingsTypeOK
  <2>3. CASE UNCHANGED <<report, penalties>>
    BY <1>1, <2>1, <2>2, <2>3, CasesKept DEF Resolving
  <2>4. CASE /\ report' = "CONFIRMED"
             /\ penalties' = IF "owner" \in slot[s].named
                             THEN [penalties EXCEPT !.report = @ + 1] ELSE penalties
    <3>1. "owner" \in slot[s].named <=> "owner" \in named
      BY <1>1, <2>1 DEF Cases, CasesAreKnown, KnowsOwner
    <3>2. /\ penalties'.report = IF "owner" \in named THEN penalties.report + 1
                                                     ELSE penalties.report
          /\ penalties'.duplicate = penalties.duplicate
          /\ penalties.report \in Nat
      BY <1>1, <2>4, <3>1 DEF ListingsTypeOK
    <3>3. CasesAreKnown'
      BY <1>1, <2>1, <2>2, <2>4 DEF Cases, CasesAreKnown, KnowsOwner, At
    <3>4. CasesStand'
      BY <1>1, <2>1, <2>2, <3>2 DEF Cases, CasesStand, CaseStands, Apart, At
    <3>5. ~contested => penalties.report = 0
      BY <1>1, <2>1, <3>2 DEF Cases, CasesStand, CaseStands, OnePenaltyPerCase, Deserved
    <3>6. OnePenaltyPerCase'
      BY <1>1, <2>1, <2>4, <3>2, <3>5 DEF Cases, OnePenaltyPerCase, Deserved
    <3> QED BY <3>3, <3>4, <3>6 DEF Cases
  <2>5. CASE report' = "DISMISSED" /\ penalties' = penalties
    <3>1. CasesAreKnown'
      BY <1>1, <2>1, <2>2, <2>5 DEF Cases, CasesAreKnown, KnowsOwner, At
    <3>2. CasesStand'
      BY <1>1, <2>1, <2>2, <2>5 DEF Cases, CasesStand, CaseStands, Apart, At
    <3>3. OnePenaltyPerCase'
      BY <1>1, <2>1, <2>5 DEF Cases, CasesStand, CaseStands, OnePenaltyPerCase, Deserved
    <3> QED BY <3>1, <3>2, <3>3 DEF Cases
  <2> QED BY <1>6, <2>3, <2>4, <2>5 DEF ResolveReport, Missing
<1>7. ASSUME NEW s \in Slots, ResolveFlag(s)
      PROVE  Cases'
  <2>1. /\ At(s, "flag") /\ duplicate' = slot[s].verdict
        /\ UNCHANGED <<report, named, penalties, contested>>
        /\ \/ slot[s].verdict = "CONFIRMED" /\ Goto(s, "penalise")
           \/ slot[s].verdict # "CONFIRMED" /\ End(s)
    BY <1>7, Zenon DEF ResolveFlag
  <2>2. \A t \in Slots : t # s => slot'[t] = slot[t]
    BY <1>1, <2>1 DEF Goto, End, ListingsTypeOK
  <2>3. \/ slot'[s].pc = "penalise" /\ duplicate' = "CONFIRMED"
        \/ slot'[s].pc = "idle"
    <3>1. slot[s] \in Request
      BY <1>1 DEF ListingsTypeOK
    <3> QED BY <1>1, <2>1, <3>1 DEF Goto, End, Idle, ListingsTypeOK, Request
  <2>4. ~contested => duplicate = "PENDING" /\ penalties.duplicate = 0
    BY <1>1, <2>1 DEF Cases, CasesStand, CaseStands, OnePenaltyPerCase, ListingsTypeOK
  <2>5. CasesAreKnown'
    BY <1>1, <2>1, <2>2, <2>3 DEF Cases, CasesAreKnown, KnowsOwner, At
  <2>6. CasesStand'
    BY <1>1, <2>1, <2>2, <2>3, <2>4 DEF Cases, CasesStand, CaseStands, Apart, At
  <2>7. OnePenaltyPerCase'
    BY <1>1, <2>1, <2>4 DEF Cases, OnePenaltyPerCase, Deserved
  <2> QED BY <2>5, <2>6, <2>7 DEF Cases
<1>8. ASSUME NEW s \in Slots, Penalise(s)
      PROVE  Cases'
  <2>1. /\ At(s, "penalise") /\ End(s)
        /\ penalties' = [penalties EXCEPT !.duplicate = @ + 1]
        /\ UNCHANGED <<report, named, duplicate, contested>>
    BY <1>8 DEF Penalise
  <2>2. /\ slot'[s].pc = "idle"
        /\ \A t \in Slots : t # s => slot'[t] = slot[t]
    BY <1>1, <2>1 DEF End, Idle, ListingsTypeOK
  <2>3. /\ penalties'.duplicate = penalties.duplicate + 1
        /\ penalties'.report = penalties.report
    BY <1>1, <2>1 DEF ListingsTypeOK
  <2>4. CasesAreKnown'
    BY <1>1, <2>1, <2>2 DEF Cases, CasesAreKnown, KnowsOwner, At
  <2>5. CasesStand'
    BY <1>1, <2>1, <2>2 DEF Cases, CasesStand, CaseStands, Apart, At
  <2>6. OnePenaltyPerCase'
    BY <1>1, <2>1, <2>3 DEF Cases, CasesStand, CaseStands, OnePenaltyPerCase, Deserved
  <2> QED BY <2>4, <2>5, <2>6 DEF Cases
<1>9. ASSUME NEW s \in Slots, ResolveReportRead(s) \/ ResolveFlagRead(s)
      PROVE  Cases'
  BY <1>5, <1>9 DEF ResolveReportRead, ResolveFlagRead
<1> QED BY <1>2, <1>3, <1>4, <1>6, <1>7, <1>8, <1>9 DEF Next

-----------------------------------------------------------------------------
LEMMA Initially == ASSUME Init PROVE IInv
<1>1. ListingsTypeOK /\ VerdictsFit
  <2>1. slot \in [Slots -> Request] /\ VerdictsFit
    BY IdleFits DEF Init, VerdictsFit
  <2>2. price \in Prices /\ discount \in 0..MaxPrice
    BY ListingsAssumption DEF Init, Prices
  <2> QED BY <2>1, <2>2 DEF Init, ListingsTypeOK, Status, Case, Targets
<1>2. PhotosWithinLimit
  <2>1. Uploading = {}
    BY DEF Init, Uploading, Idle
  <2>2. Cardinality(Uploading) = 0 /\ Cardinality(Slots) \in Nat
    BY <2>1, FS_EmptySet, FS_CardinalityType, ListingsAssumption DEF ListingsAssumption
  <2> QED BY <2>2, ListingsAssumption DEF Init, PhotosWithinLimit
<1>3. \A s \in Slots : At(s, "idle")
  BY DEF Init, At, Idle
<1>4. OneAtATime /\ ReadsStand
  BY <1>3 DEF OneAtATime, ReadsStand, StillStands, At
<1>5. DiscountWithinPrice /\ OnePenaltyPerCase
  BY DEF Init, DiscountWithinPrice, OnePenaltyPerCase, Deserved
<1>6. CasesAreKnown /\ CasesStand
  BY <1>3 DEF CasesAreKnown, KnowsOwner, CasesStand, CaseStands, Apart, At
<1> QED BY <1>1, <1>2, <1>4, <1>5, <1>6 DEF IInv

LEMMA Stutters == ASSUME IInv, UNCHANGED vars PROVE IInv'
<1>1. ListingsTypeOK' /\ VerdictsFit'
  BY DEF IInv, vars, terms, media, fraud, ListingsTypeOK, VerdictsFit
<1>2. PhotosWithinLimit'
  BY DEF IInv, vars, media, PhotosWithinLimit, Uploading
<1>3. OneAtATime' /\ ReadsStand'
  BY DEF IInv, vars, terms, media, fraud, OneAtATime, ReadsStand, StillStands, At, Merged
<1>4. DiscountWithinPrice' /\ OnePenaltyPerCase'
  BY DEF IInv, vars, terms, media, fraud, DiscountWithinPrice, OnePenaltyPerCase, Deserved
<1>5. CasesAreKnown' /\ CasesStand'
  BY DEF IInv, vars, fraud, CasesAreKnown, KnowsOwner, CasesStand, CaseStands, Apart, At
<1> QED BY <1>1, <1>2, <1>3, <1>4, <1>5 DEF IInv

LEMMA Steps == ASSUME IInv, [Next]_vars PROVE IInv'
<1>1. CASE Next
  <2>1. ListingsTypeOK' /\ VerdictsFit'
    BY <1>1, TypeStep DEF IInv
  <2>2. PhotosWithinLimit'
    BY <1>1, <2>1, PhotosStep DEF IInv
  <2> QED BY <1>1, <2>1, <2>2, OrderlyStep, CasesStep DEF IInv, Orderly, Cases
<1> QED BY <1>1, Stutters

(* The invariant holds in every behaviour: what reviews, updates, uploads    *)
(* and the fraud desk keep true of one home.                                 *)
THEOREM ListingsInvariance == Spec => []IInv
BY Initially, Steps, PTL DEF Spec

(* Every variable keeps its type, under any interleaving of requests.        *)
THEOREM ListingsTypeCorrect == Spec => []ListingsTypeOK
<1>1. IInv => ListingsTypeOK
  BY DEF IInv
<1> QED BY <1>1, ListingsInvariance, PTL

(* uploadPhoto and attachPhotoMedia: n overlapping requests exceed the limit *)
(* of photos by n - 1 at most, for every n and every limit.                  *)
THEOREM PhotosAreBounded == Spec => []PhotosWithinLimit
<1>1. IInv => PhotosWithinLimit
  BY DEF IInv
<1> QED BY <1>1, ListingsInvariance, PTL

(* updateListing: while requests come one at a time, no sequence of partial  *)
(* updates leaves a discount above the price.                                *)
THEOREM DiscountsAreFair == Spec => []DiscountWithinPrice
<1>1. IInv => DiscountWithinPrice
  BY DEF IInv
<1> QED BY <1>1, ListingsInvariance, PTL

(* resolveFraudReport and resolveDuplicateFlag: a confirmed report that      *)
(* names the owner has brought the penalty, whatever overlaps with it; and   *)
(* while no two administrators resolve one case at once, no case brings two. *)
THEOREM PenaltiesAreSingle == Spec => []OnePenaltyPerCase
<1>1. IInv => OnePenaltyPerCase
  BY DEF IInv
<1> QED BY <1>1, ListingsInvariance, PTL

-----------------------------------------------------------------------------
(* What a step may not do. *)

LEMMA LifeStep ==
  ASSUME IInv, Next, ~overlapped'
  PROVE  status' = status \/ status' = "FLAGGED" \/ <<status, status'>> \in Life
<1>1. ~overlapped => \A s \in Slots : StillStands(s)
  BY DEF IInv, ReadsStand
<1>2. CASE Create \/ Remove \/ FlagListing \/ Report \/ HashJob \/ OthersHashJob \/ HashJobOfNone
  BY <1>2 DEF Create, Remove, FlagListing, Report, HashJob, OthersHashJob, HashJobOfNone,
              StoreFlag, Life
<1>3. ASSUME NEW s \in Slots,
             \/ UpdateRead(s) \/ PhotoRead(s) \/ VideoRead(s) \/ SubmitRead(s)
             \/ ReviewRead(s) \/ DeleteRead(s) \/ ResolveReportRead(s) \/ ResolveFlagRead(s)
             \/ Update(s) \/ Photo(s) \/ Video(s) \/ ResolveReport(s) \/ ResolveFlag(s)
             \/ Penalise(s) \/ Abort(s)
      PROVE  status' = status \/ status' = "FLAGGED"
  BY <1>3, Zenon DEF UpdateRead, PhotoRead, VideoRead, SubmitRead, ReviewRead, DeleteRead,
     ResolveReportRead, ResolveFlagRead, ReadFor, ReadCase, Update, Photo, Video,
     ResolveReport, ResolveFlag, Penalise, Abort, Missing
<1>4. ASSUME NEW s \in Slots, Submit(s) \/ Review(s) \/ Delete(s), status' # status
      PROVE  <<status, status'>> \in Life
  <2>1. ~overlapped
    BY <1>4 DEF Submit, Review, Delete, Missing, End
  <2>2. StillStands(s) /\ Fits(slot[s])
    BY <1>1, <2>1 DEF IInv, VerdictsFit
  <2>3. CASE Submit(s)
    BY <1>4, <2>2, <2>3 DEF Submit, Missing, StillStands, Life
  <2>4. CASE Review(s)
    BY <1>4, <2>2, <2>4 DEF Review, Missing, StillStands, Fits, At, Life
  <2>5. CASE Delete(s)
    BY <1>4, <2>2, <2>5 DEF Delete, Missing, StillStands, Life
  <2> QED BY <1>4, <2>3, <2>4, <2>5
<1> QED BY <1>2, <1>3, <1>4 DEF Next

LEMMA TermsStep ==
  ASSUME IInv, Next, ~overlapped', status \in {"SUBMITTED", "VERIFIED"}
  PROVE  UNCHANGED terms
<1>1. ASSUME NEW s \in Slots, Update(s)
      PROVE  UNCHANGED terms
  <2>1. ~overlapped
    BY <1>1 DEF Update, Missing, End
  <2>2. FALSE
    BY <1>1, <2>1 DEF IInv, ReadsStand, StillStands, Update
  <2> QED BY <2>2
<1>2. ASSUME NEW s \in Slots,
             \/ UpdateRead(s) \/ PhotoRead(s) \/ VideoRead(s) \/ SubmitRead(s)
             \/ ReviewRead(s) \/ DeleteRead(s) \/ ResolveReportRead(s) \/ ResolveFlagRead(s)
             \/ Photo(s) \/ Video(s) \/ Submit(s) \/ Review(s) \/ Delete(s)
             \/ ResolveReport(s) \/ ResolveFlag(s) \/ Penalise(s) \/ Abort(s)
      PROVE  UNCHANGED terms
  BY <1>2, Zenon DEF UpdateRead, PhotoRead, VideoRead, SubmitRead, ReviewRead, DeleteRead,
     ResolveReportRead, ResolveFlagRead, ReadFor, ReadCase, Photo, Video, Submit, Review,
     Delete, ResolveReport, ResolveFlag, Penalise, Abort, Missing
<1>3. CASE Create \/ Remove \/ FlagListing \/ Report \/ HashJob \/ OthersHashJob \/ HashJobOfNone
  BY <1>3 DEF Create, Remove, FlagListing, Report, HashJob, OthersHashJob, HashJobOfNone, StoreFlag
<1> QED BY <1>1, <1>2, <1>3 DEF Next

(* submitListing, reviewListing and deleteListing: while requests come one   *)
(* at a time, a home moves along its documented life.                        *)
THEOREM LifeIsFollowed == Spec => StatusFollowsLife
<1>1. IInv /\ [Next]_vars =>
        [~overlapped' =>
           status' = status \/ status' = "FLAGGED" \/ <<status, status'>> \in Life]_vars
  BY LifeStep
<1> QED BY <1>1, ListingsInvariance, PTL DEF Spec, StatusFollowsLife

(* updateListing: while requests come one at a time, what an admin reviews   *)
(* is what was submitted, and what students see is what was approved.        *)
THEOREM TermsStand == Spec => ReviewedTermsStand
<1>1. IInv /\ [Next]_vars =>
        [~overlapped' /\ status \in {"SUBMITTED", "VERIFIED"} => UNCHANGED terms]_vars
  BY TermsStep
<1> QED BY <1>1, ListingsInvariance, PTL DEF Spec, ReviewedTermsStand

-----------------------------------------------------------------------------
(* Desk.                                                                     *)

(* What is not a row yet to be decided is a decision that was recorded.      *)
IsRecorded(r) == r # NoRow /\ r.status \in Decisions => r \in recorded

(* The row, what a load has read of it and what the page shows.              *)
ReadIsRecorded == IsRecorded(row) /\ IsRecorded(shown) /\ \A l \in loads : IsRecorded(l.seen)

(* A page of one submission has been sent a row, never an empty queue.       *)
ServedIsRow == place = "case" => \A l \in loads : l.stage = "served" => l.seen \in DeskRow

(* The server said yes to what it has stored.                                *)
AcceptedIsRecorded ==
  verdict # NoRow /\ verdict.stage = "accepted" => Kept(verdict.status, verdict.reason) \in recorded

(* The inductive invariant.                                                  *)
DeskInv == DeskTypeOK /\ ReadIsRecorded /\ ServedIsRow /\ AcceptedIsRecorded

-----------------------------------------------------------------------------
(* The invariant holds at first.                                             *)
LEMMA DeskBegins == DeskInit => DeskInv
<1> SUFFICES ASSUME DeskInit PROVE DeskInv
  OBVIOUS
<1>1. DeskTypeOK
  BY DeskAssumption DEF DeskInit, DeskTypeOK, DeskRow, Pending, LoadCall, Decisions
<1>2. ReadIsRecorded /\ ServedIsRow /\ AcceptedIsRecorded
  BY DEF ServedIsRow, DeskInit, ReadIsRecorded, AcceptedIsRecorded, IsRecorded, Pending, Decisions
<1> QED BY <1>1, <1>2 DEF DeskInv

(* A decision leaves a row of the table.                                     *)
LEMMA KeptIsRow == ASSUME NEW s \in Decisions, NEW r \in Reasons \cup {NoText} PROVE Kept(s, r) \in DeskRow
  BY DEF Kept, DeskRow

(* A load begins. *)
LEMMA LoadBegins ==
  ASSUME DeskInv, NEW wants \in Decisions \cup {"PENDING"}, NEW waits \in BOOLEAN, StartLoad(wants, waits)
  PROVE  /\ loads' \subseteq LoadCall /\ loading' \in BOOLEAN /\ error' = "none"
         /\ loaded' \in 0..MaxDeskLoads
         /\ \A l \in loads' : IsRecorded(l.seen)
         /\ place' = place => ServedIsRow'
<1> DEFINE n == [number |-> loaded', wants |-> wants, stage |-> "asked", seen |-> NoRow, awaited |-> waits]
<1>1. loaded \in 0..MaxDeskLoads /\ loads \subseteq LoadCall /\ loaded < MaxDeskLoads /\ loaded' = loaded + 1
      /\ loads' = loads \cup {n} /\ loading' = TRUE /\ error' = "none"
  BY DEF DeskInv, DeskTypeOK, StartLoad
<1>2. loaded' \in 1..MaxDeskLoads
  BY <1>1, DeskAssumption
<1>3. n \in LoadCall
  BY <1>2 DEF LoadCall
<1>4. n.seen = NoRow /\ n.stage = "asked"
  OBVIOUS
<1> HIDE DEF n
<1>5. \A l \in loads' : IsRecorded(l.seen)
  BY <1>1, <1>4 DEF DeskInv, ReadIsRecorded, IsRecorded
<1>6. place' = place => ServedIsRow'
  BY <1>1, <1>4 DEF DeskInv, ServedIsRow
<1> QED BY <1>1, <1>2, <1>3, <1>5, <1>6

(* Every step keeps it: a decision is recorded as it is stored.              *)
LEMMA DeskStep == ASSUME DeskInv, [DeskNext]_deskVars PROVE DeskInv'
<1> USE DEF DeskInv
<1>1. CASE RetryMedia
  <2>1. StartLoad(filter, FALSE) /\ filter \in Decisions \cup {"PENDING"}
        /\ UNCHANGED <<place, row, recorded, shown, typed, action, confirm, filter, verdict, others>>
    BY <1>1 DEF RetryMedia, DeskTypeOK
  <2>2. loads' \subseteq LoadCall /\ loading' \in BOOLEAN /\ error' = "none" /\ loaded' \in 0..MaxDeskLoads
        /\ (\A l \in loads' : IsRecorded(l.seen)) /\ ServedIsRow'
    BY <2>1, LoadBegins
  <2>3. DeskTypeOK'
    BY <2>1, <2>2 DEF DeskTypeOK
  <2>4. ReadIsRecorded' /\ ServedIsRow' /\ AcceptedIsRecorded'
    BY <2>1, <2>2 DEF ReadIsRecorded, IsRecorded, ServedIsRow, AcceptedIsRecorded, Kept
  <2> QED BY <2>3, <2>4
<1>2. ASSUME NEW s \in Decisions \cup {"PENDING"}, ChangeFilter(s) PROVE DeskInv'
  <2>1. StartLoad(s, FALSE) /\ filter' = s
        /\ UNCHANGED <<place, row, recorded, shown, typed, action, confirm, verdict, others>>
    BY <1>2 DEF ChangeFilter
  <2>2. loads' \subseteq LoadCall /\ loading' \in BOOLEAN /\ error' = "none" /\ loaded' \in 0..MaxDeskLoads
        /\ (\A l \in loads' : IsRecorded(l.seen)) /\ ServedIsRow'
    BY <2>1, LoadBegins
  <2>3. DeskTypeOK'
    BY <1>2, <2>1, <2>2 DEF DeskTypeOK
  <2>4. ReadIsRecorded' /\ ServedIsRow' /\ AcceptedIsRecorded'
    BY <2>1, <2>2 DEF ReadIsRecorded, IsRecorded, ServedIsRow, AcceptedIsRecorded, Kept
  <2> QED BY <2>3, <2>4
<1>3. CASE CancelVerdict \/ SessionEnds
  <2>1. DeskTypeOK'
    BY <1>3 DEF CancelVerdict, SessionEnds, LeaveDesk, DeskTypeOK
  <2>2. ReadIsRecorded' /\ ServedIsRow' /\ AcceptedIsRecorded'
    BY <1>3 DEF CancelVerdict, SessionEnds, LeaveDesk, ReadIsRecorded, IsRecorded, ServedIsRow, AcceptedIsRecorded, Kept
  <2> QED BY <2>1, <2>2
<1>4. CASE ConfirmVerdict
  <2> DEFINE v == [status |-> confirm, stage |-> "sent", reason |-> IF confirm = "REJECTED" THEN typed ELSE NoText]
  <2>1. v \in Verdict /\ v.stage = "sent"
    BY <1>4 DEF ConfirmVerdict, DeskTypeOK, Verdict, Decisions
  <2>2. verdict' = v
    BY <1>4 DEF ConfirmVerdict
  <2> HIDE DEF v
  <2>3. DeskTypeOK'
    BY <1>4, <2>1, <2>2 DEF ConfirmVerdict, DeskTypeOK
  <2>4. ReadIsRecorded' /\ ServedIsRow' /\ AcceptedIsRecorded'
    BY <1>4, <2>1, <2>2 DEF ConfirmVerdict, ReadIsRecorded, IsRecorded, ServedIsRow, AcceptedIsRecorded
  <2> QED BY <2>3, <2>4
<1>5. CASE Resubmitted
  <2>1. DeskTypeOK'
    BY <1>5, DeskAssumption DEF Resubmitted, DeskTypeOK, Pending, DeskRow
  <2>2. ReadIsRecorded' /\ ServedIsRow' /\ AcceptedIsRecorded'
    BY <1>5 DEF Resubmitted, ReadIsRecorded, IsRecorded, ServedIsRow, AcceptedIsRecorded, Kept, Pending, Decisions
  <2> QED BY <2>1, <2>2
<1>6. ASSUME NEW s \in Decisions, ChooseVerdict(s) PROVE DeskInv'
  <2>1. DeskTypeOK'
    BY <1>6 DEF ChooseVerdict, DeskTypeOK
  <2>2. ReadIsRecorded' /\ ServedIsRow' /\ AcceptedIsRecorded'
    BY <1>6 DEF ChooseVerdict, ReadIsRecorded, IsRecorded, ServedIsRow, AcceptedIsRecorded, Kept
  <2> QED BY <2>1, <2>2
<1>7. ASSUME NEW r \in Reasons \cup {NoText}, TypeReason(r) PROVE DeskInv'
  <2>1. DeskTypeOK'
    BY <1>7 DEF TypeReason, DeskTypeOK
  <2>2. ReadIsRecorded' /\ ServedIsRow' /\ AcceptedIsRecorded'
    BY <1>7 DEF TypeReason, ReadIsRecorded, IsRecorded, ServedIsRow, AcceptedIsRecorded, Kept
  <2> QED BY <2>1, <2>2
<1>8. ASSUME NEW s \in Decisions, NEW r \in Reasons, OtherDecides(s, r) PROVE DeskInv'
  <2>1. Kept(s, r) \in DeskRow
    BY KeptIsRow
  <2>2. row' = Kept(s, r) /\ recorded' = recorded \cup {Kept(s, r)}
        /\ UNCHANGED <<place, shown, typed, loading, action, confirm, filter, error, loads, verdict, loaded>>
    BY <1>8 DEF OtherDecides
  <2>3. others' \in 0..MaxOthers
    BY <1>8, DeskAssumption DEF OtherDecides, DeskTypeOK
  <2>4. DeskTypeOK'
    BY <2>1, <2>2, <2>3 DEF DeskTypeOK
  <2>5. ReadIsRecorded' /\ ServedIsRow'
    BY <2>2 DEF ReadIsRecorded, ServedIsRow, IsRecorded
  <2>6. AcceptedIsRecorded'
    BY <2>2 DEF AcceptedIsRecorded, Kept
  <2> QED BY <2>4, <2>5, <2>6
<1>9. CASE VerdictServed
  <2>1. verdict \in Verdict /\ UNCHANGED <<place, shown, typed, loading, action, confirm, filter, error, loads, loaded, others>>
    BY <1>9 DEF VerdictServed, DeskTypeOK
  <2>2. CASE /\ row' = Kept(verdict.status, verdict.reason) /\ recorded' = recorded \cup {row'}
             /\ verdict' = [verdict EXCEPT !.stage = "accepted"]
    <3>1. Kept(verdict.status, verdict.reason) \in DeskRow
      BY <2>1, KeptIsRow DEF Verdict
    <3>2. verdict' \in Verdict /\ verdict'.status = verdict.status /\ verdict'.reason = verdict.reason
      BY <2>1, <2>2 DEF Verdict
    <3>3. DeskTypeOK'
      BY <2>1, <2>2, <3>1, <3>2 DEF DeskTypeOK
    <3>4. ReadIsRecorded' /\ ServedIsRow'
      BY <2>1, <2>2 DEF ReadIsRecorded, ServedIsRow, IsRecorded
    <3>5. Kept(verdict.status, verdict.reason)' = Kept(verdict.status, verdict.reason)
      BY <2>1, <3>2 DEF Kept
    <3>6. AcceptedIsRecorded'
      BY <2>2, <3>5 DEF AcceptedIsRecorded
    <3> QED BY <3>3, <3>4, <3>6
  <2>3. CASE verdict' = [verdict EXCEPT !.stage = "refused"] /\ UNCHANGED <<row, recorded>>
    <3>1. verdict' \in Verdict /\ verdict'.stage = "refused"
      BY <2>1, <2>3 DEF Verdict
    <3>2. DeskTypeOK'
      BY <2>1, <2>3, <3>1 DEF DeskTypeOK
    <3>3. ReadIsRecorded' /\ ServedIsRow' /\ AcceptedIsRecorded'
      BY <2>1, <2>3, <3>1 DEF ReadIsRecorded, IsRecorded, ServedIsRow, AcceptedIsRecorded
    <3> QED BY <3>2, <3>3
  <2> QED BY <1>9, <2>2, <2>3 DEF VerdictServed
<1>10. CASE VerdictAnswered
  <2>1. verdict \in Verdict /\ verdict' = NoRow /\ UNCHANGED <<row, recorded, typed, filter, others>>
    BY <1>10 DEF VerdictAnswered, DeskTypeOK
  <2>2. AcceptedIsRecorded'
    BY <2>1 DEF AcceptedIsRecorded
  <2>3. CASE verdict.stage = "accepted"
    <3>1. Kept(verdict.status, verdict.reason) \in DeskRow
      BY <2>1, KeptIsRow DEF Verdict
    <3>2. shown' = Kept(verdict.status, verdict.reason) /\ shown' \in recorded
          /\ UNCHANGED <<place, loading, loads, loaded>> /\ action' = NoRow
          /\ confirm' \in {NoRow, confirm} /\ error' \in {"none", error}
      BY <1>10, <2>3 DEF VerdictAnswered, AcceptedIsRecorded
    <3>3. DeskTypeOK'
      BY <2>1, <3>1, <3>2 DEF DeskTypeOK
    <3>4. ReadIsRecorded' /\ ServedIsRow'
      BY <2>1, <3>2 DEF ReadIsRecorded, ServedIsRow, IsRecorded
    <3> QED BY <2>2, <3>3, <3>4
  <2>4. CASE StartLoad(filter, TRUE) /\ UNCHANGED <<place, shown, confirm, action>>
    <3>1. filter \in Decisions \cup {"PENDING"}
      BY DEF DeskTypeOK
    <3>2. loads' \subseteq LoadCall /\ loading' \in BOOLEAN /\ error' = "none" /\ loaded' \in 0..MaxDeskLoads
          /\ (\A l \in loads' : IsRecorded(l.seen)) /\ ServedIsRow'
      BY <2>4, <3>1, LoadBegins
    <3>3. DeskTypeOK'
      BY <2>1, <2>4, <3>2 DEF DeskTypeOK
    <3>4. ReadIsRecorded' /\ ServedIsRow'
      BY <2>1, <2>4, <3>2 DEF ReadIsRecorded, ServedIsRow, IsRecorded
    <3> QED BY <2>2, <3>3, <3>4
  <2>5. CASE LeaveDesk /\ UNCHANGED <<action, error, loading, loads, loaded>>
    <3>1. DeskTypeOK'
      BY <2>1, <2>5 DEF DeskTypeOK, LeaveDesk
    <3>2. ReadIsRecorded' /\ ServedIsRow'
      BY <2>1, <2>5 DEF ReadIsRecorded, ServedIsRow, IsRecorded, LeaveDesk
    <3> QED BY <2>2, <3>1, <3>2
  <2> QED BY <1>10, <2>3, <2>4, <2>5 DEF VerdictAnswered
<1>11. CASE VerdictFails
  <2>1. DeskTypeOK'
    BY <1>11 DEF VerdictFails, DeskTypeOK
  <2>2. ReadIsRecorded' /\ ServedIsRow' /\ AcceptedIsRecorded'
    BY <1>11 DEF VerdictFails, ReadIsRecorded, IsRecorded, ServedIsRow, AcceptedIsRecorded
  <2> QED BY <2>1, <2>2
<1>12. ASSUME NEW l \in loads, LoadServed(l) PROVE DeskInv'
  <2> DEFINE seen == IF place = "queue" /\ row.status # l.wants THEN NoRow ELSE row
             n == [l EXCEPT !.stage = "served", !.seen = seen]
  <2>1. l \in LoadCall /\ seen \in DeskRow \cup {NoRow} /\ IsRecorded(seen)
    BY DEF DeskTypeOK, ReadIsRecorded, IsRecorded
  <2>2. loads' = (loads \ {l}) \cup {n}
        /\ UNCHANGED <<place, row, recorded, shown, typed, loading, action, confirm, filter, error, verdict, loaded, others>>
    BY <1>12 DEF LoadServed
  <2> HIDE DEF seen
  <2>6. place # "queue" => seen \in DeskRow
    BY DEF seen, DeskTypeOK
  <2>3. n \in LoadCall /\ n.seen = seen
    BY <2>1 DEF LoadCall
  <2> HIDE DEF n
  <2>4. DeskTypeOK'
    BY <2>2, <2>3 DEF DeskTypeOK
  <2>5. ReadIsRecorded' /\ ServedIsRow' /\ AcceptedIsRecorded'
    BY <2>1, <2>2, <2>3, <2>6 DEF ReadIsRecorded, IsRecorded, ServedIsRow, AcceptedIsRecorded, Kept
  <2> QED BY <2>4, <2>5
<1>13. ASSUME NEW l \in loads, LoadArrives(l) PROVE DeskInv'
  <2> DEFINE n == [l EXCEPT !.stage = "media"]
  <2>1. l \in LoadCall /\ IsRecorded(l.seen) /\ l.seen \in DeskRow \cup {NoRow}
    BY DEF DeskTypeOK, ReadIsRecorded, LoadCall
  <2>2. /\ loads' \subseteq loads \cup {n} /\ loading' \in {loading, FALSE} /\ shown' = l.seen
        /\ typed' \in {typed} \cup (IF place = "case" THEN {l.seen.reason} ELSE {})
        /\ l.stage = "served"
        /\ UNCHANGED <<place, row, recorded, action, confirm, filter, error, verdict, loaded, others>>
    BY <1>13 DEF LoadArrives
  <2>6. typed' \in Reasons \cup {NoText}
    BY <2>2 DEF DeskTypeOK, ServedIsRow, DeskRow
  <2>3. n \in LoadCall /\ n.seen = l.seen /\ n.stage = "media"
    BY <2>1 DEF LoadCall
  <2> HIDE DEF n
  <2>4. DeskTypeOK'
    BY <2>1, <2>2, <2>3, <2>6 DEF DeskTypeOK
  <2>5. ReadIsRecorded' /\ ServedIsRow' /\ AcceptedIsRecorded'
    BY <2>1, <2>2, <2>3 DEF ReadIsRecorded, IsRecorded, ServedIsRow, AcceptedIsRecorded, Kept
  <2> QED BY <2>4, <2>5
<1>14. ASSUME NEW l \in loads, LoadMediaDone(l) \/ LoadFailed(l) PROVE DeskInv'
  <2>1. DeskTypeOK'
    BY <1>14 DEF LoadMediaDone, LoadFailed, LoadEnds, DeskTypeOK
  <2>2. ReadIsRecorded' /\ ServedIsRow' /\ AcceptedIsRecorded'
    BY <1>14 DEF LoadMediaDone, LoadFailed, LoadEnds, ReadIsRecorded, IsRecorded, ServedIsRow, AcceptedIsRecorded, Kept
  <2> QED BY <2>1, <2>2
<1>15. CASE UNCHANGED deskVars
  BY <1>15 DEF deskVars, DeskTypeOK, ReadIsRecorded, IsRecorded, ServedIsRow, AcceptedIsRecorded, Kept
<1> QED BY <1>1, <1>2, <1>3, <1>4, <1>5, <1>6, <1>7, <1>8, <1>9, <1>10, <1>11, <1>12, <1>13, <1>14, <1>15
        DEF DeskNext

(* A decision on a page, with its reason, was recorded. *)
THEOREM DecisionsShownWereRecorded == DeskSpec => []DecisionShownIsRecorded
<1>1. DeskInv => DecisionShownIsRecorded
  BY DEF DeskInv, ReadIsRecorded, IsRecorded, DecisionShownIsRecorded
<1> QED BY <1>1, DeskBegins, DeskStep, PTL DEF DeskSpec

(* Page, row and calls keep their types. *)
THEOREM DeskTypeCorrect == DeskSpec => []DeskTypeOK
<1>1. DeskInv => DeskTypeOK
  BY DEF DeskInv
<1> QED BY <1>1, DeskBegins, DeskStep, PTL DEF DeskSpec

-----------------------------------------------------------------------------
(* Roster.                                                                   *)

(* The one request to send a message.                                        *)
Sends == [text : 0..MaxMessages, stage : {"none", "asked", "stored", "broken"}]

(* Dialog, request and counts keep to their types.                           *)
DialogIsTyped ==
  /\ dialog \in Dialog /\ sent \in Sends
  /\ stored \in [Messages -> Nat] /\ failed \in [Messages -> Nat]

(* One request at a time, for a text that was composed; while it is under    *)
(* way the dialog does not say that it was sent.                             *)
DialogWaits ==
  /\ dialog.text <= dialog.composed /\ sent.text <= dialog.composed
  /\ dialog.step = "confirm" => dialog.text # 0
  /\ sent # NoSend => dialog.sending /\ dialog.step # "success" /\ sent.text \in Messages
  /\ sent = NoSend \/ sent.stage # "none"

(* The text was answered and is in the dialog only behind "Sent to".         *)
IsOver(m) == m <= dialog.composed /\ sent.text # m /\ (dialog.text = m => dialog.step = "success")

(* A text that is stored while its request is still under way.               *)
InStore(m) == sent.text = m /\ sent.stage \in {"stored", "broken"}

(* A copy more than errors: it is not yet answered, or the text is over.     *)
CopiesAreCounted ==
  \A m \in Messages : stored[m] <= failed[m] \/ (stored[m] <= failed[m] + 1 /\ (InStore(m) \/ IsOver(m)))

(* The inductive invariant.                                                  *)
RosterInv == DialogIsTyped /\ DialogWaits /\ CopiesAreCounted

-----------------------------------------------------------------------------
(* The invariant holds at first.                                             *)
LEMMA RosterBegins == RosterInit => RosterInv
<1> SUFFICES ASSUME RosterInit PROVE RosterInv
  OBVIOUS
<1>1. MaxMessages \in Nat
  BY RosterAssumption
<1>2. DialogIsTyped
  BY <1>1 DEF RosterInit, DialogIsTyped, Dialog, Sends, NoSend
<1>3. DialogWaits /\ CopiesAreCounted
  BY <1>1 DEF RosterInit, DialogWaits, CopiesAreCounted, NoSend, Messages
<1> QED BY <1>2, <1>3 DEF RosterInv

(* The fields of the dialog; its numbers are natural. *)
LEMMA DialogFields ==
  ASSUME NEW d \in Dialog
  PROVE  /\ d = [open |-> d.open, step |-> d.step, text |-> d.text, sending |-> d.sending,
                 composed |-> d.composed]
         /\ d.open \in BOOLEAN /\ d.sending \in BOOLEAN /\ d.step \in {"idle", "confirm", "success"}
         /\ d.text \in 0..MaxMessages /\ d.composed \in 0..MaxMessages
         /\ d.text \in Nat /\ d.composed \in Nat
<1>1. MaxMessages \in Nat
  BY RosterAssumption
<1>2. d.text \in 0..MaxMessages /\ d.composed \in 0..MaxMessages
  BY DEF Dialog
<1>3. d.text \in Nat /\ d.composed \in Nat
  BY <1>1, <1>2
<1> QED BY <1>2, <1>3 DEF Dialog

(* The dialog is opened, typed in or closed. *)
LEMMA DialogMoves ==
  ASSUME RosterInv, OpenDialog \/ ComposeText \/ ContinueSend \/ BackToText \/ CloseDialog
  PROVE  RosterInv'
<1>1. dialog \in Dialog /\ UNCHANGED <<sent, stored, failed>> /\ MaxMessages \in Nat
  BY RosterAssumption DEF RosterInv, DialogIsTyped, OpenDialog, ComposeText, ContinueSend, BackToText, CloseDialog, DialogStep
<1>2. /\ dialog' \in Dialog /\ (dialog.sending => dialog'.sending)
      /\ dialog.composed \in Nat /\ dialog'.composed \in Nat /\ dialog.text \in Nat /\ dialog'.text \in Nat
      /\ dialog.composed <= dialog'.composed
      /\ \/ dialog'.text = dialog.text /\ dialog'.step = dialog.step
         \/ dialog'.text = dialog.composed + 1 /\ dialog'.composed = dialog.composed + 1 /\ dialog'.step = "idle"
         \/ dialog'.text = dialog.text /\ dialog'.step = "confirm" /\ dialog.step = "idle" /\ dialog.text # 0
         \/ dialog'.text = dialog.text /\ dialog'.step = "idle" /\ dialog.step = "confirm"
         \/ dialog'.text = 0 /\ dialog'.step = "idle"
  <2>0. 0 \in 0..MaxMessages
    BY <1>1
  <2>1. CASE OpenDialog
    <3>1. dialog' = [dialog EXCEPT !.open = TRUE]
      BY <2>1 DEF OpenDialog, DialogStep
    <3>4. dialog' \in Dialog
      BY <1>1, <3>1, DialogFields DEF Dialog
    <3>5. dialog.composed \in Nat /\ dialog.text \in Nat /\ dialog'.composed \in Nat /\ dialog'.text \in Nat
      BY <1>1, <3>4, DialogFields
    <3> QED BY <1>1, <3>1, <3>4, <3>5 DEF Dialog
  <2>2. CASE ComposeText
    <3>1. /\ dialog' = [dialog EXCEPT !.text = dialog.composed + 1, !.composed = dialog.composed + 1]
          /\ dialog.composed < MaxMessages /\ dialog.step = "idle"
      BY <1>1, <2>2 DEF ComposeText, DialogStep, Shows, Dialog
    <3>2. dialog.composed + 1 \in 0..MaxMessages
      BY <1>1, <3>1, DialogFields
    <3>4. dialog' \in Dialog
      BY <1>1, <3>1, <3>2, DialogFields DEF Dialog
    <3>5. dialog.composed \in Nat /\ dialog.text \in Nat /\ dialog'.composed \in Nat /\ dialog'.text \in Nat
      BY <1>1, <3>4, DialogFields
    <3> QED BY <1>1, <3>1, <3>4, <3>5 DEF Dialog
  <2>3. CASE ContinueSend
    BY <1>1, <2>3 DEF ContinueSend, DialogStep, Dialog, Shows
  <2>4. CASE BackToText
    BY <1>1, <2>4 DEF BackToText, DialogStep, Dialog, Shows
  <2>5. CASE CloseDialog
    <3>1. dialog' = [dialog EXCEPT !.open = FALSE, !.text = 0, !.step = "idle"]
      BY <2>5 DEF CloseDialog, DialogStep
    <3>4. dialog' \in Dialog
      BY <1>1, <2>0, <3>1, DialogFields DEF Dialog
    <3>5. dialog.composed \in Nat /\ dialog.text \in Nat /\ dialog'.composed \in Nat /\ dialog'.text \in Nat
      BY <1>1, <3>4, DialogFields
    <3> QED BY <1>1, <3>1, <3>4, <3>5 DEF Dialog
  <2> QED BY <2>1, <2>2, <2>3, <2>4, <2>5
<1>3. DialogIsTyped'
  BY <1>1, <1>2 DEF RosterInv, DialogIsTyped
<1>4. sent.text \in Nat
  BY <1>1 DEF RosterInv, DialogIsTyped, Sends
<1>5. DialogWaits'
  BY <1>1, <1>2, <1>4 DEF RosterInv, DialogWaits
<1>6. ASSUME NEW m \in Messages, IsOver(m) PROVE IsOver(m)'
  BY <1>1, <1>2, <1>6 DEF IsOver, Messages
<1>7. CopiesAreCounted'
  <2> SUFFICES ASSUME NEW m \in Messages
               PROVE  stored[m] <= failed[m] \/ (stored[m] <= failed[m] + 1 /\ (InStore(m) \/ IsOver(m)'))
    BY <1>1 DEF CopiesAreCounted, InStore
  <2> QED BY <1>6 DEF RosterInv, CopiesAreCounted
<1> QED BY <1>3, <1>5, <1>7 DEF RosterInv

(* The message is sent. *)
LEMMA MessageGoes == ASSUME RosterInv, SendMessage PROVE RosterInv'
<1>1. dialog \in Dialog /\ MaxMessages \in Nat /\ dialog.step = "confirm" /\ dialog.text # 0 /\ ~dialog.sending
      /\ UNCHANGED <<stored, failed>>
  BY RosterAssumption DEF RosterInv, DialogIsTyped, DialogWaits, SendMessage, Shows
<1>2. /\ dialog' \in Dialog /\ dialog'.sending /\ dialog'.text = dialog.text /\ dialog'.step = dialog.step
      /\ dialog'.composed = dialog.composed
  BY <1>1 DEF SendMessage, Dialog
<1>3. dialog.text \in Messages /\ dialog.text \in 0..MaxMessages
  BY <1>1 DEF Dialog, Messages
<1>4. sent' \in Sends /\ sent'.text = dialog.text /\ sent'.stage = "asked"
  BY <1>3 DEF SendMessage, Sends
<1>5. sent = NoSend
  BY <1>1 DEF RosterInv, DialogWaits
<1>6. DialogIsTyped'
  BY <1>1, <1>2, <1>4 DEF RosterInv, DialogIsTyped
<1>7. DialogWaits'
  BY <1>1, <1>2, <1>3, <1>4 DEF RosterInv, DialogWaits
<1>8. CopiesAreCounted'
  <2> SUFFICES ASSUME NEW m \in Messages
               PROVE  stored[m] <= failed[m] \/ (stored[m] <= failed[m] + 1 /\ (InStore(m)' \/ IsOver(m)'))
    BY <1>1 DEF CopiesAreCounted
  <2>1. ~InStore(m)
    BY <1>5 DEF InStore, NoSend
  <2>2. IsOver(m) => IsOver(m)'
    BY <1>1, <1>2, <1>4 DEF IsOver
  <2> QED BY <2>1, <2>2 DEF RosterInv, CopiesAreCounted
<1> QED BY <1>6, <1>7, <1>8 DEF RosterInv

(* A text is stored: one copy more than errors, as long as it is not         *)
(* answered.                                                                 *)
LEMMA MessageIsStored == ASSUME RosterInv, MessageStored PROVE RosterInv'
<1>1. /\ sent \in Sends /\ sent.stage = "asked" /\ sent # NoSend /\ sent.text \in Messages
      /\ stored \in [Messages -> Nat] /\ failed \in [Messages -> Nat]
      /\ UNCHANGED <<dialog, failed>> /\ stored' = [stored EXCEPT ![sent.text] = @ + 1]
  BY DEF RosterInv, DialogIsTyped, DialogWaits, MessageStored, NoSend
<1>2. sent' \in Sends /\ sent'.text = sent.text /\ sent'.stage \in {"stored", "broken"}
  BY <1>1 DEF MessageStored, Sends
<1>3. DialogIsTyped'
  BY <1>1, <1>2 DEF RosterInv, DialogIsTyped
<1>4. DialogWaits'
  BY <1>1, <1>2 DEF RosterInv, DialogWaits
<1>5. CopiesAreCounted'
  <2> SUFFICES ASSUME NEW m \in Messages
               PROVE  stored'[m] <= failed[m] \/ (stored'[m] <= failed[m] + 1 /\ (InStore(m)' \/ IsOver(m)'))
    BY <1>1 DEF CopiesAreCounted
  <2>1. stored[m] \in Nat /\ failed[m] \in Nat
    BY <1>1
  <2>2. CASE m = sent.text
    <3>1. stored[m] <= failed[m]
      BY <1>1, <2>2 DEF RosterInv, CopiesAreCounted, InStore, IsOver
    <3>2. stored'[m] = stored[m] + 1
      BY <1>1, <2>2
    <3>3. InStore(m)'
      BY <1>2, <2>2 DEF InStore
    <3> QED BY <2>1, <3>1, <3>2, <3>3
  <2>3. CASE m # sent.text
    <3>1. stored'[m] = stored[m]
      BY <1>1, <2>3
    <3>2. ~InStore(m) /\ (IsOver(m) => IsOver(m)')
      BY <1>1, <1>2, <2>3 DEF InStore, IsOver
    <3> QED BY <3>1, <3>2 DEF RosterInv, CopiesAreCounted
  <2> QED BY <2>2, <2>3
<1> QED BY <1>3, <1>4, <1>5 DEF RosterInv

(* Its answer arrives: the text is over.                                     *)
LEMMA MessageIsAnswered == ASSUME RosterInv, MessageAnswered PROVE RosterInv'
<1>1. /\ sent \in Sends /\ sent.stage = "stored" /\ sent # NoSend /\ sent.text \in Messages
      /\ dialog \in Dialog /\ UNCHANGED <<stored, failed>> /\ sent' = NoSend /\ MaxMessages \in Nat
      /\ sent.text <= dialog.composed
  BY RosterAssumption DEF RosterInv, DialogIsTyped, DialogWaits, MessageAnswered, NoSend
<1>2. /\ dialog' \in Dialog /\ dialog'.step = "success" /\ dialog'.text = dialog.text
      /\ dialog'.composed = dialog.composed /\ dialog.composed \in Nat
  <2>1. dialog' = [dialog EXCEPT !.step = "success", !.sending = FALSE, !.open = FALSE]
    BY DEF MessageAnswered
  <2> QED BY <1>1, <2>1, DialogFields DEF Dialog
<1>3. DialogIsTyped'
  BY <1>1, <1>2 DEF RosterInv, DialogIsTyped, Sends, NoSend
<1>4. DialogWaits'
  BY <1>1, <1>2 DEF RosterInv, DialogWaits, NoSend
<1>5. CopiesAreCounted'
  <2> SUFFICES ASSUME NEW m \in Messages
               PROVE  stored[m] <= failed[m] \/ (stored[m] <= failed[m] + 1 /\ (InStore(m)' \/ IsOver(m)'))
    BY <1>1 DEF CopiesAreCounted
  <2>1. InStore(m) \/ IsOver(m) => IsOver(m)'
    BY <1>1, <1>2 DEF InStore, IsOver, NoSend, Messages
  <2> QED BY <2>1 DEF RosterInv, CopiesAreCounted
<1> QED BY <1>3, <1>4, <1>5 DEF RosterInv

(* The request fails: an error more, and the text may be sent again.         *)
LEMMA MessageIsRefused == ASSUME RosterInv, MessageFails PROVE RosterInv'
<1>1. /\ sent \in Sends /\ sent # NoSend /\ sent.text \in Messages /\ dialog.step # "success"
      /\ dialog \in Dialog /\ stored' = stored /\ sent' = NoSend /\ MaxMessages \in Nat
      /\ stored \in [Messages -> Nat] /\ failed \in [Messages -> Nat]
      /\ failed' = [failed EXCEPT ![sent.text] = @ + 1]
  BY RosterAssumption DEF RosterInv, DialogIsTyped, DialogWaits, MessageFails
<1>2. /\ dialog' \in Dialog /\ dialog'.step = "idle" /\ dialog'.text = dialog.text
      /\ dialog'.composed = dialog.composed /\ dialog.composed \in Nat
  <2>1. dialog' = [dialog EXCEPT !.step = "idle", !.sending = FALSE]
    BY DEF MessageFails
  <2> QED BY <1>1, <2>1, DialogFields DEF Dialog
<1>3. DialogIsTyped'
  BY <1>1, <1>2 DEF RosterInv, DialogIsTyped, Sends, NoSend
<1>4. DialogWaits'
  BY <1>1, <1>2 DEF RosterInv, DialogWaits, NoSend
<1>5. CopiesAreCounted'
  <2> SUFFICES ASSUME NEW m \in Messages
               PROVE  stored[m] <= failed'[m] \/ (stored[m] <= failed'[m] + 1 /\ (InStore(m)' \/ IsOver(m)'))
    BY <1>1 DEF CopiesAreCounted
  <2>1. stored[m] \in Nat /\ failed[m] \in Nat
    BY <1>1
  <2>2. CASE m = sent.text
    <3>1. failed'[m] = failed[m] + 1
      BY <1>1, <2>2
    <3>2. stored[m] <= failed[m] + 1
      BY <2>1 DEF RosterInv, CopiesAreCounted
    <3> QED BY <2>1, <3>1, <3>2
  <2>3. CASE m # sent.text
    <3>1. failed'[m] = failed[m]
      BY <1>1, <2>3
    <3>2. ~InStore(m) /\ (IsOver(m) => IsOver(m)')
      BY <1>1, <1>2, <2>3 DEF InStore, IsOver, NoSend, Messages
    <3> QED BY <3>1, <3>2 DEF RosterInv, CopiesAreCounted
  <2> QED BY <2>2, <2>3
<1> QED BY <1>3, <1>4, <1>5 DEF RosterInv

(* The list and the dialog touch no state of each other. *)
LEMMA ListMoves == ASSUME RosterInv, UNCHANGED sendVars PROVE RosterInv'
  BY DEF sendVars, RosterInv, DialogIsTyped, DialogWaits, CopiesAreCounted, InStore, IsOver

(* Every step keeps it.                                                      *)
LEMMA RosterStep == ASSUME RosterInv, [RosterNext]_rosterVars PROVE RosterInv'
<1>1. CASE OpenDialog \/ ComposeText \/ ContinueSend \/ BackToText \/ CloseDialog
  BY <1>1, DialogMoves
<1>2. CASE SendMessage \/ MessageStored \/ MessageAnswered \/ MessageFails
  BY <1>2, MessageGoes, MessageIsStored, MessageIsAnswered, MessageIsRefused
<1>3. CASE Reload \/ LoadMore \/ ClearFilters \/ RowAdded
  BY <1>3, ListMoves DEF Reload, LoadMore, ClearFilters, RowAdded
<1>4. ASSUME NEW f \in Filters, SeekUsers(f) \/ TypeSearch(f) PROVE RosterInv'
  BY <1>4, ListMoves DEF SeekUsers, TypeSearch
<1>5. ASSUME NEW c \in pages, PageServed(c) \/ PageArrives(c) \/ PageFails(c) PROVE RosterInv'
  BY <1>5, ListMoves DEF PageServed, PageArrives, PageFails
<1>6. CASE UNCHANGED rosterVars
  BY <1>6, ListMoves DEF rosterVars, sendVars
<1> QED BY <1>1, <1>2, <1>3, <1>4, <1>5, <1>6 DEF RosterNext

(* A message composed once is stored once, and once more for every error. *)
THEOREM MessagesAreSentOnce == RosterSpec => []OneCopyPerSend
<1>1. RosterInv => OneCopyPerSend
  <2> SUFFICES ASSUME RosterInv, NEW m \in Messages PROVE stored[m] <= failed[m] + 1
    BY DEF OneCopyPerSend
  <2>1. stored[m] \in Nat /\ failed[m] \in Nat
    BY DEF RosterInv, DialogIsTyped
  <2> QED BY <2>1 DEF RosterInv, CopiesAreCounted
<1> QED BY <1>1, RosterBegins, RosterStep, PTL DEF RosterSpec

=============================================================================
