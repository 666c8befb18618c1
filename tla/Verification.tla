---------------------------- MODULE Verification ----------------------------
(***************************************************************************)
(* How an account becomes a student or a provider: the student profile,    *)
(* the provider Page and the admin review queue of one account.            *)
(*                                                                         *)
(* An account has one profile and one Page (unique user_id, owner_id), and *)
(* accounts share no row, so one account is modelled.  A request reads and *)
(* checks rows first and writes them in a transaction later.  The two      *)
(* submissions run SERIALIZABLE: each is one step.  The review             *)
(* transactions run READ COMMITTED: others may commit between the read of  *)
(* the owner's role in the transaction and its writes.                     *)
(***************************************************************************)
EXTENDS Naturals, FiniteSets

CONSTANTS
  Slots,            \* requests of the user and of admins
  MaxSubmissions    \* bound: rows of admin_review_queue

ASSUME VerificationAssumption == MaxSubmissions \in Nat

VARIABLES
  role,            \* users.role; AGENT and LANDLORD are PROVIDER
  profile,         \* student_profiles.status, "none" without a row
  page,            \* provider_pages.verification_state, "none" without a row
  consent,         \* provider_pages.accountModeConversionConsented
  subject,         \* admin_review_queue.entity_type, in order of createdAt
  decision,        \* admin_review_queue.status
  identityEvents,  \* IDENTITY_VERIFIED trust events of approvals of the Page
  slot,            \* what each request has read and is about to write
  overlapped       \* history: a request began while another was under way

vars == <<role, profile, page, consent, subject, decision, identityEvents, slot, overlapped>>
account == <<role, profile, page, consent>>
reviews == <<subject, decision>>

Submissions == 1..MaxSubmissions
Role     == {"UNVERIFIED", "STUDENT", "PROVIDER"}
Profile  == {"none", "PENDING", "APPROVED", "REJECTED"}
Page     == {"none", "DRAFT", "SUBMITTED", "VERIFIED", "REJECTED"}
Subject  == {"none", "student_profile", "provider_page"}
Decision == {"none", "PENDING", "APPROVED", "REJECTED"}
Pc == {"idle", "profileInsert", "profileUpdate", "pageInsert", "pageUpdate",
       "pageSubmit", "profileReview", "pageReview", "profileDecide", "pageDecide"}
Request == [pc : Pc, sub : 0..MaxSubmissions, outcome : Decision, consent : BOOLEAN]
Idle == [pc |-> "idle", sub |-> 0, outcome |-> "none", consent |-> FALSE]

-----------------------------------------------------------------------------
Goto(s, pc) == slot' = [slot EXCEPT ![s].pc = pc] /\ UNCHANGED overlapped
Finish(s)   == slot' = [slot EXCEPT ![s] = Idle] /\ UNCHANGED overlapped

Start(s, r) ==
  /\ slot[s].pc = "idle"
  /\ slot' = [slot EXCEPT ![s] = r]
  /\ overlapped' = (overlapped \/ \E t \in Slots : slot[t].pc # "idle")

Open == {i \in Submissions : decision[i] = "PENDING"}
Unused == {i \in Submissions : decision[i] = "none"}

(* adminReviewQueue.create: the next row. *)
Queue(what) ==
  \E i \in Unused :
    /\ \A j \in Unused : i <= j
    /\ subject' = [subject EXCEPT ![i] = what]
    /\ decision' = [decision EXCEPT ![i] = "PENDING"]

-----------------------------------------------------------------------------
(* StudentProfilesService.completeProfile *)

CompleteRead(s) ==
  /\ role \in {"UNVERIFIED", "STUDENT"}
  /\ \/ profile = "none" /\ Start(s, [Idle EXCEPT !.pc = "profileInsert"])
     \/ profile = "REJECTED" /\ Start(s, [Idle EXCEPT !.pc = "profileUpdate"])
  /\ UNCHANGED <<account, reviews, identityEvents>>

(* A mutant: the transaction does not look at the provider Page. *)
CompleteSubmitUnchecked(s) ==
  /\ \/ slot[s].pc = "profileInsert" /\ profile = "none"
     \/ slot[s].pc = "profileUpdate"
  /\ profile' = "PENDING"
  /\ Queue("student_profile")
  /\ Finish(s)
  /\ UNCHANGED <<role, page, consent, identityEvents>>

CompleteSubmit(s) ==
  /\ \/ slot[s].pc = "profileInsert" /\ profile = "none"   \* unique user_id
     \/ slot[s].pc = "profileUpdate"
  /\ page # "SUBMITTED"
  /\ profile' = "PENDING"
  /\ Queue("student_profile")
  /\ Finish(s)
  /\ UNCHANGED <<role, page, consent, identityEvents>>

-----------------------------------------------------------------------------
(* ProviderPagesService.create and update: a new draft, or back to draft. *)

Consented(agrees) == agrees \/ consent

Create(s, agrees) ==
  /\ profile # "PENDING"
  /\ role = "STUDENT" => Consented(agrees)
  /\ \/ page = "none" /\ Start(s, [Idle EXCEPT !.pc = "pageInsert",
                                               !.consent = Consented(agrees)])
     \/ page = "REJECTED" /\ Start(s, [Idle EXCEPT !.pc = "pageUpdate",
                                               !.consent = Consented(agrees)])
  /\ UNCHANGED <<account, reviews, identityEvents>>

Update(s, agrees) ==
  /\ page \in {"DRAFT", "REJECTED"}
  /\ role = "STUDENT" => Consented(agrees)
  /\ Start(s, [Idle EXCEPT !.pc = "pageUpdate", !.consent = Consented(agrees)])
  /\ UNCHANGED <<account, reviews, identityEvents>>

(* The update is by id: a Page submitted or verified meanwhile is a draft    *)
(* again.                                                                    *)
PageWrite(s) ==
  /\ \/ slot[s].pc = "pageInsert" /\ page = "none"         \* unique owner_id
     \/ slot[s].pc = "pageUpdate"
  /\ page' = "DRAFT"
  /\ consent' = slot[s].consent
  /\ Finish(s)
  /\ UNCHANGED <<role, profile, reviews, identityEvents>>

-----------------------------------------------------------------------------
(* ProviderPagesService.submit *)

(* A mutant: a Page that is under review may be submitted again. *)
SubmitReadAgain(s) ==
  /\ page \in {"DRAFT", "REJECTED", "SUBMITTED"}
  /\ role = "STUDENT" => consent
  /\ Start(s, [Idle EXCEPT !.pc = "pageSubmit"])
  /\ UNCHANGED <<account, reviews, identityEvents>>

SubmitRead(s) ==
  /\ page \in {"DRAFT", "REJECTED"}
  /\ role = "STUDENT" => consent
  /\ Start(s, [Idle EXCEPT !.pc = "pageSubmit"])
  /\ UNCHANGED <<account, reviews, identityEvents>>

Submit(s) ==
  /\ slot[s].pc = "pageSubmit"
  /\ profile # "PENDING"
  /\ page' = "SUBMITTED"
  /\ Queue("provider_page")
  /\ Finish(s)
  /\ UNCHANGED <<role, profile, consent, identityEvents>>

-----------------------------------------------------------------------------
(* AdminService.reviewSubmission, and ProviderPagesService.review of the     *)
(* Page's last open submission.                                              *)

Review(pc, i, outcome) == [pc |-> pc, sub |-> i, outcome |-> outcome, consent |-> consent]

ReviewProfileRead(s, i, outcome) ==
  /\ i \in Open /\ subject[i] = "student_profile"
  /\ profile = "PENDING"
  /\ Start(s, Review("profileReview", i, outcome))
  /\ UNCHANGED <<account, reviews, identityEvents>>

ReviewPageRead(s, i, outcome) ==
  /\ i \in Open /\ subject[i] = "provider_page"
  /\ page = "SUBMITTED"
  /\ Start(s, Review("pageReview", i, outcome))
  /\ UNCHANGED <<account, reviews, identityEvents>>

(* In the transaction: an approval that does not suit the owner's role is    *)
(* refused.  Whether a student consented was read with the Page.             *)
RoleAllows(s) ==
  \/ slot[s].outcome = "REJECTED"
  \/ slot[s].pc = "profileReview" /\ role # "PROVIDER"
  \/ slot[s].pc = "pageReview" /\ (role = "STUDENT" => slot[s].consent)

ReviewCheck(s) ==
  /\ slot[s].pc \in {"profileReview", "pageReview"}
  /\ IF RoleAllows(s)
     THEN Goto(s, IF slot[s].pc = "pageReview" THEN "pageDecide" ELSE "profileDecide")
     ELSE Finish(s)
  /\ UNCHANGED <<account, reviews, identityEvents>>

Decide(s) == decision' = [decision EXCEPT ![slot[s].sub] = slot[s].outcome]

ProfileDecide(s) ==
  /\ slot[s].pc = "profileDecide"
  /\ Decide(s)
  /\ profile' = slot[s].outcome
  /\ role' = IF slot[s].outcome = "APPROVED" THEN "STUDENT" ELSE role
  /\ Finish(s)
  /\ UNCHANGED <<page, consent, subject, identityEvents>>

PageDecide(s) ==
  LET approved == slot[s].outcome = "APPROVED" IN
  /\ slot[s].pc = "pageDecide"
  /\ Decide(s)
  /\ page' = IF approved THEN "VERIFIED" ELSE "REJECTED"
  /\ role' = IF approved THEN "PROVIDER" ELSE role
  /\ identityEvents' = IF approved THEN identityEvents + 1 ELSE identityEvents
  /\ Finish(s)
  /\ UNCHANGED <<profile, consent, subject>>

-----------------------------------------------------------------------------
(* A check that throws, a serialization failure, a lost connection: the      *)
(* transaction rolls back.                                                   *)
Abort(s) ==
  /\ slot[s].pc # "idle"
  /\ Finish(s)
  /\ UNCHANGED <<account, reviews, identityEvents>>

Init ==
  /\ role = "UNVERIFIED" /\ profile = "none" /\ page = "none" /\ consent = FALSE
  /\ subject = [i \in Submissions |-> "none"]
  /\ decision = [i \in Submissions |-> "none"]
  /\ identityEvents = 0
  /\ slot = [s \in Slots |-> Idle]
  /\ overlapped = FALSE

User(s) ==
  \/ CompleteRead(s) \/ CompleteSubmit(s)
  \/ \E agrees \in BOOLEAN : Create(s, agrees) \/ Update(s, agrees)
  \/ PageWrite(s) \/ SubmitRead(s) \/ Submit(s)

Admin(s) ==
  \/ \E i \in Submissions, outcome \in {"APPROVED", "REJECTED"} :
       ReviewProfileRead(s, i, outcome) \/ ReviewPageRead(s, i, outcome)
  \/ ReviewCheck(s) \/ ProfileDecide(s) \/ PageDecide(s)

Next == \E s \in Slots : User(s) \/ Admin(s) \/ Abort(s)

Spec == Init /\ [][Next]_vars

-----------------------------------------------------------------------------
VerificationTypeOK ==
  /\ role \in Role /\ profile \in Profile /\ page \in Page /\ consent \in BOOLEAN
  /\ subject \in [Submissions -> Subject]
  /\ decision \in [Submissions -> Decision]
  /\ identityEvents \in Nat
  /\ slot \in [Slots -> Request]
  /\ overlapped \in BOOLEAN

(* "Your student profile is under review. Wait for its decision before       *)
(* submitting a provider Page", and the other way round: an account is under *)
(* review as one or the other, whatever requests overlap.                    *)
NeverBothUnderReview == ~(profile = "PENDING" /\ page = "SUBMITTED")

-----------------------------------------------------------------------------
(* What holds while no two requests about the account have overlapped. *)

(* What is under review has exactly one open submission and an open          *)
(* submission is about something under review: nothing is stuck in the queue *)
(* of the admins and nothing waits for a decision nobody can take.           *)
OpenSubmissionsMatch ==
  ~overlapped =>
    /\ profile = "PENDING" <=> \E i \in Open : subject[i] = "student_profile"
    /\ page = "SUBMITTED" <=> \E i \in Open : subject[i] = "provider_page"
    /\ Cardinality(Open) <= 1

(* "Submission has already been reviewed" (reviewSubmission): a decision is  *)
(* taken once.                                                               *)
DecisionIsFinal ==
  [][\A i \in Submissions : decision[i] \in {"APPROVED", "REJECTED"} =>
       decision'[i] = decision[i]]_vars

-----------------------------------------------------------------------------
(* What the code's own messages say, and overlapping requests break. *)

(* "This Page cannot be edited in its current state" (update): an edit that  *)
(* read a draft turns a Page that is under review or verified into a draft.  *)
OnlyDraftsAreEdited ==
  [][\A s \in Slots : slot[s].pc = "pageUpdate" /\ PageWrite(s) =>
       page \in {"DRAFT", "REJECTED"}]_vars

(* "Student account conversion consent is required": a student becomes a     *)
(* provider only after agreeing to it.                                       *)
ConversionHasConsent ==
  [][role = "STUDENT" /\ role' = "PROVIDER" => consent]_vars

=============================================================================
