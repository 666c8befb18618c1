------------------------------- MODULE Trust -------------------------------
(***************************************************************************)
(* The trust of one user: the events other services record, the score the  *)
(* recompute jobs and the read endpoints derive from them, and the badge   *)
(* with its award mail.                                                    *)
(*                                                                         *)
(* A computation reads its rows in several statements and writes what it   *)
(* found; whoever ends last wins.  Recency is left out: every event counts *)
(* fully, whatever its age.                                                *)
(***************************************************************************)
EXTENDS Integers

CONSTANTS
  Work,                       \* requests and jobs under way
  Reports,                    \* fraud reports against the user
  StayPoints, AgainstPoints,  \* what a stay adds and a confirmed fraud or lost dispute
                              \* takes, of 100: 10 and 30 in the code
  CrownScore,                 \* 85 in the code
  MaxStays, MaxAgainst,       \* bounds: events recorded
  MaxRecomputes               \* bound: jobs waiting

ASSUME TrustAssumption ==
  /\ StayPoints \in Nat /\ AgainstPoints \in Nat /\ CrownScore \in 1..100
  /\ MaxStays \in Nat /\ MaxAgainst \in Nat /\ MaxRecomputes \in Nat

NoScore == -1
Scores  == NoScore..100
Stages  == {"PROFILE_VERIFIED", "AGENT_VERIFIED", "TRUST_CROWN"}
NoBadge == [stage |-> "PROFILE_VERIFIED", identity |-> FALSE, risk |-> FALSE]
Badge   == [stage : Stages, identity : BOOLEAN, risk : BOOLEAN]

VARIABLES
  standing,     \* what has been approved: nothing, a student profile, a provider Page
  famous,      \* has ten followers
  report,      \* status of each fraud report
  stays,       \* trust_events BOOKING_SECURED and BOOKING_COMPLETED
  against,     \* trust_events that count against the user
  score,       \* users.trustScore
  recomputes,  \* trust-recompute jobs waiting
  badge,       \* user_verifications
  work,        \* what each request or job has read; open: the reports that have been
               \* open since (history)
  excused,     \* history: the score may be behind its events, and why is known
  overlap,     \* history: two computations of the badge overlapped
  held,        \* history: badges awarded and not lost since
  repeated     \* history: a badge was awarded twice while it was held

trustVars == <<standing, famous, report, stays, against, score, recomputes, badge, work,
               excused, overlap, held, repeated>>
inputs  == <<standing, famous, report, stays, against>>
badges  == <<badge, held, repeated, overlap>>

Item == [pc : {"idle", "send", "commit", "rescore", "count", "previous", "store"},
         for : {"none", "job", "score", "stage"}, standing : {"new", "student", "provider"},
         famous : BOOLEAN, score : Scores, flagged : BOOLEAN, open : SUBSET Reports,
         stays : 0..MaxStays, against : 0..MaxAgainst, report : Reports \cup {"none"},
         computed : Badge, award : BOOLEAN]
Free == [pc |-> "idle", for |-> "none", standing |-> "new", famous |-> FALSE,
         score |-> NoScore, flagged |-> FALSE, open |-> {}, stays |-> 0, against |-> 0,
         report |-> "none", computed |-> NoBadge, award |-> FALSE]

Take(w, i) == work[w].pc = "idle" /\ work' = [work EXCEPT ![w] = i]
Drop(w)    == work' = [work EXCEPT ![w] = Free]
OpenReports       == {r \in Reports : report[r] \in {"PENDING", "CONFIRMED"}}

-----------------------------------------------------------------------------
(* trust-score.engine.ts, trust.service.ts: pure functions *)

(* computeTrustScore: no score before a first stay; reviews, identity and    *)
(* won disputes are skipped; a weight that is not positive is replaced by    *)
(* the default of its type.                                                  *)
ScoreOf(s, a) ==
  LET total == s * StayPoints - a * AgainstPoints IN
  IF s = 0 THEN NoScore ELSE IF total < 0 THEN 0 ELSE IF total > 100 THEN 100 ELSE total

(* computeUserVerificationStage. *)
StageOf(acc, many, points, risky) ==
  IF risky \/ acc # "provider" \/ ~many THEN "PROFILE_VERIFIED"
  ELSE IF points >= CrownScore THEN "TRUST_CROWN" ELSE "AGENT_VERIFIED"

(* A mutant: the badge held before is not looked at. *)
AwardedAnyway(prev, new) == ~new.risk /\ (new.stage # "PROFILE_VERIFIED" \/ new.identity)

(* enqueueBadgeAwardIfNew: the badge is higher than the one read before. *)
Awarded(prev, new) ==
  /\ ~new.risk /\ new.identity
  /\ CASE new.stage = "TRUST_CROWN"    -> prev.stage # "TRUST_CROWN"
       [] new.stage = "AGENT_VERIFIED" -> prev.stage = "PROFILE_VERIFIED"
       [] OTHER                        -> ~prev.identity

-----------------------------------------------------------------------------
(* What other services do *)

(* Followers come and go. *)
FollowersChange ==
  /\ famous' = ~famous
  /\ UNCHANGED <<standing, report, stays, against, score, recomputes, badges, work, excused>>

(* A review approves the student profile, later a Page.  Only the latter     *)
(* computes the badge at once: StageRead may follow at any time anyway.      *)
Approve ==
  /\ standing' \in IF standing = "new" THEN {"student", "provider"} ELSE {"provider"}
  /\ standing # "provider"
  /\ UNCHANGED <<famous, report, stays, against, score, recomputes, badges, work, excused>>

(* A mutant: the job is not sent. *)
RecordEventOnly(w) ==
  /\ work[w].pc = "idle"
  /\ \/ standing = "provider" /\ stays < MaxStays /\ stays' = stays + 1 /\ UNCHANGED against
     \/ against < MaxAgainst /\ against' = against + 1 /\ UNCHANGED stays
  /\ UNCHANGED <<standing, famous, report, score, recomputes, badges, work, excused>>

(* A secured or disputed booking, a confirmed duplicate: the event, then its *)
(* job.                                                                      *)
RecordEvent(w) ==
  /\ Take(w, [Free EXCEPT !.pc = "send"])
  /\ \/ standing = "provider" /\ stays < MaxStays /\ stays' = stays + 1 /\ UNCHANGED against
     \/ against < MaxAgainst /\ against' = against + 1 /\ UNCHANGED stays
  /\ UNCHANGED <<standing, famous, report, score, recomputes, badges, excused>>

SendRecompute(w) ==
  /\ work[w].pc = "send"
  /\ recomputes < MaxRecomputes /\ recomputes' = recomputes + 1
  /\ Drop(w)
  /\ UNCHANGED <<inputs, score, badges, excused>>

(* reportFraud: the reporter gets an event, and no job. *)
ReportSomebody ==
  /\ against < MaxAgainst /\ against' = against + 1
  /\ excused' = TRUE
  /\ UNCHANGED <<standing, famous, report, stays, score, recomputes, badges, work>>

ReportArrives(r) ==
  /\ report[r] = "NONE"
  /\ report' = [report EXCEPT ![r] = "PENDING"]
  /\ UNCHANGED <<standing, famous, stays, against, score, recomputes, badges, work, excused>>

ReportDismissed(r) ==
  /\ report[r] = "PENDING"
  /\ report' = [report EXCEPT ![r] = "DISMISSED"]
  /\ work' = [w \in Work |-> [work[w] EXCEPT !.open = @ \ {r}]]
  /\ UNCHANGED <<standing, famous, stays, against, score, recomputes, badges, excused>>

(* resolveReport: the job is sent inside the transaction, before it commits. *)
ConfirmReport(w, r) ==
  /\ report[r] = "PENDING"
  /\ against < MaxAgainst /\ recomputes < MaxRecomputes
  /\ \A o \in Work : work[o].pc # "commit"
  /\ Take(w, [Free EXCEPT !.pc = "commit", !.report = r])
  /\ recomputes' = recomputes + 1
  /\ UNCHANGED <<inputs, score, badges, excused>>

ConfirmCommit(w) ==
  /\ work[w].pc = "commit" /\ against < MaxAgainst
  /\ report' = [report EXCEPT ![work[w].report] = "CONFIRMED"]
  /\ against' = against + 1
  /\ excused' = (excused \/ recomputes = 0)
  /\ Drop(w)
  /\ UNCHANGED <<standing, famous, stays, score, recomputes, badges>>

-----------------------------------------------------------------------------
(* Recomputing the score *)

Rescoring == {w \in Work : work[w].pc = "rescore"}
Snapshot(i) == [i EXCEPT !.pc = "rescore", !.stays = stays, !.against = against]

(* The worker takes a job and reads the events. *)
JobRead(w) ==
  /\ recomputes > 0 /\ recomputes' = recomputes - 1
  /\ Take(w, Snapshot([Free EXCEPT !.for = "job"]))
  /\ excused' = (excused \/ Rescoring # {})
  /\ UNCHANGED <<inputs, score, badges>>

(* getTrustScore: a provider's cached score, or recomputeScore: no score for *)
(* another role, else that of the events.                                    *)
ScoreRead(w, i, cached) ==
  IF standing = "provider" /\ score # NoScore
  THEN /\ work' = [work EXCEPT ![w] = cached]
       /\ UNCHANGED excused
  ELSE /\ work' = [work EXCEPT ![w] =
                     IF standing = "provider" THEN Snapshot(i) ELSE [i EXCEPT !.pc = "rescore"]]
       /\ excused' = (excused \/ Rescoring # {})

GetScore(w) ==
  /\ work[w].pc = "idle"
  /\ ScoreRead(w, [Free EXCEPT !.for = "score"], Free)
  /\ UNCHANGED <<inputs, score, recomputes, badges>>

(* user.update: the score of the events that were read. *)
Rescore(w) ==
  LET i == work[w]
      new == ScoreOf(i.stays, i.against)
  IN
  /\ i.pc = "rescore"
  /\ score' = new
  /\ excused' = (excused /\ (new # ScoreOf(stays, against) \/ Rescoring # {w}))
  /\ work' = [work EXCEPT ![w] =
                IF i.for = "stage"
                THEN [i EXCEPT !.pc = "count", !.flagged = i.against > 0, !.stays = 0,
                               !.against = 0,
                               !.score = IF @ = NoScore THEN new ELSE @]
                ELSE Free]
  /\ UNCHANGED <<inputs, recomputes, badges>>

-----------------------------------------------------------------------------
(* getVerificationStage *)

Computing == {w \in Work : work[w].for = "stage"}

StageRead(w) ==
  LET i == [Free EXCEPT !.pc = "count", !.for = "stage", !.standing = standing,
                        !.famous = famous, !.score = score, !.open = OpenReports]
  IN
  /\ work[w].pc = "idle"
  /\ ScoreRead(w, i, i)
  /\ overlap' = (overlap \/ Computing # {})
  /\ UNCHANGED <<inputs, score, recomputes, badge, held, repeated>>

Compute(w, flagged) ==
  LET i == work[w] IN
  work' = [work EXCEPT ![w] =
    [Free EXCEPT !.pc = "previous", !.for = "stage", !.open = i.open,
       !.computed = [stage |-> StageOf(i.standing, i.famous, i.score, flagged),
                     identity |-> i.standing # "new", risk |-> flagged]]]

(* A mutant: only confirmed reports are counted. *)
StageCountConfirmed(w) ==
  /\ work[w].pc = "count"
  /\ Compute(w, work[w].flagged \/ \E r \in Reports : report[r] = "CONFIRMED")
  /\ UNCHANGED <<inputs, score, recomputes, badges, excused>>

(* Pending and confirmed reports are counted. *)
StageCount(w) ==
  /\ work[w].pc = "count"
  /\ Compute(w, work[w].flagged \/ OpenReports # {})
  /\ UNCHANGED <<inputs, score, recomputes, badges, excused>>

(* The badge is read, to be compared with what was computed. *)
StagePrevious(w) ==
  /\ work[w].pc = "previous"
  /\ work' = [work EXCEPT ![w].pc = "store", ![w].award = Awarded(badge, work[w].computed)]
  /\ UNCHANGED <<inputs, score, recomputes, badges, excused>>

(* userVerification.upsert, and the award, which is not awaited. *)
StageStore(w) ==
  LET new == work[w].computed
      award == IF work[w].award THEN {new.stage} ELSE {}
      kept == CASE new.stage = "TRUST_CROWN" -> held
                [] new.stage = "AGENT_VERIFIED" -> held \ {"TRUST_CROWN"}
                [] OTHER -> held \cap {"PROFILE_VERIFIED"}
  IN
  /\ work[w].pc = "store"
  /\ badge' = new
  /\ held' = kept \cup award
  /\ repeated' = (repeated \/ award \cap held # {})
  /\ Drop(w)
  /\ UNCHANGED <<inputs, score, recomputes, excused, overlap>>

(* A request or job dies, and what it had still to do with it; a job is not  *)
(* tried again.                                                              *)
TrustAbort(w) ==
  /\ work[w].pc # "idle"
  /\ excused' = (excused \/ work[w].pc = "send" \/ work[w].for = "job")
  /\ Drop(w)
  /\ UNCHANGED <<inputs, score, recomputes, badges>>

-----------------------------------------------------------------------------
TrustInit ==
  /\ standing = "new" /\ famous = FALSE
  /\ report = [r \in Reports |-> "NONE"]
  /\ stays = 0 /\ against = 0 /\ score = NoScore /\ recomputes = 0
  /\ badge = NoBadge
  /\ work = [w \in Work |-> Free]
  /\ excused = FALSE /\ overlap = FALSE /\ held = {} /\ repeated = FALSE

TrustNext ==
  \/ FollowersChange \/ Approve \/ ReportSomebody
  \/ \E r \in Reports : ReportArrives(r) \/ ReportDismissed(r)
  \/ \E w \in Work :
       \/ RecordEvent(w) \/ SendRecompute(w) \/ ConfirmCommit(w)
       \/ \E r \in Reports : ConfirmReport(w, r)
       \/ JobRead(w) \/ GetScore(w) \/ Rescore(w)
       \/ StageRead(w) \/ StageCount(w) \/ StagePrevious(w) \/ StageStore(w)
       \/ TrustAbort(w)

TrustSpec == TrustInit /\ [][TrustNext]_trustVars

-----------------------------------------------------------------------------
(* The tables and what the requests remember have their types. *)
TrustTypeOK ==
  /\ standing \in {"new", "student", "provider"} /\ famous \in BOOLEAN
  /\ report \in [Reports -> {"NONE", "PENDING", "CONFIRMED", "DISMISSED"}]
  /\ stays \in 0..MaxStays /\ against \in 0..MaxAgainst
  /\ score \in Scores /\ recomputes \in 0..MaxRecomputes
  /\ badge \in Badge
  /\ work \in [Work -> Item]
  /\ excused \in BOOLEAN /\ overlap \in BOOLEAN /\ repeated \in BOOLEAN
  /\ held \subseteq Stages

(* A score that does not tell of all events is about to be recomputed, or    *)
(* there is a known reason: a report the user made, a job sent before its    *)
(* event was committed, a job that died, or two computations that crossed    *)
(* (trust.service.ts, trust-recompute.processor.ts, and who sends its jobs). *)
StaleScoreIsExcused ==
  score # ScoreOf(stays, against) =>
    \/ excused \/ recomputes > 0
    \/ \E w \in Work : work[w].pc = "send" \/ work[w].for = "job"

(* A badge never rises while a fraud report is open that has been so since   *)
(* its computation began (trust.service.ts getVerificationStage).            *)
NoRiseUnderReport ==
  [][\A w \in Work :
       work[w].pc = "store" /\ work'[w].pc = "idle" /\ badge' # badge
         /\ work[w].open \cap OpenReports # {} => badge'.stage = "PROFILE_VERIFIED"]_trustVars

(* A badge is not awarded again while it is held, unless two computations    *)
(* overlapped (trust.service.ts enqueueBadgeAwardIfNew).                     *)
AwardNotRepeated == repeated => overlap

=============================================================================
