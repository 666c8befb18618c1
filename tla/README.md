# safecrib in TLA+

safecrib lets students of a campus find, hold, book and pay for a home, and lets
agents and landlords offer one. This directory models the parts of its NestJS
backend (`src/safecrib-backend/src`) in which several requests, background jobs
and outside services act on the same rows, and the parts of its web pages
(`src/safecrib-frontend/src`) in which caches, timers, optimistic buttons and
answers that come late meet. It checks the models with TLC and proves their
central properties with TLAPS.

## 1. The system

One or more API processes serve HTTP requests; the same processes run the workers
of a pg-boss job queue kept in the PostgreSQL database the API uses. Cloudinary
stores files, Paystack charges cards, both call webhooks. Redis holds counters.
A Next.js application runs in the browsers of students, providers and
administrators; each of its pages keeps state of its own and reads through a
client (`lib/api.ts`) with tokens and caches.

The pattern that makes this code hard is the same in every service: a handler
*reads* rows, checks them in JavaScript, awaits other things, and then *writes*
`where: { id }`. What it checked is not checked again by the write. Transactions
run READ COMMITTED, and only two of them SERIALIZABLE. A job may run late, twice,
or never. A process may die between any two awaits. A page has the mirror image of
it: it shows a value before it is stored, keeps answers in caches and drafts, and
takes answers in the order they come.

| component | state it keeps | operations | talks to |
|---|---|---|---|
| Bookings (`modules/bookings`, `domain/booking`, `infra/queue/booking-hold-expiry.processor.ts`) | `bookings`, the home's `listings.status` | create, confirm, cancel, complete, dispute, the hold-expiry job | job queue, trust ledger, notifications |
| Payments (`modules/payments`, `modules/receipts`) | `payments`, `escrows`, `receipts` | start, verify, webhook | Paystack, bookings |
| Media (`modules/media`) | `media`, the stored file | sign, upload, confirm, complete, delete, webhook, deletion job, cleanup cron | Cloudinary, job queue |
| Verification (`modules/student-profiles`, `modules/provider-pages`, `modules/admin`) | `users.role`, `student_profiles`, `provider_pages`, `admin_review_queue` | submit profile, draft and submit Page, review | mail, notifications, trust ledger |
| Listings and fraud desk (`modules/listings`, `modules/fraud`, `infra/queue/image-hash.processor.ts`) | `listings`, photos, videos, `fraud_reports`, `duplicate_flags` | create, edit, photos, submit, review, delete, flag, report, resolve, hash job | media, trust ledger |
| Startup and shutdown (`main.ts`, `infra/queue/queue.service.ts`, `lib/redis.ts`) | connections, pg-boss, timers | connect, retry, start, stop, `isReady` | Redis, PostgreSQL |
| Delivery (`modules/notifications`, `infra/mail`, `infra/queue`) | pg-boss jobs, `notifications` | enqueue, deliver, mail, read, delete | Brevo, the user's sockets |
| Accounts (`modules/auth`) | `users`, `refresh_tokens`, `password_reset_tokens` | register, log in, refresh, log out, forget and reset a password | mail |
| Trust (`modules/trust`, `domain/trust`) | `trust_events`, `users.trustScore`, the cached score, badges | record, recompute, read the score or the stage | bookings, fraud, reviews |
| Support (`modules/support` and its pages) | conversations, messages | open, write, answer, resolve, list, poll | notifications |
| Push (`notification-push.service.ts` and the browser's subscription) | `push_subscriptions`, the browser's endpoint | subscribe, unsubscribe, deliver | the browsers' push services |
| Sessions (`lib/api.ts`, login and logout pages) | the pair of tokens, caches per tab and per browser | log in, call, refresh, expire, log out | Accounts |
| Notifications page (`app/notifications`) | the list, two cursors, its copy on the device | synchronise, older page, socket event, read, delete | Delivery |
| Buttons and comments (`lib/optimistic.ts`, `components/comments/ListingComments.tsx`) | shown value, request under way, the tree of comments | click, answer, list, post, reply | listings, users |
| Feed and a home's page (`app/dashboard`) | lists, caches, prefetched details | open, leave, refresh, toggle | listings, trust |
| Forms (sign-up, student profile, provider's Page, a home) | the steps, a draft on the device, uploads | type, step, upload, restore, submit, discard | Verification, Listings, Media |
| Administrators' pages (`app/admin`) | queue, a submission, a home, the list of users, the dialog of a message | load, filter, decide, send | Verification, Listings, Delivery |
| People and own account (`app/connect`, `app/settings`, `app/profile`) | results, cards, resolved pictures, the browser's copy of the account | search, open, follow, save, log in elsewhere | Users, Media |
| Messages and bursts (`components/ui/Toast.tsx`, `lib/burst-registry.ts`) | toasts with timers, slots of bursts | show, dismiss, hover, start, end | every page |
| Reviews, throttling, the escrow state machine, controllers, landing and other pages | | | not modelled, section 6 |

What is hard, and what makes each component correct:

* **Bookings.** Two students book one home at once; a confirmation races the
  expiry of its hold; a process dies between the hold and the job that ends it.
  Correct: no home is held or sold twice, every hold ends, homes and bookings
  agree, also when a webhook books a booking that had ended.
* **Payments.** Paystack repeats and reorders its events; `verify` races the
  webhook; the receipt is written over another connection than the escrow.
  Correct: nothing is recorded that was not charged, an escrow has a receipt, a
  booking has one escrow, a recorded success is final and leads to an escrow.
* **Media.** A row and a file are changed by no common transaction. Correct: what
  is READY was uploaded and is stored, what is deleted stays deleted, deletions end.
* **Verification.** Two submissions exclude each other, two admins decide at once.
  Correct: an account is under review as one thing, the queue matches what is under
  review, a decision is taken once.
* **Listings.** Photos are counted before they are inserted; terms may be edited
  while an admin reviews them; a report that names the owner is punished when confirmed,
  and no case twice.
* **Startup.** Outages while the process connects, a signal while it retries.
  Correct: a queue that says it is usable has workers, nothing comes back after the
  signal, everything is reached in the end.
* **Delivery, Push, Support.** Jobs are repeated, retried, or outlive their time
  limit; requests count and then insert; a failed answer is sent again. Correct: one
  event per stored row, no job counts as done without its row or mail, a read
  notification stays read, a device alerts one user, a message is stored once.
* **Accounts.** A refresh reads, revokes and issues in three statements. Correct: one
  valid token per login, a reset link changes one password.
* **Trust.** Scores and badges are computed from what was read some awaits ago.
  Correct: a score tells of all events, no badge rises under an open report.
* **The browser.** Tokens of one tab and caches of another user, answers that cross,
  clicks during a request, drafts written by a timer, uploads longer than the page
  lives. Correct: a cache belongs to who is signed in, a page at rest shows what is
  stored, a draft is the form, what is typed or sent once becomes one row.

## 2. Modules

One module per component, the small instances in `MC` modules, the theorems in
`<module>_proofs` (several components that share a run may share one).

| module | models | map to the code |
|---|---|---|
| `BookingStateMachine` | `domain/booking/booking-state-machine.ts` | `TRANSITIONS` is the table, `CanTransition` and `Terminal` its functions |
| `NoDoubleSale` | abstract specification: who has a home | a home is taken only while nobody has it |
| `Bookings` | `BookingsService`, the expiry worker, the admin's flag | `CreateReadListing` ... `CreateEnqueue` are the awaits of `createBooking`; `Confirm*`, `Cancel*`, `Complete*`, `Dispute*` likewise; `Expiry*` is the worker; `IndexAllows` is the partial unique index of the migration |
| `Payments` | EXTENDS `Bookings` with `startPayment`, `verify`, the webhook and receipts | `Hook*` are the statements of the webhook's transaction, with the row locks other webhooks wait for |
| `Media` | `MediaService`, webhook, deletion job, cleanup cron, Cloudinary as the code sees it | `Sign*`, `Upload*`, `Confirm`, `Complete`, `Delete`, `Hook*`, `Job*`, `Sweep*` |
| `Verification` | profile, Page and review queue of one account | submissions run SERIALIZABLE and are one step, reviews READ COMMITTED and are two |
| `Listings` | one home with photos, video, report and duplicate flag | `*Read` is what a handler reads and checks, the action without `Read` its write |
| `Startup` | `main.ts` `retryDependency`, `QueueService.start/stop`, the shutdown | one action per await |
| `Delivery` | pg-boss jobs around the notification and e-mail handlers | `Create`, `Load`, `End` are the awaits of `deliver`; `Expire`, `Outlive`, `Purge` are pg-boss's maintenance |
| `Accounts` | `AuthService`: registrations, logins, refreshes, reset links | `RefreshFind`, `RefreshRevoke`, `RefreshReplace` are the awaits of `refresh`, `Reset*` those of `resetPassword` |
| `Trust` | one user's events, score, cache, badge | `JobRead`, `ScoreRead`, `Stage*` are what a computation reads, in order; the stores come after |
| `Support` | `support.service.ts` and the pages that poll it | `Submit` and `Reply` check, then commit; `PollOnce` is a page's 12-second timer |
| `Inbox`, `Push` | the notifications page; phones and their rows | one action per request, answer, event, mark |
| `Sessions` | tokens, refresh and caches of the tabs of one browser | a call waits for its tab's `refreshPromise`; the server's side is that of `Accounts` in one step |
| `Toggle`, `Comments`, `Feed` | an optimistic button and its rows; the dialog of comments; one home in the feed and on its page | clicks, requests, answers, cache ageing, visits |
| `Forms`, `HomeForm` | three forms by steps; the form of a home with its rows and uploads | steps, the 400 ms draft timer, uploads from signature to attachment |
| `Desk`, `Roster` | the pages on which submissions and homes are decided; the list of users, the history and the dialog of messages | loads, filters, decisions, offset pages, sends |
| `People`, `Settings` | search and other people's pages; one's own account | searches with their pause, cards, pictures, saves |
| `Bursts`, `Toasts` | `burst-registry.ts` and its buttons; `Toast.tsx` | slots, particles; timers, bars, hover |

Compositions: `Payments` extends `Bookings`, whose rows it writes. `MCWeb`,
`MCServices`, `MCNotifications`, `MCFiles`, `MCListings` and `MCProgress` put side by
side modules that share no variables: each behaviour is one of one module (its
*part*), chosen in the initial state while the others stay as they start, so that one
run checks all of them at the price of their sum. Where modules do meet in the code,
one carries the other's effect itself: `Sessions` the server's side of `Accounts`,
`HomeForm` the rows of the home, `Support` its notifications' failure.

Conventions. A variable has the name of the column or field it stands for; its
declaration says which. A request is a *slot*: `pc` names the next await and the
other fields what it has read. An action is one await: what the code does up to the
next await happens at once, because Node runs it without interruption. A
`prisma.$transaction` is one step where nothing can come between its statements that
they notice, and several where READ COMMITTED shows. `Abort` is a request that dies
(exception, lost connection, crash) and keeps what it has committed. In the browser an
action is one event (click, timer, answer) with all its synchronous consequences;
effects React runs after it are part of it. An answer is an element of a set of
pending answers and may arrive in any order, fail, or be lost after the server acted.

What is external is modelled by what this repository's code relies on: pg-boss
(a singleton key blocks a second job until the first one's row is deleted, a job
that fails is retried up to its limit, an active job expires; that
`singletonSeconds` divides time into slots, so that a second job may be accepted
right after a slot ends, is left out), Paystack, Cloudinary, Brevo, push services,
React and the browser's storage.

### Left out

Texts, layout, logging and endpoints that only read (the lists whose paging is
modelled are `Inbox`'s and `Roster`'s); counters of views; distances and similarities (a
pair of photos is similar or not); rate limits; amounts of money; what a field must
look like (accepted or not). Rows of different accounts, homes or files share nothing but the
limits modelled, so one account (`Verification`), one home (`Listings`, `Feed`), one
user (`Trust`) and one owner's files (`Media`) are enough. `PROJECT.json` lists each
component with what it leaves out.

## 3. What the runs check

Twelve runs are listed in `PROJECT.json`; each answers one question.

| run (cfg) | instance | what it shows |
|---|---|---|
| `bookings_races` (`BookingsRaces`) | one home, two bookings, two handlers, three steps in flight, equal clocks | However requests and the expiry worker interleave: never two active bookings (`AtMostOneActive`), a finished job has ended its hold (`FinishedJobLeavesNoHold`), and the model implements `NoDoubleSale` (`SaleSpec`) |
| `bookings_serial` (`BookingsSerial`) | `PaySpec`: one home, two bookings, one handler or job at a time, skewed clocks, a crash between any two commits; one payment, its requests and webhooks between any two steps | What holds without overlap of the bookings' own requests, also after partial failures (`HomesMatchBookings`): a SOLD home has been paid or confirmed (`SoldMeansSecured`), an offered one has no active booking but one that the webhook booked after it had ended (`OfferedMeansRevived`; the history `revived` is set by `HookCommit` alone) |
| `progress` (`Progress`) | the bookings of one home under a fair clock and queue; a process that starts with three tries per call, two of pg-boss's start and one outage | A hold whose job was sent ends although the job runs once (`ScheduledHoldEnds`); the servers are reached (`StartReachesServers`), a queue that says so has workers (`UsableMeansWorking`) |
| `payments_races` (`PaymentsRaces`) | one booking, two payments, two payment requests, one booking handler | Nothing is recorded that was not charged (`RecordedMeansCharged`) under repeated, reordered and lost webhooks |
| `payments_unreconciled` (`PaymentsUnreconciled`) | one payment, fair | Finding 1 below: `RecordedSuccessGetsEscrow` is violated |
| `files` (`Files`) | one video, one request or job at a time; the form of a home; the settings page | A READY video was uploaded and is within its limit (`ReadyVideoWasUploaded`; that requests that overlap keep it too is proved); nothing that ended comes back (`NotRevived`); what is typed once becomes one home (`OneHomePerText`), a file is attached or the provider told (`AttachedOrTold`); one's own account is shown as it is stored (`AccountIsSaved`) |
| `media_races` (`MediaRaces`) | one photo, two requests or jobs that overlap, fair | A deletion ends, also when its request died before it sent the job, or the job used up its attempts (`DeletionEnds`) |
| `services` (`Services`) | one account with two requests, three refresh tokens, two reset links; one user's trust with two computations, a stay, an event against, a report; one account's three submissions, two requests that overlap; one viewer's searches | One valid token per login (`OneTokenPerLogin`), a reset link works once (`LinkUsedOnce`), a stale score has a known reason (`StaleScoreIsExcused`), no badge rises under an open report (`NoRiseUnderReport`); `NeverBothUnderReview` whatever overlaps, and while nothing has, the queue matches what is under review (`OpenSubmissionsMatch`); what is shown was asked for (`ShownIsAskedFor`) |
| `notifications` (`Notifications`) | a notification (asked twice, tried twice), an administrator's message, an e-mail, two handlers, one of which may die or outlive its job; the notifications page; two users' phones; a support conversation | one event per stored row (`EmittedOncePerRow`), no job is done without a trace (`EndedWithoutTraceIsDead`); the list has no holes (`NothingSkipped`); devices within their limit (`PhonesWithinLimit`); a text is stored once (`SentOnce`) |
| `listings` (`Listings`) | one home with a report of it, its owner or both, or with a duplicate flag (`OneCase`); two requests, one photo allowed, one price and two discounts; the administrators' pages | the photo limit under overlap (`PhotosWithinLimit`: n requests exceed it by n - 1 at most) the penalty of a confirmed report, and no second one while no two administrators meet on the case (`OnePenaltyPerCase`); without overlap, reviewed terms (`ReviewedTermsStand`); a page shows only recorded decisions (`DecisionShownIsRecorded`), a message is sent once (`OneCopyPerSend`) |
| `web` (`Web`) | two users, tabs, calls and tokens; six clicks; three comments; each form with one upload at a time; a home in the feed; three buttons with bursts; two messages | Section 3a |
| `inbox_events` (`InboxEvents`) | the notifications page alone | Finding 2 below: `EventsRecovered` is violated |

### 3a. The browser

* `CachesAreOwn`: what a tab reads from its caches belongs to the user it sends tokens
  of, unless an answer crossed the change of user or another tab made it.
* `RefusedForCause`: the calls of one tab never use up each other's refresh token.
* `ButtonSettles`: a like or follow button ends with what is stored, and a counter that
  started right is right, unless a request failed or two crossed.
* `OwnCommentsShown`: one's own comment, sent once the dialog has its list, is in the
  tree, once, whatever lists arrive later.
* `ReceivedIsComplete`: what a form sends has passed the rules of all its steps.
  `DraftIsCurrent`: when the form is loaded and no write is due the draft is the form
  (before, and after a failed load, it is filled in without a draft: `TypedIsDrafted`).
* `PageShowsStored`: the feed and a home's page at rest show what is kept, if the page
  took the user for a student (`asks`) and nothing put it in doubt (`doubt`): a lost
  answer, a write given up after twelve seconds that the server may still do, requests
  that crossed, a failed read, and a list that likes, bookmarks and the home page's
  recommendations leave in the cache as it was. For pages that did not find the user in
  the cache it is false (`UnaskedShowsStored`).
* `SlotsAgree`: the two tables of the bursts' registry agree and keep to the cap.
* `ToastsLeave`: a bounded number of messages, each with the timer that removes it.
* In other runs: `NothingSkipped` (the notifications page lists what lies between its
  two cursors, or is about to, unless an event moved the cursor over it, it was lost with
  the list, or its row appeared after the page had read past it), `OneHomePerText`, `AttachedOrTold`, `AccountIsSaved`,
  `ShownIsAskedFor`, `DecisionShownIsRecorded`, `OneCopyPerSend`, `SentOnce`.

**Bounds and why they are enough.** A bad interleaving of read-then-write handlers
needs two of them on the same rows, plus the worker: two handlers and three steps in
flight for bookings, two requests elsewhere. Two bookings compete for a home and a
third can come after both; two payments are a double payment; a media row is read and
written by itself (only the count of pending uploads looks at others, which section 5 has
two files for), and two photos or two phones exceed a limit of one; three submissions give an account two
rejections, an approval and a conversion. A third refresh token is the successor of a
successor; two reset links tell the one used from the other. `Trust` gives a stay 90
points and an event against the user 60 (the code: 10 and 30), so that one of each
crosses the thresholds. In the browser two users make every change of user, two calls
share a refresh, three notifications with a page of one have a page in the middle,
three comments with a list of two have one the list leaves out. The pages are bounded by how often
a person acts: `Feed` has two acts, visits and loads each (a load of each page crosses
an act of each); `HomeForm` two homes, two texts (the second after a discarded draft), two
openings, one file and a limit of one photo; `Desk` three loads and two decisions of others; `Roster` pages of one row, five rows,
four loads and two messages; `People` four searches, three openings, two recent
searches; `Settings` two saves, two visits, one save elsewhere; `Bursts` three
buttons, a cap of two (the code: 3) and three bursts; `Toasts` two texts, two visible
(the code: 3), three showings; `Support` one conversation, one text, two requests and one poll at a time.
Counters that only grow (`penalties`, `deletes`, jobs) are
bounded by the rows that cause them; explicit bounds are the CONSTANTS commented
`bound:`. In `PaymentsRaces` the constraint `Unflagged` leaves out
homes that an admin flags and bookings that are completed or disputed, which payment
endpoints treat as they do cancelled ones; elsewhere
a constraint bounds a sum of counters that are bounded one by one already (`ShortLife` for
`HomeForm`, `FewAsks` for `Delivery`) or ends a behaviour whose rest another one shows
(`NotBoth` for `Trust`, `UploadsFirst` for `Forms`, `FewMarks` for `Inbox`). Symmetry is used
by safety runs only, over rows, slots and workers, all of which the modules treat
alike. Deadlock is not checked where everything may rightly be finished: all rows
used, a process shut down, every act of a person done.

**`overlapped` and serial runs.** Most of these handlers do not protect what they
check. Rather than leave such properties out, they are stated for requests that do
not overlap (`bookings_serial`, one slot of `Media` in `files`, the conditions
`~overlapped` in `Verification` and `Listings` and `~contested` in `Listings`, the histories `doubled`, `shared`,
`excused`, `overlap` in `Accounts` and `Trust`, `revived` in `Payments`, `exceeded` in `Push`, and `mixed`,
`outside`, `passed`, `dropped`, `late`, `faulty`, `together`, `crossing`, `doubt`, `unnoted`,
`unsure` in the browser), where they still range over crashes between two
commits, late jobs and any sequence of calls. Each history is set by the one event
its comment names, never by the property's own failure. What overlap breaks is in
section 5.

**Fairness.** `Bookings`: the clock goes on, pg-boss polls (every two seconds) and a
started job ends, an await returns or fails; nothing promises that a handler sends
its job. `Payments`: a request goes on or dies; Paystack repeats an event until it
is answered with 200, hence strong fairness of the delivery. `Media`: requests go
on or fail; the cleanup cron comes round for ever and now and then finds a slot and
gets through (strong), pg-boss deletes ended jobs; Cloudinary does not refuse a
deletion every time. `Startup`: timers fire and calls return; an outage ends.
`Support` also states `SupportFairness` (a page's timer goes on, a read is now and then answered)
and the leads-to `MessagesReachThePage`, which no listed run checks: as the only property
under `SupportSpec` with the bounds of `Notifications.cfg` it passes in three minutes.
Requests of users and answers of outside services are never fair.

## 4. What is proved

TLAPS checks all theorems for every value of the constants that satisfies the modules'
ASSUMEs: any number of homes, bookings, handlers, files, requests, tabs, tries. Every
safety property that a passing run checks has its theorem. The ASSUMEs say that counts
are natural numbers, that the model value for "none" is not a member of the set it is
missing from, and that sets which are counted are finite. Components that share a run
share a proof module, as they share a variable-free composition there: no theorem is
about the composition, each is about the `Spec` of one component. Each safety theorem is
one inductive invariant; TLC checked it before it was proved.

**Bookings and payments**

* `Bookings_proofs`, `IInv == TypeOK /\ RowsOK /\ RequestsOK /\ UniqueActive`.
  `AtMostOneActive` alone is not inductive: a request remembers a booking and a home,
  and only `RequestsOK` (the booking exists and is of that home) and `RowsOK` (a row's
  home never changes) make its write harmless. `UniqueActive` says it by equality;
  `NoDoubleBooking` turns it into cardinality. Also `HeldThenBooked`,
  `OneRunIsEnough` (if clocks agree), and `ImplementsNoDoubleSale`: every step maps
  to a step of `NoDoubleSale` or a stutter.
* `Payments_proofs` extends them. `PayInv` joins the invariant of `Bookings` (payment
  steps are booking steps or leave bookings alone) with `PaymentRows` (a row is of one
  booking, which exists), `CallsOK` (what a request remembers, above all that it saw a
  charge) and the escrow's parts. `OneEscrowPerBooking` needs `OneInserts` and
  `InsertsFirst`: the row lock is held from the check to the insert, so of the webhooks
  of one booking one is between them. Charges are never taken back, so
  `NothingUnpaidIsRecorded`; `PaymentsImplementNoDoubleSale` carries the refinement over.
  `HomesAgreeWithBookings` is the serial run's property under the hypothesis
  `MaxInFlight = 1`, for any homes, bookings, workers, payment requests and webhooks: the one
  request or job of the bookings is alone (`Alone`), so its booking is as it read it or was
  booked by the webhook meanwhile (`ReadIsCurrent`), and each of the two writes it may die
  between leaves home and booking agreed (`WriteAgrees`); the webhook's commit keeps that
  too, or notes a booking that had ended (`CallSerial`).

**Files, homes, accounts of people**

* `Files_proofs`. `Media`: `IInv == MediaTypeOK /\ ReadyDeserved /\ WritersDeserved /\
  FitWasUploaded`: what a request is about to mark READY has earned it, and since
  notifications are never taken back it still has when the write comes. `NothingIsRevived`
  has the hypothesis that slots do not overlap: what the one request is about to mark READY
  has not failed or been deleted since (`MarksAreAlive`). `HomeForm`: the home is read again
  (`refreshing`) only for a file that was attached (`FileIsKnown`), which is all
  `AttachedOrTold`, an action property, needs of the state. `OneHomePerText` is a count of
  rows and says nothing of rows to come. `HomeFormInv` counts, for each text, the homes that
  bear it or will when a request or the draft reaches them (`Reached`), the one that the
  page or its draft will still make (`MakesNew`) and those that closed pages may make
  (`LeftPosts`): together one, and one more for each that is `unnoted` (`Counted`). A
  step moves a home from one of the three to another, or gives up one and is counted.
  `Settings`: what was read of the row is a copy of it, and as new only if the same
  (`CopiesAreCopies`); the newest copy is cached or its answer is under way, and a read
  that comes before it is no newer (`CopyIsKnown`), unless an end that `unsure` names.
* `Listings_proofs`. `Listings`: `IInv == ListingsTypeOK /\ VerdictsFit /\
  PhotosWithinLimit /\ OneAtATime /\ ReadsStand /\ DiscountWithinPrice /\
  CasesAreKnown /\ CasesStand /\ OnePenaltyPerCase`. `ReadsStand` is the crux for the
  home's life and terms: while requests do not overlap, what a request has read is still
  so. The penalties have a weaker condition: whoever resolves a report knows whether it
  names the owner, for a deletion of the home only takes the home's name from it
  (`CasesAreKnown`), and while no two meet on a case it is still open (`CasesStand`).
  `Desk`: everything read, on its way, shown or accepted
  is a recorded decision (`ReadIsRecorded`), and a submission's page is served a row,
  never an empty queue. `Roster`: there is one copy more than errors only while the
  request is unanswered or once the text is over, gone behind "Sent to"
  (`CopiesAreCounted`).
* `Services_proofs`. `Accounts`, tokens: of a login that is not doubled there is one row
  not revoked, or one request that revoked it and is about to replace it (`OneUnrevoked`,
  `ReplacedIsRevoked`, `OneReplaces`). Links: a reset that has found an unshared link
  finds it unused and is alone with it (`UnsharedIsUnused`, `OneResets`), and a used link
  is gone (`UsedIsGone`). `Trust`, badges: a computation knows of no closed report
  (`KnownIsOpen`) and found an open one when it counted (`OpenWasCounted`). Scores: an
  outdated read is announced to be done again, by a job, by the step before its sending,
  or by an excuse (`OldReadIsAnnounced`, `CrossingIsExcused`, `JobsRescore`).
  `Verification`: `IInv == VerificationTypeOK /\ ReviewsCarryVerdicts /\
  NeverBothUnderReview`. `NeverBothUnderReview` holds under any overlap,
  thanks to the SERIALIZABLE submissions. `OneOpenSubmission` is about accounts whose
  requests have not overlapped: then the one under way is alone (`StepsAlone`), what it has read
  fits the queue when it writes (`RequestFits`, `OpensAgree`). `People`: the search that is
  still waited for is the one asked for last (`AwaitedIsAsked`), without an error its
  results are there or waited for (`ResultsOrWait`), and an account and its picture are of
  the page that is open (`AboutIsLoaded`, `FaceIsOwn`).
* `Startup_proofs`, `IInv == StartupTypeOK /\ TriesLeft /\ QueueWaits /\
  StartWithinTry /\ UsableMeansWorking`: a started queue has workers
  (`UsableQueuesWork`) and nothing comes back after the signal (`ShutdownIsQuiet`).

**Notifications and conversations** (`Notifications_proofs`)

* `Delivery`: `IInv == DeliveryTypeOK /\ HandlersFit /\ TriesLeft /\
  OneHandlerPerJob /\ TraceLeft /\ EndedWithoutTraceIsDead /\ RowsPayForEvents`.
  `EmittedOncePerRow` alone is not inductive, since a handler between `createMany` and
  the event still owes one: `RowsPayForEvents` counts, per message, the events sent and
  the handlers that owe one (`Due`) against the rows stored and deleted. Gives
  `EventsArePaidFor`, `DoneLeavesTrace`, `JobsHaveOneHandler` and `DeliveryKeepsRead`.
* `Push`: a request about to insert has counted fewer rows than the limit and none was
  added since, unless its user is in `exceeded` (`InsertersHaveRoom`).
* `Support`: a text's form and its single request belong to one waiting person
  (`SenderWaits`, `OneSend`), so a text that may still be stored has so far been stored
  for counted errors only (`StoredForErrors`).
* `Inbox`: a synchronisation asks page after page from the newest row the list knows, an
  older page down from the oldest. `NothingSkipped` needs that each answer is whole from its
  next cursor on (`AnswerIsWhole`) and joins what is listed (`PagesJoin`, `OlderJoins`),
  except for the rows that appear in it after it was read (`NewRowsAreLate`); rows may be
  deleted or listed live while it is under way. The page of the
  rows after a cursor, and its next cursor, have lemmas of their own (`FirstOfIsWhole`,
  `LastOfIsWhole`, `NextCursorIsWhole`).

**The browser** (`Web_proofs`)

* `Sessions`: an answer's pair is known to nobody but the tab that waits for it
  (`AnswersAreFresh`), and a tab that used up the browser's pair is itself waiting with
  the answer (`UsedByTheWaiting`); hence `RefusalsHaveACause`. The user of a stored pair
  never changes; hence `CachesStayOwn`.
* `Toggle`: unless two requests ran at once, one request carries what the button shows,
  or the click kept behind it does (`ValueIsWanted`).
* `Comments`: only the GET of the open dialog shows its list, and what is listed or
  posted while it is loading is marked as crossing (`LoadingCrosses`); whatever an own
  comment answers is listed or crossed.
* `Forms`: what is being sent passed the rules of every step (`SentIsComplete`); the
  draft follows the form, also behind the page that waits for review (`DraftFollows`).
* `Feed`: a read or write that is not in doubt runs beside no other write, one that was
  given up included; a copy not in doubt is what is kept unless a served write is under way; the home's page shows the
  opposite of what it asked for; and if the page does not show what is kept, a read it
  waits for is under way (`LoadIsSound`, `WriteIsSound`, `EntryIsSound`, `TurnIsSound`,
  `FlagIsSound`).
* `Bursts`: an id is in the registry if and only if a button holds it, and no two
  buttons hold the same (`HoldersAreActive`, `OneHolder`).
* `Toasts`: ids ascend in the list and among the removals to come (`InOrder`), so the
  removal that fires is the first message's or nobody's. A bar is kept under a number; one
  that is found under another message's number belongs to a message that is gone
  (`BarsApart`), and filling it costs no message its bar.

Model-checked only: all liveness (fairness and ENABLED are outside what TLAPS 1.4.5
handles): `DeletionEnds`, `ScheduledHoldEnds`, `StartReachesServers`. No module uses a RECURSIVE operator and no
property is about recursively computed data, which the provers could not induct over.

## 5. What the code does otherwise

Two divergences have a run.

1. **A payment verified first gets no escrow** (`payments_unreconciled`).
   `PaymentsController.verify` records SUCCESS; the webhook then returns early because
   the payment is already SUCCESS, so neither escrow nor receipt nor the BOOKED status
   is ever written.
2. **Missed notifications are not always recovered** (`inbox_events`). An event that
   arrives live moves the page's cursor past notifications that were stored while its
   socket was away; the next synchronisation asks only for later ones. `EventsRecovered`
   is about a page at rest (`InboxAtRest`): nothing that could still bring the
   notification is under way.

The others are kept as definitions, without a run. To see one, make it the only
property of the cfg named (an action or temporal property without `SYMMETRY`); TLC
finds the counterexample, most in seconds.

| property | cfg | what happens |
|---|---|---|
| `EveryHoldEnds` | `Progress` | a process that dies between the hold and its job leaves a home held for ever |
| `TerminalIsFinal` | `BookingsRaces` | cancel and complete both read BOOKED; the second overwrites the first's end |
| `ExpirySparesConfirmed` | `BookingsRaces` | the worker cancels a booking confirmed after it was read |
| `ExpiryReopensHome` | `BookingsRaces` | an expired hold leaves the home ACTIVE, which `createBooking` refuses (the workflow document, line 212, knows the mismatch) |
| `FlagSurvivesBookings` | `BookingsRaces` | booking steps write over FLAGGED |
| `OfferedMeansFree` | `BookingsSerial` | a deposit is charged, its booking cancelled, then the webhook comes: the booking is BOOKED while its home is VERIFIED and can be held by another student |
| `StatusStepsLegal` | `BookingsSerial` | the same webhook takes a booking from CANCELLED to BOOKED |
| `RecordedSuccessStays` | `PaymentsRaces` | a `verify` or `charge.failed` that read earlier writes FAILED over SUCCESS |
| `PendingWithinLimit` | `MediaRaces`, `MediaIds <- TwoFiles` | two signatures pass the count together |
| `NotRevived` | `MediaRaces` | a completion that read PENDING makes a deleted row READY |
| `SweptWasNeverStored` | `MediaRaces` | cleanup fails a row whose file is stored and leaves the file |
| `SweepCancelsPendingOnly` | `MediaRaces` | cleanup fails a row that became READY after it was listed |
| `DeletedIsRemoved` | `MediaRaces` | an upload that ends after its deletion leaves a file nobody removes |
| `OneHomeAlways` | `Files` | a draft is discarded while its home's upload goes on, and another home is saved: the upload's end makes the first home the page's again, and the next save gives it the other's text |
| `AvatarFollowsAccount`, `PreviewIsLive` | `Files` | a picture resolved late or for another account is shown; a revoked preview comes back |
| `DecisionIsFinal`, `OnlyDraftsAreEdited` | `Services` | two admins decide one submission; an edit resets a Page submitted meanwhile |
| `ConversionHasConsent` | `Services` | overlapping reviews make a student a provider without consent |
| `OneTokenAlways`, `LinkNeverReused` | `Services` | two requests with one refresh token, or one reset link, both succeed |
| `CardsShowPersons`, `ShownMayBeSeen` | `Services` | after a follow a card turns into its skeleton for good; a cached page shows an account that may no longer be seen |
| `QueueIsReached` | `Progress` | PostgreSQL is reached after the first call's tries: pg-boss is never started, `/readyz` stays 503 and every enqueue fails until a restart |
| `ClusterIsJoined` | `Progress` | the same for Redis and the Socket.IO adapter |
| `ShutdownIsComplete` | `Progress` | a connection attempt in progress succeeds after the shutdown |
| `AlwaysDiscountWithinPrice`, `AlwaysOnePenalty`, `FlagStands` | `Listings`, the first with `MaxPrice = 2` | two edits end with a discount above the price; a report is punished twice; a decision overwrites a flag |
| `ConfirmedDuplicateIsPenalised` | `Listings` | a crash between a confirmed duplicate and its trust event loses the event |
| `RowsHaveFiles` | `Listings` | a draft with a duplicate flag loses its files, then its deletion is refused |
| `SubmittedHasMedia` | `Listings` | the last photo of a submitted home may be removed |
| `ListFitsFilter`, `AnswerStands` | `Listings` | the queue shows the answer for an earlier filter; a decided submission shows as pending again |
| `StoredOnce`, `ListFollowsFilters`, `TextWaitsForAnswer` | `Listings` | a lost answer stores a message twice; no filter reloads the list of users; a late answer wipes the next text |
| `LateRowsListed` | `Notifications` | workers store rows beside each other: one appears below a cursor the page already has, its event is missed, and no page is asked for that has it |
| `AdminMessageIsEmitted` | `Notifications` | `sendAdminNotification` inserts the row and then enqueues a delivery under the same `dedupeKey`; the worker emits only for rows it inserts itself |
| `StoredIsEmitted` | `Notifications` | a handler that fails after `createMany` never announces: its retry takes the row for a repetition |
| `DeletedStaysDeleted` | `Notifications` | a retry stores a notification the user has deleted |
| `MailedOncePerRequest` | `Notifications`, two `Attempts` each | a lost answer of Brevo sends a mail twice |
| `ResolvedTakesNothing` | `Notifications` | a message lands in a conversation resolved after its check |
| `LastIsLast` | `Notifications`, `MaxTexts = 2` | two transactions cross and the conversation's time goes back |
| `DetailsStay` | `Web` | an upload that ends puts back the Page form of the time it began, over what was typed since |
| `TypedIsDrafted` | `Web` | a Page form whose data could not be loaded is filled in and sent, and nothing of it is drafted, though the error says "Your draft is still saved." |
| `TypedStays` | `Web` | what is typed before the Page form is loaded is replaced when it is |
| `CrossingCommentsShown` | `Web` | a comment posted while the dialog still loads its list is replaced by that list |
| `UnaskedShowsStored` | `Web` | the home's page reads bookmarks only for a cached student; `refreshStatus` of the feed drops the cached user, and a saved home is then shown as not saved |
| `ButtonRollsBack` | `Web` | the feed swallows a like's error, so the button keeps a value that is not stored |
| `SlotsComeBack`, `CapOnScreen` | `Web` | a burst's slot is never freed, or freed while particles still fly |
| `ShownAgainStays` | `Web` | a repeated message is removed by the first one's timer |

Met while reading, not stated as properties:

* *Services.* A webhook transaction holds one pooled connection
  while its receipt waits for another; a payment whose request dies after its insert
  keeps a booking from being paid; `uploadAsset` stores a file before its row; cleanup
  takes the 50 oldest DELETING rows even if it may not send their jobs; a second reset
  mail within an hour is dropped by its singleton key although the answer says it was
  sent; nothing enqueues the nightly duplicate sweep of `README.md:209`; neither a reset
  nor a change of password revokes refresh tokens; a crash between revoking and issuing
  loses the login; a reporter's -10 and a duplicate's -40 both count as -60, because the
  engine uses the stored weight only where it is positive; `resolveReport` sends its
  job inside the transaction; approving a review twice records two events, as does
  `verifyIdentity`; a support message is committed before `notifyAdmins` may fail, so the
  answer is an error and the retry stores it again.
* *Sessions.* `getCurrentUser` refreshes outside the single flight; the single flight is
  per tab; any failure of a refresh, network errors included, ends the session; a refresh
  answered after logout stores tokens again; the administrators' layout and login do the
  same for any failure of their check.
* *Pages.* The prefetch's cap of two can be exceeded, and it fetches
  the verification stage with the home's id; the home page's recommendation starts as
  FALSE when it mounts before the recommendations; bookmarks are cached and not cleared;
  a submitted home leaves a draft with step 4 of 3; a video whose wait timed out becomes
  READY and is attached by nobody; two tabs with one draft create two homes; replies to
  replies are stored and not shown; the support page admits administrators whom its API
  refuses; the inbox of support expects a field (`latestMessage`) the API does not send; the dialog of
  messages names the sender where it means the recipient; nothing passes `persistent` to
  a toast, and its swipe never dismisses with a mouse.

## 6. Plan

### Not modelled

Reviews (an upsert and a read each; their moderation is in `Trust`), the throttler's
fallback from Redis to memory, the escrow state machine (no caller), controllers and
DTOs, the landing page, the catalogue and other pages that render what the API
answers, the read-only sections of the administrators' pages, templates of mails. The large
files the map covers least are of this kind: markup and texts around the state that is modelled.

### What is left

1. `Reviews` and the throttler's fallback.
2. `Bookings` composed with `Listings`: the one `listings.status` both write.
3. Proofs: type correctness of the modules whose theorem has only the parts of it that the
   invariant needs (`HomeForm`, `Settings`, `People` and most of the browser's), and that
   the overlaps a history names are the only ones that matter, as refinements of the
   abstract counters they stand for. The leads-to properties stay with TLC.
