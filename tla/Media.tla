------------------------------- MODULE Media -------------------------------
(***************************************************************************)
(* Uploaded files: MediaService, the webhook, deletion and cleanup workers *)
(* over the media table, and the assets Cloudinary stores for its rows.    *)
(*                                                                         *)
(* A row and its asset are two things no transaction spans.  A handler or  *)
(* job reads a row, checks its status, and later writes `where: { id }`    *)
(* alone.  The model follows the files of one owner and purpose.           *)
(*                                                                         *)
(* Cloudinary is external: it stores what a client sends while the signed  *)
(* payload is valid, removes what it is asked to, and notifies of both,    *)
(* late, in any order and more than once.                                  *)
(***************************************************************************)
EXTENDS Naturals, FiniteSets

CONSTANTS
  MediaIds,     \* rows of the media table (and their public ids)
  Slots,        \* bound: requests and jobs between two of their steps
  MaxPending,   \* the purpose's maxPendingPerUser
  MaxJobs,      \* bound: deletion jobs of one row queued at a time
  Video         \* TRUE: the purpose is LISTING_VIDEO

ASSUME MediaAssumption ==
  /\ MaxPending \in Nat
  /\ MaxJobs \in Nat
  /\ Video \in BOOLEAN

VARIABLES
  status,   \* media.status, "none" while no row has the id
  age,      \* the signature is valid, has expired, or the row is 30 minutes old
  asset,    \* what Cloudinary stores: a file within the size limit or beyond it
  events,   \* notifications Cloudinary has for the file
  jobs,     \* deletion jobs of the row that wait for a run
  swept,    \* pg-boss has a row with the singleton key delete:<id>
  slot      \* what each request or job has read and is about to write

vars == <<status, age, asset, events, jobs, swept, slot>>
cloud == <<asset, events>>
queue == <<jobs, swept>>

Status == {"none", "PENDING", "READY", "FAILED", "DELETING", "DELETED"}
Pc == {"idle", "signCreate", "uploadCreate", "markReady", "markDeleting",
       "enqueue", "hookRemove", "hookFail", "jobRemove", "jobMark",
       "sweepFail", "sweepFind", "sweepAdd"}
Work == [pc : Pc, ids : SUBSET MediaIds]
Idle == [pc |-> "idle", ids |-> {}]

-----------------------------------------------------------------------------
Goto(s, pc, ids) == slot' = [slot EXCEPT ![s] = [pc |-> pc, ids |-> ids]]
Finish(s)        == slot' = [slot EXCEPT ![s] = Idle]

(* A handler has read row m in one of the statuses it goes on with. *)
Read(s, m, expected, next) ==
  /\ slot[s].pc = "idle"
  /\ status[m] \in expected
  /\ Goto(s, next, {m})
  /\ UNCHANGED <<status, age, cloud, queue>>

(* update `where: { id }`: whatever the status is by now. *)
Write(s, pc, new) ==
  /\ slot[s].pc = pc
  /\ status' = [m \in MediaIds |-> IF m \in slot[s].ids THEN new ELSE status[m]]

Pending == {m \in MediaIds : status[m] = "PENDING"}

(* destroy: "ok" and a notification if it was stored, "not found" if not. *)
Destroy(m) ==
  /\ asset' = [asset EXCEPT ![m] = "none"]
  /\ events' = IF asset[m] = "none" THEN events
               ELSE [events EXCEPT ![m] = @ \cup {"delete"}]

-----------------------------------------------------------------------------
(* requestUploadSignature *)

(* A mutant: the comparison with the limit is off by one. *)
SignCountOffByOne(s) ==
  /\ slot[s].pc = "idle"
  /\ Cardinality(Pending) <= MaxPending
  /\ Goto(s, "signCreate", {})
  /\ UNCHANGED <<status, age, cloud, queue>>

SignCount(s) ==
  /\ slot[s].pc = "idle"
  /\ Cardinality(Pending) < MaxPending
  /\ Goto(s, "signCreate", {})
  /\ UNCHANGED <<status, age, cloud, queue>>

SignCreate(s) ==
  /\ slot[s].pc = "signCreate"
  /\ \E m \in MediaIds :
       /\ status[m] = "none" /\ asset[m] = "none"
       /\ status' = [status EXCEPT ![m] = "PENDING"]
       /\ age' = [age EXCEPT ![m] = "signed"]
  /\ Finish(s)
  /\ UNCHANGED <<cloud, queue>>

-----------------------------------------------------------------------------
(* uploadAsset: the server stores the file itself, then inserts the row. *)

UploadStore(s) ==
  /\ slot[s].pc = "idle"
  /\ \E m \in MediaIds :
       /\ status[m] = "none" /\ asset[m] = "none"
       /\ asset' = [asset EXCEPT ![m] = "fit"]
       /\ events' = [events EXCEPT ![m] = {"upload"}]
       /\ Goto(s, "uploadCreate", {m})
  /\ UNCHANGED <<status, age, queue>>

UploadCreate(s) ==
  /\ Write(s, "uploadCreate", "READY")
  /\ Finish(s)
  /\ UNCHANGED <<age, cloud, queue>>

-----------------------------------------------------------------------------
(* The client and the clock. *)

(* The file reaches Cloudinary while the signature is valid, whatever became *)
(* of the row meanwhile; a client that tries again sends the same file.      *)
ClientUpload(m, size) ==
  LET event == IF size = "fit" THEN "upload" ELSE "oversized" IN
  /\ age[m] = "signed"
  /\ events[m] \cap {"upload", "oversized"} \subseteq {event}
  /\ asset' = [asset EXCEPT ![m] = size]
  /\ events' = [events EXCEPT ![m] = @ \cup {event}]
  /\ UNCHANGED <<status, age, queue, slot>>

ClientUploadFails(m) ==
  /\ age[m] = "signed"
  /\ events' = [events EXCEPT ![m] = @ \cup {"error"}]
  /\ UNCHANGED <<status, age, asset, queue, slot>>

GrowOld(m) ==
  /\ \/ age[m] = "signed" /\ age' = [age EXCEPT ![m] = "expired"]
     \/ age[m] = "expired" /\ age' = [age EXCEPT ![m] = "stale"]
  /\ UNCHANGED <<status, cloud, queue, slot>>

-----------------------------------------------------------------------------
(* confirmUpload, completeUpload *)

(* A mutant: listing videos are confirmed like the other purposes. *)
ConfirmAnyPurpose(s, m) == Read(s, m, {"PENDING"}, "markReady")

Confirm(s, m) == ~Video /\ Read(s, m, {"PENDING"}, "markReady")

(* A mutant: Cloudinary is not asked for the metadata of a video. *)
CompleteUnverified(s, m) ==
  /\ events[m] \cap {"upload", "oversized"} # {}
  /\ Read(s, m, {"PENDING"}, "markReady")

(* The client shows Cloudinary's signed answer to the upload; of a video the *)
(* asset's metadata is read as well.                                         *)
Complete(s, m) ==
  /\ events[m] \cap {"upload", "oversized"} # {}
  /\ Video => asset[m] = "fit"
  /\ Read(s, m, {"PENDING"}, "markReady")

MarkReady(s) ==
  /\ Write(s, "markReady", "READY")
  /\ Finish(s)
  /\ UNCHANGED <<age, cloud, queue>>

-----------------------------------------------------------------------------
(* deleteMedia, and cancelPendingUpload for a row that is PENDING *)

Delete(s, m) == Read(s, m, {"PENDING", "READY", "FAILED"}, "markDeleting")

(* A mutant: the row is marked with a status the enum does not have. *)
MarkDeletingRemoved(s) ==
  /\ Write(s, "markDeleting", "REMOVED")
  /\ Goto(s, "enqueue", slot[s].ids)
  /\ UNCHANGED <<age, cloud, queue>>

MarkDeleting(s) ==
  /\ Write(s, "markDeleting", "DELETING")
  /\ Goto(s, "enqueue", slot[s].ids)
  /\ UNCHANGED <<age, cloud, queue>>

Enqueue(s) ==
  /\ slot[s].pc = "enqueue"
  /\ \E m \in slot[s].ids : /\ jobs[m] < MaxJobs
                            /\ jobs' = [jobs EXCEPT ![m] = @ + 1]
  /\ Finish(s)
  /\ UNCHANGED <<status, age, cloud, swept>>

-----------------------------------------------------------------------------
(* The webhook worker: one delivery of a notification. *)

(* A mutant: only a row that is READY already is skipped. *)
HookUploadUnlessReady(s, m) ==
  "upload" \in events[m] /\ Read(s, m, Status \ {"none", "READY"}, "markReady")

HookUpload(s, m) ==
  "upload" \in events[m] /\ Read(s, m, {"PENDING"}, "markReady")

HookOversized(s, m) ==
  "oversized" \in events[m] /\ Read(s, m, {"PENDING"}, "hookRemove")

HookRemove(s) ==
  /\ slot[s].pc = "hookRemove"
  /\ \E m \in slot[s].ids : Destroy(m)
  /\ Goto(s, "hookFail", slot[s].ids)
  /\ UNCHANGED <<status, age, queue>>

HookFail(s) ==
  /\ Write(s, "hookFail", "FAILED")
  /\ Finish(s)
  /\ UNCHANGED <<age, cloud, queue>>

(* error and delete notifications: no status is looked at. *)
HookError(s, m) ==
  /\ slot[s].pc = "idle"
  /\ "error" \in events[m] /\ status[m] # "none"
  /\ status' = [status EXCEPT ![m] = "FAILED"]
  /\ UNCHANGED <<age, cloud, queue, slot>>

HookDelete(s, m) ==
  /\ slot[s].pc = "idle"
  /\ "delete" \in events[m] /\ status[m] # "none"
  /\ status' = [status EXCEPT ![m] = "DELETED"]
  /\ UNCHANGED <<age, cloud, queue, slot>>

-----------------------------------------------------------------------------
(* The deletion worker *)

JobStart(s, m) ==
  /\ slot[s].pc = "idle" /\ jobs[m] > 0
  /\ jobs' = [jobs EXCEPT ![m] = @ - 1]
  /\ Goto(s, "jobRemove", {m})
  /\ UNCHANGED <<status, age, cloud, swept>>

JobRemove(s) ==
  /\ slot[s].pc = "jobRemove"
  /\ \E m \in slot[s].ids : Destroy(m)
  /\ Goto(s, "jobMark", slot[s].ids)
  /\ UNCHANGED <<status, age, queue>>

JobMark(s) ==
  /\ Write(s, "jobMark", "DELETED")
  /\ Finish(s)
  /\ UNCHANGED <<age, cloud, queue>>

(* Cloudinary or the database refuses, or the worker dies: pg-boss runs the  *)
(* job again, unless this was the last of its five attempts.                 *)
JobFail(s) ==
  /\ slot[s].pc \in {"jobRemove", "jobMark"}
  /\ \/ UNCHANGED jobs
     \/ \E m \in slot[s].ids : /\ jobs[m] < MaxJobs
                               /\ jobs' = [jobs EXCEPT ![m] = @ + 1]
  /\ Finish(s)
  /\ UNCHANGED <<status, age, cloud, swept>>

-----------------------------------------------------------------------------
(* The cleanup worker, every five minutes *)

Sweep(s) ==
  /\ slot[s].pc = "idle"
  /\ Goto(s, "sweepFail", {m \in Pending : age[m] = "stale"})
  /\ UNCHANGED <<status, age, cloud, queue>>

SweepFail(s) ==
  /\ Write(s, "sweepFail", "FAILED")
  /\ Goto(s, "sweepFind", {})
  /\ UNCHANGED <<age, cloud, queue>>

(* A mutant: rows that are DELETING are left to their own jobs. *)
SweepFindNothing(s) ==
  /\ slot[s].pc = "sweepFind"
  /\ Goto(s, "sweepAdd", {})
  /\ UNCHANGED <<status, age, cloud, queue>>

SweepFind(s) ==
  /\ slot[s].pc = "sweepFind"
  /\ Goto(s, "sweepAdd", {m \in MediaIds : status[m] = "DELETING"})
  /\ UNCHANGED <<status, age, cloud, queue>>

(* pg-boss drops a job whose singleton key it has already. *)
SweepAdd(s) ==
  /\ slot[s].pc = "sweepAdd"
  /\ \E m \in slot[s].ids :
       /\ \/ swept[m] /\ UNCHANGED queue
          \/ /\ ~swept[m] /\ jobs[m] < MaxJobs
             /\ jobs' = [jobs EXCEPT ![m] = @ + 1]
             /\ swept' = [swept EXCEPT ![m] = TRUE]
       /\ Goto(s, "sweepAdd", slot[s].ids \ {m})
  /\ UNCHANGED <<status, age, cloud>>

SweepDone(s) ==
  /\ slot[s].pc = "sweepAdd" /\ slot[s].ids = {}
  /\ Finish(s)
  /\ UNCHANGED <<status, age, cloud, queue>>

(* Seven days after its job has ended pg-boss deletes it, and the key.  The  *)
(* model lets the key go when no job of the row is left.                     *)
KeyFreed(m) ==
  /\ swept[m] /\ jobs[m] = 0
  /\ \A s \in Slots : ~(m \in slot[s].ids /\ slot[s].pc \in {"jobRemove", "jobMark"})
  /\ swept' = [swept EXCEPT ![m] = FALSE]
  /\ UNCHANGED <<status, age, cloud, jobs, slot>>

(* A request or another job dies between two steps.  A notification that was *)
(* not processed is delivered again.                                         *)
Abort(s) ==
  /\ slot[s].pc \notin {"idle", "jobRemove", "jobMark"}
  /\ Finish(s)
  /\ UNCHANGED <<status, age, cloud, queue>>

-----------------------------------------------------------------------------
Init ==
  /\ status = [m \in MediaIds |-> "none"]
  /\ age = [m \in MediaIds |-> "none"]
  /\ asset = [m \in MediaIds |-> "none"]
  /\ events = [m \in MediaIds |-> {}]
  /\ jobs = [m \in MediaIds |-> 0]
  /\ swept = [m \in MediaIds |-> FALSE]
  /\ slot = [s \in Slots |-> Idle]

Begin(s) ==
  \/ SignCount(s) \/ UploadStore(s) \/ Sweep(s)
  \/ \E m \in MediaIds : \/ Confirm(s, m) \/ Complete(s, m) \/ Delete(s, m)
                         \/ HookUpload(s, m) \/ HookOversized(s, m)
                         \/ HookError(s, m) \/ HookDelete(s, m)
                         \/ JobStart(s, m)

Continue(s) ==
  \/ SignCreate(s) \/ UploadCreate(s) \/ MarkReady(s)
  \/ MarkDeleting(s) \/ Enqueue(s) \/ HookRemove(s) \/ HookFail(s)
  \/ JobRemove(s) \/ JobMark(s)
  \/ SweepFail(s) \/ SweepFind(s) \/ SweepAdd(s) \/ SweepDone(s)

World(m) ==
  \/ ClientUpload(m, "fit") \/ ClientUpload(m, "oversized")
  \/ ClientUploadFails(m) \/ GrowOld(m) \/ KeyFreed(m)

Next ==
  \/ \E s \in Slots : Begin(s) \/ Continue(s) \/ JobFail(s) \/ Abort(s)
  \/ \E m \in MediaIds : World(m)

Spec == Init /\ [][Next]_vars

(* A request or job goes on or fails; cron sends cleanup jobs for ever, and  *)
(* they get their turn and end now and then; a queued job is started in      *)
(* time; Cloudinary and the database do not fail a deletion every time; and  *)
(* pg-boss deletes the jobs that have ended.                                 *)
Fairness ==
  /\ \A s \in Slots : WF_vars(Continue(s) \/ JobFail(s) \/ Abort(s))
  /\ SF_vars(\E s \in Slots : Sweep(s))
  /\ SF_vars(\E s \in Slots : SweepFail(s))
  /\ SF_vars(\E s \in Slots : SweepFind(s))
  /\ SF_vars(\E s \in Slots : SweepAdd(s))
  /\ \A m \in MediaIds : SF_vars(\E s \in Slots : JobStart(s, m))
  /\ SF_vars(\E s \in Slots : JobRemove(s))
  /\ SF_vars(\E s \in Slots : JobMark(s))
  /\ \A m \in MediaIds : WF_vars(KeyFreed(m))

FairSpec == Spec /\ Fairness

-----------------------------------------------------------------------------
MediaTypeOK ==
  /\ status \in [MediaIds -> Status]
  /\ age \in [MediaIds -> {"none", "signed", "expired", "stale"}]
  /\ asset \in [MediaIds -> {"none", "fit", "oversized"}]
  /\ events \in [MediaIds -> SUBSET {"upload", "oversized", "error", "delete"}]
  /\ jobs \in [MediaIds -> 0..MaxJobs]
  /\ swept \in [MediaIds -> BOOLEAN]
  /\ slot \in [Slots -> Work]

(* A listing video is READY only if a file within the size limit has reached *)
(* Cloudinary for it, however webhook, completion, deletion and cleanup race. *)
ReadyVideoWasUploaded ==
  \A m \in MediaIds : Video /\ status[m] = "READY" => "upload" \in events[m]

(* A deletion that was asked for ends, although the process may die between  *)
(* marking the row and sending the job, and the job may use up its attempts. *)
DeletionEnds ==
  \A m \in MediaIds : status[m] = "DELETING" ~> status[m] # "DELETING"

-----------------------------------------------------------------------------
(* What holds while only one request or job runs at a time. *)

(* "Max pending uploads per user per purpose at one time" (purpose-policies).*)
(* The rows are counted in one step and inserted in a later one.             *)
PendingWithinLimit == Cardinality(Pending) <= MaxPending

(* A READY video is a file Cloudinary still has. *)
ReadyVideoIsStored ==
  \A m \in MediaIds : Video /\ status[m] = "READY" => asset[m] = "fit"

(* "Cannot confirm media in status ..." (confirmUpload): what has failed or  *)
(* was deleted never becomes READY again, however late a notification comes. *)
NotRevived ==
  [][\A m \in MediaIds : status[m] \in {"FAILED", "DELETING", "DELETED"} =>
       status'[m] # "READY"]_vars

-----------------------------------------------------------------------------
(* What the documents and comments say, and the code does not do. *)

(* cleanup.processor.ts: of what is pending past 30 minutes "no Cloudinary   *)
(* asset exists to delete".  It does when its webhook was lost or is late.   *)
SweptWasNeverStored ==
  [][\A s \in Slots : SweepFail(s) =>
       \A m \in slot[s].ids : asset[m] = "none"]_vars

(* media.repository.ts, cancelStalePending: "Cancel PENDING uploads".  Rows   *)
(* are found in one statement and updated by id in another.                  *)
SweepCancelsPendingOnly ==
  [][\A s \in Slots : SweepFail(s) => slot[s].ids \subseteq Pending]_vars

(* DELETE /media/:id: "Cloudinary deletion happens asynchronously in the     *)
(* background".  An upload that ends after it stores the file for ever.      *)
DeletedIsRemoved ==
  \A m \in MediaIds : status[m] = "DELETED" => asset[m] = "none"

=============================================================================
