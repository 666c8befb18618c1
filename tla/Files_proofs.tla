---------------------------- MODULE Files_proofs ----------------------------
(***************************************************************************)
(* Theorems about the two ends of an upload: Media, for any numbers of     *)
(* files and of requests and jobs that overlap, any limit and any purpose; *)
(* HomeForm and Settings, for any bounds. The modules share no variables:  *)
(* each theorem is about the specification of one.                         *)
(***************************************************************************)
EXTENDS Media, HomeForm, Settings, FiniteSetTheorems, TLAPS

-----------------------------------------------------------------------------
(* Media.                                                                    *)

(* What a step is about to write READY, and why a video deserves it. *)
Deserved(m) == Video => "upload" \in events[m]

ReadyDeserved == \A m \in MediaIds : status[m] = "READY" => Deserved(m)
WritersDeserved ==
  \A s \in Slots : slot[s].pc \in {"markReady", "uploadCreate"} =>
    \A m \in slot[s].ids : Deserved(m)
FitWasUploaded == \A m \in MediaIds : asset[m] = "fit" => "upload" \in events[m]

(* The inductive invariant. *)
IInv == MediaTypeOK /\ ReadyDeserved /\ WritersDeserved /\ FitWasUploaded

-----------------------------------------------------------------------------
USE DEF cloud, queue

(* Notifications are only ever added. *)
LEMMA EventsGrow ==
  ASSUME MediaTypeOK, NEW m \in MediaIds,
         UNCHANGED events \/ (\E n \in MediaIds : Destroy(n))
         \/ (\E n \in MediaIds, size \in {"fit", "oversized"} : ClientUpload(n, size))
         \/ (\E n \in MediaIds : ClientUploadFails(n))
  PROVE  events[m] \subseteq events'[m]
BY DEF MediaTypeOK, Destroy, ClientUpload, ClientUploadFails

(* Steps that write no row and end, or go on to a step that writes no READY. *)
LEMMA LeavesRest ==
  ASSUME IInv, UNCHANGED <<status, cloud>>,
         age' = age \/ age' \in [MediaIds -> {"none", "signed", "expired", "stale"}],
         jobs' \in [MediaIds -> 0..MaxJobs], swept' \in [MediaIds -> BOOLEAN],
         \/ UNCHANGED slot
         \/ \E s \in Slots : Finish(s)
         \/ \E s \in Slots, pc \in Pc \ {"markReady", "uploadCreate"},
              I \in SUBSET MediaIds : Goto(s, pc, I)
  PROVE  IInv'
<1>1. MediaTypeOK'
  BY DEF IInv, MediaTypeOK, Finish, Goto, Work, Idle, Pc
<1>2. ReadyDeserved' /\ FitWasUploaded'
  BY DEF IInv, ReadyDeserved, FitWasUploaded, Deserved
<1>3. WritersDeserved'
  <2> SUFFICES ASSUME NEW t \in Slots, slot'[t].pc \in {"markReady", "uploadCreate"}
               PROVE  slot'[t] = slot[t]
    BY DEF IInv, WritersDeserved, Deserved
  <2>1. slot \in [Slots -> Work]
    BY DEF IInv, MediaTypeOK
  <2>2. CASE UNCHANGED slot
    BY <2>2
  <2>3. CASE \E s \in Slots : Finish(s)
    BY <2>1, <2>3 DEF Finish, Idle
  <2>4. CASE \E s \in Slots, pc \in Pc \ {"markReady", "uploadCreate"},
               I \in SUBSET MediaIds : Goto(s, pc, I)
    BY <2>1, <2>4 DEF Goto
  <2> QED BY <2>2, <2>3, <2>4
<1> QED BY <1>1, <1>2, <1>3 DEF IInv

(* A handler that starts on a row it may mark READY later. *)
LEMMA ReadRow ==
  ASSUME IInv, NEW s \in Slots, NEW m \in MediaIds, NEW E, NEW pc \in Pc,
         Read(s, m, E, pc),
         pc \in {"markReady", "uploadCreate"} => Deserved(m)
  PROVE  IInv'
<1>1. /\ UNCHANGED <<status, age, cloud, queue>>
      /\ slot' = [slot EXCEPT ![s] = [pc |-> pc, ids |-> {m}]]
  BY DEF Read, Goto
<1>2. MediaTypeOK'
  BY <1>1 DEF IInv, MediaTypeOK, Work
<1>3. ReadyDeserved' /\ FitWasUploaded'
  BY <1>1 DEF IInv, ReadyDeserved, FitWasUploaded, Deserved
<1>4. WritersDeserved'
  <2> SUFFICES ASSUME NEW t \in Slots, slot'[t].pc \in {"markReady", "uploadCreate"},
                      NEW n \in MediaIds, n \in slot'[t].ids
               PROVE  Deserved(n)
    BY <1>1, <1>2 DEF WritersDeserved, Deserved, MediaTypeOK, Work
  <2>1. CASE t = s
    BY <1>1, <2>1 DEF IInv, MediaTypeOK
  <2>2. CASE t # s
    BY <1>1, <2>2 DEF IInv, MediaTypeOK, WritersDeserved
  <2> QED BY <2>1, <2>2
<1> QED BY <1>2, <1>3, <1>4 DEF IInv

(* A write by id that marks no row READY and ends or goes on. *)
LEMMA WriteOther ==
  ASSUME IInv, NEW s \in Slots, NEW pc, NEW new \in Status \ {"READY"},
         Write(s, pc, new), UNCHANGED <<age, cloud, queue>>,
         \/ Finish(s)
         \/ \E next \in Pc \ {"markReady", "uploadCreate"}, I \in SUBSET MediaIds :
              Goto(s, next, I)
  PROVE  IInv'
<1>1. MediaTypeOK'
  BY DEF IInv, MediaTypeOK, Write, Finish, Goto, Work, Idle, Pc
<1>2. ReadyDeserved' /\ FitWasUploaded'
  BY DEF IInv, ReadyDeserved, FitWasUploaded, Deserved, Write, MediaTypeOK
<1>3. WritersDeserved'
  BY DEF IInv, WritersDeserved, Deserved, Finish, Goto, Idle, MediaTypeOK, Work
<1> QED BY <1>1, <1>2, <1>3 DEF IInv

(* A write of READY: the slot deserved it. *)
LEMMA WriteReady ==
  ASSUME IInv, NEW s \in Slots, NEW pc \in {"markReady", "uploadCreate"},
         Write(s, pc, "READY"), Finish(s), UNCHANGED <<age, cloud, queue>>
  PROVE  IInv'
<1>1. MediaTypeOK'
  BY DEF IInv, MediaTypeOK, Write, Finish, Work, Idle, Pc, Status
<1>2. ReadyDeserved' /\ FitWasUploaded'
  BY DEF IInv, ReadyDeserved, WritersDeserved, FitWasUploaded, Deserved, Write,
         MediaTypeOK
<1>3. WritersDeserved'
  BY DEF IInv, WritersDeserved, Deserved, Finish, Idle, MediaTypeOK
<1> QED BY <1>1, <1>2, <1>3 DEF IInv

(* An asset is destroyed, and the worker goes on to mark the row. *)
LEMMA DestroyRow ==
  ASSUME IInv, NEW s \in Slots, NEW pc \in {"hookFail", "jobMark"},
         \E m \in slot[s].ids : Destroy(m), Goto(s, pc, slot[s].ids),
         UNCHANGED <<status, age, queue>>
  PROVE  IInv'
<1> PICK m \in slot[s].ids : Destroy(m)
  OBVIOUS
<1>1. m \in MediaIds /\ slot[s] \in Work
  BY DEF IInv, MediaTypeOK, Work
<1>2. MediaTypeOK'
  BY <1>1 DEF IInv, MediaTypeOK, Destroy, Goto, Work, Pc
<1>3. \A n \in MediaIds : events[n] \subseteq events'[n]
  BY <1>1, EventsGrow DEF IInv
<1>4. ReadyDeserved'
  BY <1>3 DEF IInv, ReadyDeserved, Deserved
<1>5. FitWasUploaded'
  BY <1>1, <1>3 DEF IInv, FitWasUploaded, Destroy, MediaTypeOK
<1>6. WritersDeserved'
  BY <1>2, <1>3 DEF IInv, WritersDeserved, Deserved, Goto, MediaTypeOK, Work
<1> QED BY <1>2, <1>4, <1>5, <1>6 DEF IInv

-----------------------------------------------------------------------------
(* One case per action. *)

LEMMA BeginStep == ASSUME IInv, NEW s \in Slots, Begin(s) PROVE IInv'
<1>1. CASE SignCount(s)
  BY <1>1, LeavesRest DEF SignCount, Pc, IInv, MediaTypeOK
<1>2. CASE UploadStore(s)
  <2> PICK m \in MediaIds :
        /\ asset' = [asset EXCEPT ![m] = "fit"]
        /\ events' = [events EXCEPT ![m] = {"upload"}]
        /\ slot' = [slot EXCEPT ![s] = [pc |-> "uploadCreate", ids |-> {m}]]
        /\ status[m] = "none"
        /\ UNCHANGED <<status, age, queue>>
    BY <1>2 DEF UploadStore, Goto
  <2>1. MediaTypeOK'
    BY DEF IInv, MediaTypeOK, Work, Pc
  <2>2. ReadyDeserved' /\ FitWasUploaded'
    BY DEF IInv, ReadyDeserved, FitWasUploaded, Deserved, MediaTypeOK
  <2>3. WritersDeserved'
    BY <2>1 DEF IInv, WritersDeserved, Deserved, MediaTypeOK, Work
  <2> QED BY <2>1, <2>2, <2>3 DEF IInv
<1>3. CASE Sweep(s)
  BY <1>3, LeavesRest DEF Sweep, Pending, Pc, IInv, MediaTypeOK
<1>4. ASSUME NEW m \in MediaIds, Confirm(s, m) PROVE IInv'
  BY <1>4, ReadRow DEF Confirm, Deserved, Pc
<1>5. ASSUME NEW m \in MediaIds, Complete(s, m) PROVE IInv'
  <2>1. Deserved(m)
    BY <1>5 DEF Complete, Deserved, IInv, FitWasUploaded
  <2> QED BY <1>5, <2>1, ReadRow DEF Complete, Pc
<1>6. ASSUME NEW m \in MediaIds, Delete(s, m) PROVE IInv'
  BY <1>6, ReadRow DEF Delete, Pc
<1>7. ASSUME NEW m \in MediaIds, HookUpload(s, m) PROVE IInv'
  BY <1>7, ReadRow DEF HookUpload, Deserved, Pc
<1>8. ASSUME NEW m \in MediaIds, HookOversized(s, m) PROVE IInv'
  BY <1>8, ReadRow DEF HookOversized, Pc
<1>9. ASSUME NEW m \in MediaIds, HookError(s, m) \/ HookDelete(s, m) PROVE IInv'
  <2>1. PICK new \in {"FAILED", "DELETED"} :
          /\ status' = [status EXCEPT ![m] = new]
          /\ UNCHANGED <<age, cloud, queue, slot>>
    BY <1>9 DEF HookError, HookDelete
  <2>2. MediaTypeOK'
    BY <2>1 DEF IInv, MediaTypeOK, Status
  <2>3. ReadyDeserved' /\ FitWasUploaded' /\ WritersDeserved'
    BY <2>1 DEF IInv, ReadyDeserved, FitWasUploaded, WritersDeserved, Deserved,
                MediaTypeOK
  <2> QED BY <2>2, <2>3 DEF IInv
<1>10. ASSUME NEW m \in MediaIds, JobStart(s, m) PROVE IInv'
  <2>1. jobs' \in [MediaIds -> 0..MaxJobs]
    BY <1>10, MediaAssumption DEF JobStart, IInv, MediaTypeOK
  <2> QED BY <1>10, <2>1, LeavesRest DEF JobStart, Pc, IInv, MediaTypeOK
<1> QED BY <1>1, <1>2, <1>3, <1>4, <1>5, <1>6, <1>7, <1>8, <1>9, <1>10 DEF Begin

LEMMA ContinueStep == ASSUME IInv, NEW s \in Slots, Continue(s) PROVE IInv'
<1> slot[s] \in Work
  BY DEF IInv, MediaTypeOK
<1>1. CASE SignCreate(s)
  <2>1. PICK m \in MediaIds :
          /\ status' = [status EXCEPT ![m] = "PENDING"]
          /\ age' = [age EXCEPT ![m] = "signed"]
          /\ slot' = [slot EXCEPT ![s] = Idle]
          /\ UNCHANGED <<cloud, queue>>
    BY <1>1 DEF SignCreate, Finish
  <2>2. MediaTypeOK'
    BY <2>1 DEF IInv, MediaTypeOK, Status, Work, Idle, Pc
  <2>3. ReadyDeserved' /\ FitWasUploaded' /\ WritersDeserved'
    BY <2>1 DEF IInv, ReadyDeserved, FitWasUploaded, WritersDeserved, Deserved,
                MediaTypeOK, Idle
  <2> QED BY <2>2, <2>3 DEF IInv
<1>2. CASE UploadCreate(s)
  BY <1>2, WriteReady DEF UploadCreate
<1>3. CASE MarkReady(s)
  BY <1>3, WriteReady DEF MarkReady
<1>4. CASE MarkDeleting(s)
  BY <1>4, WriteOther DEF MarkDeleting, Work, Pc, Status
<1>5. CASE Enqueue(s)
  <2>1. slot[s].ids \subseteq MediaIds
    BY DEF Work
  <2>2. jobs' \in [MediaIds -> 0..MaxJobs]
    BY <1>5, <2>1, MediaAssumption DEF Enqueue, IInv, MediaTypeOK
  <2> QED BY <1>5, <2>2, LeavesRest DEF Enqueue, IInv, MediaTypeOK
<1>6. CASE HookRemove(s)
  BY <1>6, DestroyRow DEF HookRemove
<1>7. CASE HookFail(s)
  BY <1>7, WriteOther DEF HookFail, Status
<1>8. CASE JobRemove(s)
  BY <1>8, DestroyRow DEF JobRemove
<1>9. CASE JobMark(s)
  BY <1>9, WriteOther DEF JobMark, Status
<1>10. CASE SweepFail(s)
  BY <1>10, WriteOther DEF SweepFail, Pc, Status
<1>11. CASE SweepFind(s)
  BY <1>11, LeavesRest DEF SweepFind, Pc, IInv, MediaTypeOK
<1>12. CASE SweepAdd(s)
  <2>1. PICK m \in slot[s].ids :
          /\ \/ UNCHANGED queue
             \/ /\ jobs[m] < MaxJobs
                /\ jobs' = [jobs EXCEPT ![m] = @ + 1]
                /\ swept' = [swept EXCEPT ![m] = TRUE]
          /\ Goto(s, "sweepAdd", slot[s].ids \ {m})
          /\ UNCHANGED <<status, age, cloud>>
    BY <1>12 DEF SweepAdd
  <2>2. m \in MediaIds /\ slot[s].ids \ {m} \in SUBSET MediaIds
    BY DEF Work
  <2>3. jobs' \in [MediaIds -> 0..MaxJobs] /\ swept' \in [MediaIds -> BOOLEAN]
    <3>1. CASE UNCHANGED queue
      BY <3>1 DEF IInv, MediaTypeOK
    <3>2. CASE /\ jobs[m] < MaxJobs
               /\ jobs' = [jobs EXCEPT ![m] = @ + 1]
               /\ swept' = [swept EXCEPT ![m] = TRUE]
      <4>1. swept' \in [MediaIds -> BOOLEAN]
        BY <3>2 DEF IInv, MediaTypeOK
      <4>2. jobs' \in [MediaIds -> 0..MaxJobs]
        BY <2>2, <3>2, MediaAssumption DEF IInv, MediaTypeOK
      <4> QED BY <4>1, <4>2
    <3> QED BY <2>1, <3>1, <3>2
  <2>4. \E t \in Slots, pc \in Pc \ {"markReady", "uploadCreate"},
          I \in SUBSET MediaIds : Goto(t, pc, I)
    BY <2>1, <2>2 DEF Pc
  <2> QED BY <2>1, <2>3, <2>4, LeavesRest
<1>13. CASE SweepDone(s)
  BY <1>13, LeavesRest DEF SweepDone, IInv, MediaTypeOK
<1> QED BY <1>1, <1>2, <1>3, <1>4, <1>5, <1>6, <1>7, <1>8, <1>9, <1>10, <1>11,
           <1>12, <1>13 DEF Continue

LEMMA FailureStep ==
  ASSUME IInv, NEW s \in Slots, JobFail(s) \/ Abort(s) PROVE IInv'
<1>1. CASE JobFail(s)
  <2>1. slot[s].ids \subseteq MediaIds
    BY DEF IInv, MediaTypeOK, Work
  <2>2. jobs' \in [MediaIds -> 0..MaxJobs]
    BY <1>1, <2>1, MediaAssumption DEF JobFail, IInv, MediaTypeOK
  <2> QED BY <1>1, <2>2, LeavesRest DEF JobFail, IInv, MediaTypeOK
<1>2. CASE Abort(s)
  BY <1>2, LeavesRest DEF Abort, IInv, MediaTypeOK
<1> QED BY <1>1, <1>2

LEMMA WorldStep == ASSUME IInv, NEW m \in MediaIds, World(m) PROVE IInv'
<1>1. ASSUME NEW size \in {"fit", "oversized"}, ClientUpload(m, size) PROVE IInv'
  <2>1. MediaTypeOK'
    BY <1>1 DEF ClientUpload, IInv, MediaTypeOK
  <2>2. \A n \in MediaIds : events[n] \subseteq events'[n]
    BY <1>1, EventsGrow DEF IInv
  <2>3. ReadyDeserved' /\ WritersDeserved'
    BY <1>1, <2>1, <2>2 DEF ClientUpload, IInv, ReadyDeserved, WritersDeserved,
                            Deserved, MediaTypeOK, Work
  <2>4. FitWasUploaded'
    BY <1>1, <2>2 DEF ClientUpload, IInv, FitWasUploaded, MediaTypeOK
  <2> QED BY <2>1, <2>3, <2>4 DEF IInv
<1>2. CASE ClientUploadFails(m)
  <2>1. MediaTypeOK'
    BY <1>2 DEF ClientUploadFails, IInv, MediaTypeOK
  <2>2. \A n \in MediaIds : events[n] \subseteq events'[n]
    BY <1>2, EventsGrow DEF IInv
  <2>3. ReadyDeserved' /\ WritersDeserved' /\ FitWasUploaded'
    BY <1>2, <2>1, <2>2 DEF ClientUploadFails, IInv, ReadyDeserved,
                WritersDeserved, FitWasUploaded, Deserved, MediaTypeOK, Work
  <2> QED BY <2>1, <2>3 DEF IInv
<1>3. CASE GrowOld(m)
  <2>1. age' \in [MediaIds -> {"none", "signed", "expired", "stale"}]
    BY <1>3 DEF GrowOld, IInv, MediaTypeOK
  <2> QED BY <1>3, <2>1, LeavesRest DEF GrowOld, IInv, MediaTypeOK
<1>4. CASE KeyFreed(m)
  BY <1>4, LeavesRest DEF KeyFreed, IInv, MediaTypeOK
<1> QED BY <1>1, <1>2, <1>3, <1>4 DEF World

-----------------------------------------------------------------------------
(* The invariant holds in every state of every behaviour. *)
THEOREM MediaInvariance == Spec => []IInv
<1>1. Init => IInv
  <2> SUFFICES ASSUME Init PROVE IInv
    OBVIOUS
  <2>1. 0 \in 0..MaxJobs
    BY MediaAssumption
  <2>2. MediaTypeOK
    BY <2>1 DEF Init, MediaTypeOK, Status, Work, Idle, Pc
  <2>3. ReadyDeserved /\ WritersDeserved /\ FitWasUploaded
    BY DEF Init, ReadyDeserved, WritersDeserved, FitWasUploaded, Idle
  <2> QED BY <2>2, <2>3 DEF IInv
<1>2. IInv /\ [Next]_vars => IInv'
  <2> SUFFICES ASSUME IInv, [Next]_vars PROVE IInv'
    OBVIOUS
  <2>1. CASE UNCHANGED vars
    BY <2>1, LeavesRest DEF vars, IInv, MediaTypeOK
  <2>2. CASE Next
    BY <2>2, BeginStep, ContinueStep, FailureStep, WorldStep DEF Next
  <2> QED BY <2>1, <2>2
<1> QED BY <1>1, <1>2, PTL DEF Spec

(* Rows, files, notifications, jobs and the steps under way keep their types,*)
(* whatever the numbers of files and of overlapping requests and jobs.       *)
THEOREM MediaTypeCorrect == Spec => []MediaTypeOK
<1>1. IInv => MediaTypeOK
  BY DEF IInv
<1> QED BY <1>1, MediaInvariance, PTL

(* A listing video is READY only if a file within the limit was uploaded for *)
(* it, whatever webhook, completion, deletion and cleanup overlap.           *)
THEOREM ReadyVideosWereUploaded == Spec => []ReadyVideoWasUploaded
<1>1. IInv => ReadyVideoWasUploaded
  BY DEF IInv, ReadyDeserved, Deserved, ReadyVideoWasUploaded
<1> QED BY <1>1, MediaInvariance, PTL

-----------------------------------------------------------------------------
(* What holds while one request or job runs at a time: there is one slot.    *)
(* What it will mark READY has not failed or been deleted.                   *)
OneSlotAtATime == \A s, t \in Slots : s = t
ReadyMarks == {"markReady", "uploadCreate"}
Over == {"FAILED", "DELETING", "DELETED"}
MarksAreAlive ==
  \A s \in Slots : slot[s].pc \in ReadyMarks => \A m \in slot[s].ids : status[m] \notin Over

(* A step of the one request: what it goes on with decides. *)
LEMMA OneGoesOn ==
  ASSUME MediaTypeOK, OneSlotAtATime, NEW s \in Slots, NEW pc, NEW I, Goto(s, pc, I),
         pc \in ReadyMarks => \A m \in I : status'[m] \notin Over
  PROVE  MarksAreAlive'
<1>1. \A t \in Slots : slot'[t] = [pc |-> pc, ids |-> I]
  BY DEF OneSlotAtATime, MediaTypeOK, Goto
<1> QED BY <1>1 DEF MarksAreAlive

(* It ends with a write.                                                     *)
LEMMA OneEnds ==
  ASSUME MediaTypeOK, OneSlotAtATime, NEW s \in Slots, Finish(s)
  PROVE  MarksAreAlive'
<1>1. \A t \in Slots : slot'[t] = Idle
  BY DEF OneSlotAtATime, MediaTypeOK, Finish
<1> QED BY <1>1 DEF MarksAreAlive, Idle, ReadyMarks

(* It goes on to a step that marks nothing READY.                            *)
LEMMA OneWaits ==
  ASSUME MediaTypeOK, OneSlotAtATime, NEW s \in Slots, slot[s].pc = "idle", slot' = slot
  PROVE  MarksAreAlive'
BY DEF OneSlotAtATime, MarksAreAlive, ReadyMarks

(* Every step of it keeps what it will mark alive.                           *)
LEMMA OneStep ==
  ASSUME MediaTypeOK, OneSlotAtATime, MarksAreAlive, NEW s \in Slots,
         Begin(s) \/ Continue(s) \/ JobFail(s) \/ Abort(s)
  PROVE  MarksAreAlive'
<1> USE DEF ReadyMarks
<1>1. CASE \/ SignCreate(s) \/ UploadCreate(s) \/ MarkReady(s) \/ Enqueue(s) \/ HookFail(s)
           \/ JobMark(s) \/ SweepDone(s) \/ JobFail(s) \/ Abort(s)
  BY <1>1, OneEnds DEF SignCreate, UploadCreate, MarkReady, Enqueue, HookFail, JobMark, SweepDone,
     JobFail, Abort
<1>2. ASSUME NEW m \in MediaIds, HookError(s, m) \/ HookDelete(s, m) PROVE MarksAreAlive'
  BY <1>2, OneWaits DEF HookError, HookDelete
<1>3. ASSUME NEW m \in MediaIds, NEW E, NEW pc, Read(s, m, E, pc), pc \in ReadyMarks => E \cap Over = {}
      PROVE  MarksAreAlive'
  BY <1>3, OneGoesOn DEF Read
<1>4. ASSUME NEW m \in MediaIds,
             \/ Confirm(s, m) \/ Complete(s, m) \/ Delete(s, m) \/ HookUpload(s, m) \/ HookOversized(s, m)
      PROVE  MarksAreAlive'
  BY <1>3, <1>4 DEF Confirm, Complete, Delete, HookUpload, HookOversized, Over
<1>5. CASE \/ SignCount(s) \/ Sweep(s) \/ \E m \in MediaIds : JobStart(s, m)
  BY <1>5, OneGoesOn DEF SignCount, Sweep, JobStart
<1>6. CASE UploadStore(s)
  <2>1. PICK m \in MediaIds : status[m] = "none" /\ Goto(s, "uploadCreate", {m}) /\ status' = status
    BY <1>6 DEF UploadStore
  <2> QED BY <2>1, OneGoesOn DEF Over
<1>7. CASE \/ MarkDeleting(s) \/ HookRemove(s) \/ JobRemove(s) \/ SweepFail(s) \/ SweepFind(s) \/ SweepAdd(s)
  BY <1>7, OneGoesOn DEF MarkDeleting, HookRemove, JobRemove, SweepFail, SweepFind, SweepAdd
<1> QED BY <1>1, <1>2, <1>4, <1>5, <1>6, <1>7 DEF Begin, Continue

(* Only a write of READY makes a row READY. *)
LEMMA BecomesReady ==
  ASSUME MediaTypeOK, [Next]_vars, NEW m \in MediaIds, status[m] # "READY", status'[m] = "READY"
  PROVE  \E s \in Slots : slot[s].pc \in ReadyMarks /\ m \in slot[s].ids
<1> USE DEF ReadyMarks
<1>1. ASSUME NEW s \in Slots, NEW pc, NEW new, Write(s, pc, new)
      PROVE  pc = slot[s].pc /\ (new = "READY" /\ m \in slot[s].ids)
  BY <1>1 DEF Write
<1>2. CASE status' = status
  BY <1>2
<1>3. ASSUME NEW s \in Slots, UploadCreate(s) \/ MarkReady(s)
      PROVE  \E t \in Slots : slot[t].pc \in ReadyMarks /\ m \in slot[t].ids
  BY <1>1, <1>3 DEF UploadCreate, MarkReady
<1>4. ASSUME NEW s \in Slots, \/ MarkDeleting(s) \/ HookFail(s) \/ JobMark(s) \/ SweepFail(s)
      PROVE  FALSE
  BY <1>1, <1>4 DEF MarkDeleting, HookFail, JobMark, SweepFail
<1>5. ASSUME NEW s \in Slots, \/ SignCreate(s) \/ \E n \in MediaIds : HookError(s, n) \/ HookDelete(s, n)
      PROVE  FALSE
  BY <1>5 DEF SignCreate, HookError, HookDelete, MediaTypeOK
<1>6. ASSUME NEW s \in Slots,
             \/ SignCount(s) \/ UploadStore(s) \/ Sweep(s) \/ Enqueue(s) \/ HookRemove(s) \/ JobRemove(s)
             \/ SweepFind(s) \/ SweepAdd(s) \/ SweepDone(s) \/ JobFail(s) \/ Abort(s)
             \/ \E n \in MediaIds : \/ Confirm(s, n) \/ Complete(s, n) \/ Delete(s, n)
                                    \/ HookUpload(s, n) \/ HookOversized(s, n) \/ JobStart(s, n)
      PROVE  FALSE
  <2>1. status' = status
    BY <1>6 DEF SignCount, UploadStore, Sweep, Enqueue, HookRemove, JobRemove, SweepFind, SweepAdd,
       SweepDone, JobFail, Abort, Confirm, Complete, Delete, HookUpload, HookOversized, JobStart, Read
  <2> QED BY <2>1
<1>7. ASSUME NEW n \in MediaIds, World(n) PROVE FALSE
  <2>1. status' = status
    BY <1>7 DEF World, ClientUpload, ClientUploadFails, GrowOld, KeyFreed
  <2> QED BY <2>1
<1>8. CASE UNCHANGED vars
  BY <1>8 DEF vars
<1> QED BY <1>3, <1>4, <1>5, <1>6, <1>7, <1>8 DEF Next, Begin, Continue

(* While one request or job runs at a time, what has failed or was deleted    *)
(* never becomes READY again, for any number of files and however late,       *)
(* often or out of order Cloudinary's notifications come (media.service.ts    *)
(* confirmUpload, the webhook worker).                                        *)
THEOREM NothingIsRevived ==
  ASSUME \A s, t \in Slots : s = t
  PROVE  Spec => NotRevived
<1>0. OneSlotAtATime
  BY DEF OneSlotAtATime
<1>1. Init => MarksAreAlive
  BY DEF Init, MarksAreAlive, Idle, ReadyMarks
<1>2. MediaTypeOK /\ MarksAreAlive /\ [Next]_vars => MarksAreAlive'
  <2> SUFFICES ASSUME MediaTypeOK, MarksAreAlive, [Next]_vars PROVE MarksAreAlive'
    OBVIOUS
  <2>1. CASE UNCHANGED vars
    BY <2>1 DEF vars, MarksAreAlive
  <2>2. ASSUME NEW m \in MediaIds, World(m) PROVE MarksAreAlive'
    BY <2>2 DEF World, ClientUpload, ClientUploadFails, GrowOld, KeyFreed, MarksAreAlive
  <2> QED BY <1>0, <2>1, <2>2, OneStep DEF Next
<1>3. MediaTypeOK /\ MarksAreAlive /\ [Next]_vars =>
        [\A m \in MediaIds : status[m] \in {"FAILED", "DELETING", "DELETED"} =>
           status'[m] # "READY"]_vars
  <2> SUFFICES ASSUME MediaTypeOK, MarksAreAlive, [Next]_vars, NEW m \in MediaIds,
                      status[m] \in {"FAILED", "DELETING", "DELETED"}
               PROVE  status'[m] # "READY"
    OBVIOUS
  <2> QED BY BecomesReady DEF MarksAreAlive, Over
<1> QED BY <1>1, <1>2, <1>3, MediaInvariance, PTL DEF Spec, NotRevived, IInv

-----------------------------------------------------------------------------
(* HomeForm.                                                                 *)

(* A file has its five fields, and the home is read again for a file that is *)
(* attached.                                                                 *)
FileIsKnown ==
  /\ file = [kind |-> file.kind, home |-> file.home, tries |-> file.tries, at |-> file.at, held |-> file.held]
  /\ file.at = "refreshing" => file.held = "attached"

(* What a step may do to the file. *)
FileIsKept ==
  /\ FileIsKnown'
  /\ file.at \notin {"none", "failed"} /\ file'.at = "none" /\ window' = "open" => file.held = "attached"

-----------------------------------------------------------------------------
(* A file that is not there has its fields.                                  *)
LEMMA NoFileIsFile ==
  NoFile = [kind |-> NoFile.kind, home |-> NoFile.home, tries |-> NoFile.tries, at |-> "none", held |-> NoFile.held]
  BY DEF NoFile

(* The invariant holds at first.                                             *)
LEMMA FileBegins == HomeFormInit => FileIsKnown
  BY NoFileIsFile DEF HomeFormInit, FileIsKnown

(* The upload of a file. *)
LEMMA FileGoesOn ==
  ASSUME FileIsKnown,
         \/ \E kind \in {"photo", "video"} : ChooseMedia(kind)
         \/ UploadSigned \/ FileSent \/ UploadCompleted \/ FileReported \/ StatusRead
         \/ MediaAttached \/ MediaRefreshed \/ UploadGivenUp \/ CloseHomeForm
  PROVE  FileIsKept
<1> USE DEF FileIsKept, FileIsKnown
<1>1. ASSUME NEW kind \in {"photo", "video"}, ChooseMedia(kind) PROVE FileIsKept
  <2>1. file' = [NoFile EXCEPT !.kind = kind, !.home = form.home, !.at = "signing"] /\ file.at \in {"none", "failed"}
    BY <1>1 DEF ChooseMedia
  <2> QED BY <2>1 DEF NoFile
<1>2. CASE UploadSigned
  <2>1. file' = [file EXCEPT !.at = "sending", !.held = "pending"]
    BY <1>2 DEF UploadSigned
  <2> QED BY <2>1
<1>3. CASE FileSent
  <2>1. PICK next \in {"completing", "waiting"} : file' = [file EXCEPT !.at = next, !.held = "stored"]
    BY <1>3 DEF FileSent
  <2> QED BY <2>1
<1>4. CASE UploadCompleted
  <2>1. \/ file' = [file EXCEPT !.at = "attaching", !.held = "ready"]
        \/ file' = [file EXCEPT !.at = "waiting"]
    BY <1>4 DEF UploadCompleted
  <2> QED BY <2>1
<1>5. CASE FileReported
  <2>1. PICK held \in {"ready", "failed"} : file' = [file EXCEPT !.held = held]
    BY <1>5 DEF FileReported
  <2>2. file.held = "stored"
    BY <1>5 DEF FileReported
  <2> QED BY <2>1, <2>2
<1>6. CASE StatusRead
  <2>1. file.at = "waiting"
    BY <1>6 DEF StatusRead, FileAt
  <2>2. \/ file' = [file EXCEPT !.at = "attaching"]
        \/ file' = [file EXCEPT !.tries = file.tries + 1]
        \/ file' = [file EXCEPT !.at = "failed"]
    BY <1>6 DEF StatusRead
  <2> QED BY <2>1, <2>2
<1>7. CASE MediaAttached
  <2>1. file' = [file EXCEPT !.at = "refreshing", !.held = "attached"]
    BY <1>7 DEF MediaAttached
  <2> QED BY <2>1
<1>8. CASE MediaRefreshed
  <2>1. file' = NoFile /\ file.at = "refreshing"
    BY <1>8 DEF MediaRefreshed, FileAt
  <2> QED BY <2>1, NoFileIsFile
<1>9. CASE UploadGivenUp
  <2>1. file' = [file EXCEPT !.at = "failed"]
    BY <1>9 DEF UploadGivenUp
  <2> QED BY <2>1
<1>10. CASE CloseHomeForm
  <2>1. file' = NoFile /\ window' = "closed"
    BY <1>10 DEF CloseHomeForm
  <2> QED BY <2>1, NoFileIsFile
<1> QED BY <1>1, <1>2, <1>3, <1>4, <1>5, <1>6, <1>7, <1>8, <1>9, <1>10

(* Nothing else touches the file. *)
LEMMA FileStep == ASSUME FileIsKnown, [HomeFormNext]_homeVars PROVE FileIsKept
<1>1. ASSUME file' = file PROVE FileIsKept
  BY <1>1 DEF FileIsKept, FileIsKnown
<1>2. ASSUME NEW id, NEW new, OpenHomeForm(id, new) PROVE file' = file
  BY <1>2 DEF OpenHomeForm
<1>3. ASSUME \/ HomeFormLoads \/ HomeFormFails \/ NotYetVerified \/ DraftWritten \/ DiscardHomeDraft
             \/ TypeHome \/ ToPlace \/ StepBack \/ ReviewHome \/ SaveHome \/ DropMedia \/ SubmitHome
             \/ SubmitWithoutMedia \/ RefreshMedia \/ UNCHANGED homeVars
      PROVE  file' = file
  BY <1>3 DEF HomeFormLoads, HomeFormFails, NotYetVerified, DraftWritten, DiscardHomeDraft, TypeHome, ToPlace,
              StepBack, ReviewHome, SaveHome, DropMedia, SubmitHome, SubmitWithoutMedia, RefreshMedia, homeVars
<1>4. ASSUME NEW r \in sending, \/ CreateServed(r) \/ UpdateServed(r) \/ SaveAnswered(r)
                                \/ DropAnswered(r) \/ SubmitAnswered(r) \/ HomeRequestFails(r)
      PROVE  file' = file
  BY <1>4 DEF CreateServed, UpdateServed, SaveAnswered, DropAnswered, SubmitAnswered, HomeRequestFails
<1>5. ASSUME NEW id, NEW verdict, HomeDecided(id, verdict) PROVE file' = file
  BY <1>5 DEF HomeDecided
<1> QED BY <1>1, <1>2, <1>3, <1>4, <1>5, FileGoesOn DEF HomeFormNext

(* A file the page has finished with is attached, or the provider was told. *)
THEOREM FilesAreAttachedOrTold == HomeFormSpec => AttachedOrTold
<1>1. FileIsKnown /\ [HomeFormNext]_homeVars =>
        FileIsKnown'
        /\ [file.at \notin {"none", "failed"} /\ file'.at = "none" /\ window' = "open" => file.held = "attached"]_homeVars
  BY FileStep DEF FileIsKept
<1> QED BY <1>1, FileBegins, PTL DEF HomeFormSpec, AttachedOrTold

-----------------------------------------------------------------------------
(* The homes that bear a text, or will when what is under way arrives.        *)
Reached(t) ==
  {h \in HomeIds :
     \/ homes[h].status # "none" /\ homes[h].text = t
     \/ form.home = h /\ form.text = t
     \/ drafted.home = h /\ drafted.text = t
     \/ \E r \in sending : /\ r.home = h /\ r.text = t
                           /\ \/ r.kind = "patch" /\ r.outcome = "none"
                              \/ r.kind = "post" /\ r.mine /\ r.outcome = "done"}

(* The page, or its draft, will make a new home of a text, or is making one.  *)
Posted(t, outcome) == \E r \in sending : r.mine /\ r.kind = "post" /\ r.text = t /\ r.outcome = outcome
MakesNew(t) ==
  \/ Posted(t, "none")
  \/ /\ ~Posted(t, "done")
     /\ \/ form.home = 0 /\ form.text = t
        \/ drafted.home = 0 /\ drafted.text = t /\ form.text # t

(* Pages that were closed may still make one.                                 *)
LeftPosts(t) == {r \in sending : ~r.mine /\ r.kind = "post" /\ r.text = t /\ r.outcome = "none"}

(* All of them together are one home, and one more for each that is unnoted.  *)
CountedFor(t) ==
  Cardinality(Reached(t)) + (IF MakesNew(t) THEN 1 ELSE 0) + Cardinality(LeftPosts(t)) <= 1 + unnoted[t]
Counted == \A t \in 1..MaxTexts : t \notin mixed => CountedFor(t)

(* Rows, requests and the page have their fields; no text is of the future.   *)
RequestIs(r) ==
  /\ r = [kind |-> r.kind, home |-> r.home, text |-> r.text, mine |-> r.mine, outcome |-> r.outcome]
  /\ r.kind \in {"post", "patch", "submit", "drop"} /\ r.mine \in BOOLEAN /\ r.text \in 0..texts
  /\ r.kind = "post" => r.text # 0
  /\ r.kind = "post" /\ r.outcome = "done" => r.home \in HomeIds
RowIs(row) ==
  /\ row = [text |-> row.text, status |-> row.status, photos |-> row.photos, video |-> row.video]
  /\ row.text \in 0..texts
FieldsAreKnown ==
  /\ IsFiniteSet(sending) /\ \A r \in sending : RequestIs(r)
  /\ homes = [h \in HomeIds |-> homes[h]] /\ \A h \in HomeIds : RowIs(homes[h])
  /\ form = [home |-> form.home, text |-> form.text, step |-> form.step, reviewing |-> form.reviewing]
  /\ texts \in Nat /\ form.text \in 0..texts /\ drafted.text \in 0..texts
  /\ unnoted \in [1..MaxTexts -> Nat]

(* A closed form is blank; the home that is asked for was made.               *)
ClosedIsBlank ==
  /\ window # "open" => form = Blank0
  /\ asked # 0 => asked \in HomeIds /\ homes[asked].status # "none"

(* An open page waits for one request at most; if that makes a home of a text *)
(* the page has dropped since, the draft has dropped it, too.                 *)
OneIsMine ==
  /\ \A q, r \in sending : q.mine /\ r.mine => q = r
  /\ \A r \in sending : r.mine => window = "open"
  /\ \A r \in sending : r.mine /\ r.kind = "post" /\ form.text # r.text => drafted.text # r.text

(* The inductive invariant of the homes.                                     *)
HomeFormInv == FieldsAreKnown /\ ClosedIsBlank /\ OneIsMine /\ Counted

-----------------------------------------------------------------------------
(* Finite sets of homes and of requests. *)
LEMMA ReachedIsFinite ==
  ASSUME NEW t, IsFiniteSet(sending) PROVE IsFiniteSet(Reached(t)) /\ IsFiniteSet(LeftPosts(t))
<1>1. IsFiniteSet(HomeIds)
  BY FS_Interval, HomeFormAssumption DEF HomeIds
<1>2. Reached(t) \subseteq HomeIds /\ LeftPosts(t) \subseteq sending
  BY DEF Reached, LeftPosts
<1> QED BY <1>1, <1>2, FS_Subset

(* A set that gains one member at most. *)
LEMMA OneMore ==
  ASSUME NEW S, NEW T, NEW x, IsFiniteSet(S), T \subseteq S \cup {x}
  PROVE  IsFiniteSet(T) /\ Cardinality(T) \in Nat /\ Cardinality(S) \in Nat /\ Cardinality(T) <= Cardinality(S) + 1
<1>1. IsFiniteSet(S \cup {x}) /\ Cardinality(S \cup {x}) <= Cardinality(S) + 1
  <2>1. /\ IsFiniteSet(S \cup {x})
        /\ Cardinality(S \cup {x}) = IF x \in S THEN Cardinality(S) ELSE Cardinality(S) + 1
    BY FS_AddElement
  <2> QED BY <2>1, FS_CardinalityType
<1>2. IsFiniteSet(T) /\ Cardinality(T) <= Cardinality(S \cup {x})
  BY <1>1, FS_Subset
<1> QED BY <1>1, <1>2, FS_CardinalityType

(* A set that gains none, or loses one. *)
LEMMA NoneMore ==
  ASSUME NEW S, NEW T, IsFiniteSet(S), T \subseteq S
  PROVE  /\ IsFiniteSet(T) /\ Cardinality(T) \in Nat /\ Cardinality(S) \in Nat
         /\ Cardinality(T) <= Cardinality(S)
         /\ \A x \in S : x \notin T => Cardinality(T) <= Cardinality(S) - 1
<1>1. IsFiniteSet(T) /\ Cardinality(T) <= Cardinality(S) /\ Cardinality(T) \in Nat /\ Cardinality(S) \in Nat
  BY FS_Subset, FS_CardinalityType
<1>2. ASSUME NEW x \in S, x \notin T PROVE Cardinality(T) <= Cardinality(S) - 1
  <2>1. IsFiniteSet(S \ {x}) /\ Cardinality(S \ {x}) = Cardinality(S) - 1
    BY FS_RemoveElement
  <2>2. T \subseteq S \ {x}
    BY <1>2
  <2> QED BY <2>1, <2>2, FS_Subset
<1> QED BY <1>1, <1>2

(* A home is made, or made the page's, that was going to be. *)
LEMMA HomeIsMade ==
  ASSUME NEW t, NEW id, IsFiniteSet(sending), CountedFor(t), unnoted[t] \in Nat, unnoted'[t] = unnoted[t],
         Reached(t)' \subseteq Reached(t) \cup {id}, LeftPosts(t)' \subseteq LeftPosts(t),
         \/ MakesNew(t) /\ ~MakesNew(t)'
         \/ (MakesNew(t)' => MakesNew(t)) /\ \E r \in LeftPosts(t) : r \notin LeftPosts(t)'
  PROVE  CountedFor(t)'
<1>1. /\ Cardinality(Reached(t)') <= Cardinality(Reached(t)) + 1
      /\ {Cardinality(Reached(t)), Cardinality(Reached(t)')} \subseteq Nat
  BY ReachedIsFinite, OneMore
<1>2. /\ Cardinality(LeftPosts(t)') <= Cardinality(LeftPosts(t))
      /\ {Cardinality(LeftPosts(t)), Cardinality(LeftPosts(t)')} \subseteq Nat
      /\ \A r \in LeftPosts(t) : r \notin LeftPosts(t)' => Cardinality(LeftPosts(t)') <= Cardinality(LeftPosts(t)) - 1
  BY ReachedIsFinite, NoneMore
<1>3. CASE MakesNew(t) /\ ~MakesNew(t)'
  BY <1>1, <1>2, <1>3 DEF CountedFor
<1>4. CASE (MakesNew(t)' => MakesNew(t)) /\ \E r \in LeftPosts(t) : r \notin LeftPosts(t)'
  <2>1. Cardinality(LeftPosts(t)') <= Cardinality(LeftPosts(t)) - 1
    BY <1>2, <1>4
  <2> QED BY <1>1, <1>2, <2>1, <1>4 DEF CountedFor
<1> QED BY <1>3, <1>4

(* One more home may be made, and it is counted that it may. *)
LEMMA OneIsUnnoted ==
  ASSUME NEW t, NEW q, IsFiniteSet(sending), CountedFor(t), unnoted[t] \in Nat, unnoted'[t] \in Nat,
         unnoted'[t] >= unnoted[t] + 1, Reached(t)' \subseteq Reached(t),
         LeftPosts(t)' \subseteq LeftPosts(t) \cup {q}, LeftPosts(t)' \subseteq LeftPosts(t) \/ MakesNew(t)
  PROVE  CountedFor(t)'
<1>1. /\ Cardinality(Reached(t)') <= Cardinality(Reached(t))
      /\ {Cardinality(Reached(t)), Cardinality(Reached(t)')} \subseteq Nat
  BY ReachedIsFinite, NoneMore
<1>2. /\ Cardinality(LeftPosts(t)') <= Cardinality(LeftPosts(t)) + 1
      /\ {Cardinality(LeftPosts(t)), Cardinality(LeftPosts(t)')} \subseteq Nat
  BY ReachedIsFinite, OneMore
<1>3. CASE LeftPosts(t)' \subseteq LeftPosts(t)
  <2>1. Cardinality(LeftPosts(t)') <= Cardinality(LeftPosts(t))
    BY <1>3, ReachedIsFinite, NoneMore
  <2> QED BY <1>1, <1>2, <2>1 DEF CountedFor
<1>4. CASE MakesNew(t)
  BY <1>1, <1>2, <1>4 DEF CountedFor
<1> QED BY <1>3, <1>4

(* Nothing is gained. *)
LEMMA StillCounted ==
  ASSUME NEW t, IsFiniteSet(sending), CountedFor(t), unnoted[t] \in Nat, unnoted'[t] \in Nat,
         unnoted'[t] >= unnoted[t],
         Reached(t)' \subseteq Reached(t), LeftPosts(t)' \subseteq LeftPosts(t), MakesNew(t)' => MakesNew(t)
  PROVE  CountedFor(t)'
<1>1. /\ Cardinality(Reached(t)') <= Cardinality(Reached(t)) /\ Cardinality(LeftPosts(t)') <= Cardinality(LeftPosts(t))
      /\ {Cardinality(Reached(t)'), Cardinality(LeftPosts(t)')} \subseteq Nat
      /\ {Cardinality(Reached(t)), Cardinality(LeftPosts(t))} \subseteq Nat
  BY ReachedIsFinite, NoneMore
<1> QED BY <1>1 DEF CountedFor

(* The page has the text it had, and waits for nothing new. *)
LEMMA FieldsStay ==
  ASSUME HomeFormInv, sending' \subseteq sending, texts' = texts, form'.text = form.text,
         form' = [home |-> form'.home, text |-> form'.text, step |-> form'.step, reviewing |-> form'.reviewing],
         drafted' \in {drafted, NoLocal}, unnoted' \in [1..MaxTexts -> Nat],
         homes' = [h \in HomeIds |-> homes'[h]], \A h \in HomeIds : RowIs(homes'[h]),
         window' = window \/ ~HomeBusy
  PROVE  FieldsAreKnown' /\ OneIsMine'
<1> USE DEF HomeFormInv
<1>1. IsFiniteSet(sending')
  BY FS_Subset DEF FieldsAreKnown
<1>2. \A r \in sending' : RequestIs(r)'
  BY DEF FieldsAreKnown, RequestIs
<1>3. drafted'.text \in 0..texts' /\ drafted'.text \in {drafted.text, 0}
  BY DEF FieldsAreKnown, NoLocal
<1>4. \A h \in HomeIds : RowIs(homes[h])'
  BY DEF RowIs
<1>5. FieldsAreKnown'
  BY <1>1, <1>2, <1>3, <1>4 DEF FieldsAreKnown
<1>6. \A r \in sending' : r.mine => window' = "open"
  BY DEF OneIsMine, HomeBusy
<1>7. \A r \in sending' : r.mine /\ r.kind = "post" /\ form'.text # r.text => drafted'.text # r.text
  BY <1>3 DEF OneIsMine, FieldsAreKnown, RequestIs
<1>8. \A q, r \in sending' : q.mine /\ r.mine => q = r
  BY DEF OneIsMine
<1> QED BY <1>5, <1>6, <1>7, <1>8 DEF OneIsMine

(* A page that keeps its home makes no other. *)
LEMMA HomeStays ==
  ASSUME HomeFormInv, form'.home = form.home, form'.text = form.text, sending' \subseteq sending,
         \A r \in sending : r \notin sending' => ~(r.mine /\ r.kind = "post" /\ r.outcome = "done"),
         drafted' \in {drafted, NoLocal}, unnoted' = unnoted, mixed' = mixed,
         \A h \in HomeIds : homes'[h].text = homes[h].text
                            /\ (homes'[h].status = "none" <=> homes[h].status = "none")
  PROVE  Counted'
<1> SUFFICES ASSUME NEW t \in 1..MaxTexts, t \notin mixed PROVE CountedFor(t)'
  BY DEF Counted
<1>1. CountedFor(t) /\ IsFiniteSet(sending) /\ unnoted[t] \in Nat /\ unnoted'[t] = unnoted[t]
  BY DEF HomeFormInv, FieldsAreKnown, Counted
<1>2. (drafted'.home = drafted.home /\ drafted'.text = drafted.text) \/ (drafted'.home = 0 /\ drafted'.text = 0)
  BY DEF NoLocal
<1>3. t # 0 /\ 0 \notin HomeIds
  BY DEF HomeIds
<1>4. Reached(t)' \subseteq Reached(t)
  BY <1>2, <1>3 DEF Reached
<1>5. LeftPosts(t)' \subseteq LeftPosts(t)
  BY DEF LeftPosts
<1>6. Posted(t, "none")' => Posted(t, "none")
  BY DEF Posted
<1>7. Posted(t, "done") => Posted(t, "done")'
  BY DEF Posted
<1>8. MakesNew(t)' => MakesNew(t)
  BY <1>2, <1>3, <1>6, <1>7 DEF MakesNew
<1> QED BY <1>1, <1>4, <1>5, <1>8, StillCounted

(* An answer makes its home the page's. *)
LEMMA HomeComes ==
  ASSUME HomeFormInv, NEW id, form'.home = id, form'.text = form.text, BelongsTo(id), sending' \subseteq sending,
         \A r \in sending : r \notin sending' /\ r.mine /\ r.kind = "post" => r.outcome = "done" /\ r.home = id,
         drafted' \in {drafted, NoLocal}, unnoted' = unnoted, homes' = homes
  PROVE  Counted'
<1> SUFFICES ASSUME NEW t \in 1..MaxTexts, t \notin mixed' PROVE CountedFor(t)'
  BY DEF Counted
<1>1. t \notin mixed
  BY DEF BelongsTo
<1>2. CountedFor(t) /\ IsFiniteSet(sending) /\ unnoted[t] \in Nat /\ unnoted'[t] = unnoted[t]
  BY <1>1 DEF HomeFormInv, FieldsAreKnown, Counted
<1>3. (drafted'.home = drafted.home /\ drafted'.text = drafted.text) \/ (drafted'.home = 0 /\ drafted'.text = 0)
  BY DEF NoLocal
<1>4. t # 0 /\ 0 \notin HomeIds
  BY DEF HomeIds
<1>5. LeftPosts(t)' \subseteq LeftPosts(t)
  BY DEF LeftPosts
<1>6. Posted(t, "none")' => Posted(t, "none")
  BY DEF Posted
<1>7. CASE form.text # t
  <2>1. Reached(t)' \subseteq Reached(t)
    BY <1>3, <1>4, <1>7 DEF Reached
  <2>2. Posted(t, "done") /\ ~Posted(t, "done")' => drafted.text # t
    BY <1>7 DEF Posted, HomeFormInv, OneIsMine
  <2>3. MakesNew(t)' => MakesNew(t)
    BY <1>3, <1>4, <1>6, <1>7, <2>2 DEF MakesNew
  <2> QED BY <1>2, <1>5, <2>1, <2>3, StillCounted
<1>8. CASE form.text = t
  <2>1. form.home \in {0, id} /\ ~\E r \in sending' : r.mine /\ r.kind = "post"
    BY <1>8 DEF BelongsTo
  <2>2. ~Posted(t, "none")' /\ ~Posted(t, "done")'
    BY <2>1 DEF Posted
  <2>3. Reached(t)' \subseteq Reached(t) \cup {id}
    BY <1>3, <1>4, <1>8 DEF Reached
  <2>4. Posted(t, "done") => id \in Reached(t) /\ id # 0
    <3> SUFFICES ASSUME Posted(t, "done") PROVE id \in Reached(t) /\ id # 0
      OBVIOUS
    <3>1. PICK r \in sending : r.mine /\ r.kind = "post" /\ r.text = t /\ r.outcome = "done"
      BY DEF Posted
    <3>2. r.home = id /\ r.home \in HomeIds
      BY <2>1, <3>1 DEF HomeFormInv, FieldsAreKnown, RequestIs
    <3> QED BY <1>4, <3>1, <3>2 DEF Reached
  <2>5. CASE form.home = id \/ Posted(t, "done")
    <3>1. Reached(t)' \subseteq Reached(t)
      <4>1. id \in HomeIds => id \in Reached(t)
        BY <1>8, <2>4, <2>5 DEF Reached
      <4> QED BY <2>3, <4>1 DEF Reached
    <3>2. MakesNew(t)' => MakesNew(t)
      BY <1>3, <1>8, <2>2, <2>4, <2>5 DEF MakesNew
    <3> QED BY <1>2, <1>5, <3>1, <3>2, StillCounted
  <2>6. CASE form.home # id /\ ~Posted(t, "done")
    <3>1. form.home = 0 /\ id # 0
      BY <2>1, <2>6
    <3>2. MakesNew(t) /\ ~MakesNew(t)'
      BY <1>3, <1>4, <1>8, <2>2, <2>6, <3>1 DEF MakesNew
    <3> QED BY <1>2, <1>5, <2>3, <3>2, HomeIsMade
  <2> QED BY <2>5, <2>6
<1> QED BY <1>7, <1>8

-----------------------------------------------------------------------------
(* It holds at first: there is no home.                                      *)
LEMMA HomesBegin == HomeFormInit => HomeFormInv
<1> SUFFICES ASSUME HomeFormInit PROVE HomeFormInv
  OBVIOUS
<1> USE DEF HomeFormInit
<1>1. FieldsAreKnown
  <2>1. IsFiniteSet(sending)
    BY FS_EmptySet
  <2>2. /\ NoHome = [text |-> NoHome.text, status |-> NoHome.status, photos |-> NoHome.photos, video |-> NoHome.video]
        /\ NoHome.text = 0
    BY DEF NoHome
  <2> QED BY <2>1, <2>2 DEF FieldsAreKnown, RowIs, Blank0, NoLocal
<1>2. ClosedIsBlank /\ OneIsMine
  BY DEF ClosedIsBlank, OneIsMine
<1>3. ASSUME NEW t \in 1..MaxTexts PROVE CountedFor(t)
  <2>1. Reached(t) = {} /\ LeftPosts(t) = {}
    BY DEF Reached, LeftPosts, HomeIds, NoHome, Blank0, NoLocal
  <2>2. Cardinality({}) = 0
    BY FS_EmptySet
  <2> QED BY <2>1, <2>2 DEF CountedFor
<1> QED BY <1>1, <1>2, <1>3 DEF HomeFormInv, Counted

(* Steps of the page that leave its home and its text as they are. *)
LEMMA PageMoves ==
  ASSUME HomeFormInv, UNCHANGED <<homes, drafted, sending, texts, unnoted, mixed>>, form'.home = form.home, form'.text = form.text,
         form' = [home |-> form'.home, text |-> form'.text, step |-> form'.step, reviewing |-> form'.reviewing],
         window' = window \/ window # "open", ClosedIsBlank'
  PROVE  HomeFormInv'
<1> USE DEF HomeFormInv
<1>1. \A h \in HomeIds : RowIs(homes'[h])
  BY DEF FieldsAreKnown
<1>2. unnoted' \in [1..MaxTexts -> Nat] /\ homes' = [h \in HomeIds |-> homes'[h]]
  BY DEF FieldsAreKnown
<1>3. window' = window \/ ~HomeBusy
  BY DEF OneIsMine, HomeBusy
<1>4. FieldsAreKnown' /\ OneIsMine'
  BY <1>1, <1>2, <1>3, FieldsStay
<1>5. Counted'
  BY HomeStays
<1> QED BY <1>4, <1>5

(* Opening, turning steps, and an upload before its home is read again.      *)
LEMMA PageIsMoved ==
  ASSUME HomeFormInv,
         \/ \E id \in 0..MaxHomes, new \in BOOLEAN : OpenHomeForm(id, new)
         \/ HomeFormFails \/ NotYetVerified \/ ToPlace \/ StepBack \/ ReviewHome \/ SubmitWithoutMedia
         \/ \E kind \in {"photo", "video"} : ChooseMedia(kind)
         \/ UploadSigned \/ FileSent \/ UploadCompleted \/ FileReported \/ StatusRead
         \/ UNCHANGED homeVars
  PROVE  HomeFormInv'
<1> USE DEF HomeFormInv
<1>1. UNCHANGED <<homes, drafted, sending, texts, unnoted, mixed>>
  BY DEF OpenHomeForm, HomeFormFails, NotYetVerified, ToPlace, StepBack, ReviewHome, SubmitWithoutMedia, ChooseMedia,
         UploadSigned, FileSent, UploadCompleted, FileReported, StatusRead, fileOthers, pageOfFile, Edited, homeVars
<1>2. /\ form'.home = form.home /\ form'.text = form.text
      /\ form' = [home |-> form'.home, text |-> form'.text, step |-> form'.step, reviewing |-> form'.reviewing]
  <2>1. \/ form' = form \/ form' = [form EXCEPT !.reviewing = ~form.reviewing]
        \/ \E n \in {2, 3, form.step - 1} : form' = [form EXCEPT !.step = n]
    BY DEF OpenHomeForm, HomeFormFails, NotYetVerified, ToPlace, StepBack, ReviewHome, SubmitWithoutMedia, ChooseMedia,
           UploadSigned, FileSent, UploadCompleted, FileReported, StatusRead, fileOthers, pageOfFile, Edited, homeVars
  <2>2. form = [home |-> form.home, text |-> form.text, step |-> form.step, reviewing |-> form.reviewing]
    BY DEF FieldsAreKnown
  <2> QED BY <2>1, <2>2
<1>3. ASSUME NEW id \in 0..MaxHomes, NEW new \in BOOLEAN, OpenHomeForm(id, new)
      PROVE  window # "open" /\ ClosedIsBlank'
  BY <1>3, HomeFormAssumption DEF OpenHomeForm, ClosedIsBlank, HomeIds
<1>4. CASE HomeFormFails \/ NotYetVerified
  BY <1>1, <1>2, <1>4, PageMoves DEF HomeFormFails, NotYetVerified, ClosedIsBlank
<1>5. CASE ToPlace \/ StepBack \/ ReviewHome \/ SubmitWithoutMedia
  <2>1. window' = window /\ window = "open" /\ asked' = asked
    BY <1>5 DEF ToPlace, StepBack, ReviewHome, SubmitWithoutMedia, Shown0, tabVars
  <2> QED BY <1>1, <1>2, <2>1, PageMoves DEF ClosedIsBlank
<1>6. CASE \/ \E kind \in {"photo", "video"} : ChooseMedia(kind)
           \/ UploadSigned \/ FileSent \/ UploadCompleted \/ FileReported \/ StatusRead
           \/ UNCHANGED homeVars
  <2>1. window' = window /\ form' = form /\ asked' = asked
    BY <1>6 DEF ChooseMedia, UploadSigned, FileSent, UploadCompleted, FileReported, StatusRead,
                fileOthers, pageOfFile, tabVars, homeVars
  <2> QED BY <1>1, <1>2, <2>1, PageMoves DEF ClosedIsBlank
<1> QED BY <1>1, <1>2, <1>3, <1>4, <1>5, <1>6, PageMoves

(* A row's media or status changes. *)
LEMMA RowTurns ==
  ASSUME HomeFormInv, MediaAttached \/ \E id \in HomeIds, verdict \in {"verified", "rejected"} : HomeDecided(id, verdict)
  PROVE  HomeFormInv'
<1> USE DEF HomeFormInv
<1>1. /\ UNCHANGED <<form, drafted, sending, texts, unnoted, mixed, window, asked>>
      /\ homes' = [h \in HomeIds |-> homes'[h]]
      /\ \A h \in HomeIds : /\ RowIs(homes'[h])
                            /\ homes'[h].text = homes[h].text
                            /\ homes'[h].status = "none" <=> homes[h].status = "none"
  <2>1. CASE MediaAttached
    <3>1. \/ homes' = [homes EXCEPT ![file.home].photos = homes[file.home].photos + 1]
          \/ homes' = [homes EXCEPT ![file.home].video = TRUE]
      BY <2>1 DEF MediaAttached
    <3>2. UNCHANGED <<form, drafted, sending, texts, unnoted, mixed, window, asked>>
      BY <2>1 DEF MediaAttached, tabVars
    <3>3. homes' = [h \in HomeIds |-> homes'[h]]
      BY <3>1 DEF FieldsAreKnown
    <3>4. ASSUME NEW h \in HomeIds
          PROVE  RowIs(homes'[h]) /\ homes'[h].text = homes[h].text /\ homes'[h].status = homes[h].status
      <4>1. /\ homes[h] = [text |-> homes[h].text, status |-> homes[h].status,
                           photos |-> homes[h].photos, video |-> homes[h].video]
            /\ RowIs(homes[h])
        BY DEF FieldsAreKnown, RowIs
      <4>2. \/ homes'[h] = homes[h]
            \/ homes'[h] = [homes[h] EXCEPT !.photos = homes[file.home].photos + 1]
            \/ homes'[h] = [homes[h] EXCEPT !.video = TRUE]
        BY <3>1 DEF FieldsAreKnown
      <4> QED BY <4>1, <4>2 DEF RowIs
    <3> QED BY <3>2, <3>3, <3>4
  <2>2. ASSUME NEW id \in HomeIds, NEW verdict \in {"verified", "rejected"}, HomeDecided(id, verdict)
        PROVE  /\ homes[id].status # "none" /\ verdict # "none"
               /\ homes' = [homes EXCEPT ![id].status = verdict]
               /\ UNCHANGED <<form, drafted, sending, texts, unnoted, mixed, window, asked>>
    BY <2>2 DEF HomeDecided, tabVars
  <2>3. CASE \E id \in HomeIds, verdict \in {"verified", "rejected"} : HomeDecided(id, verdict)
    BY <2>2, <2>3 DEF FieldsAreKnown, RowIs
  <2> QED BY <2>1, <2>3
<1>2. FieldsAreKnown' /\ OneIsMine'
  <2>1. /\ form' = [home |-> form'.home, text |-> form'.text, step |-> form'.step, reviewing |-> form'.reviewing]
        /\ unnoted' \in [1..MaxTexts -> Nat]
    BY <1>1 DEF FieldsAreKnown
  <2> QED BY <1>1, <2>1, FieldsStay
<1>3. Counted'
  BY <1>1, HomeStays
<1>4. ClosedIsBlank'
  BY <1>1 DEF ClosedIsBlank
<1> QED BY <1>2, <1>3, <1>4

(* The form is there, with the row of its home or with its draft. *)
LEMMA FormIsLoaded == ASSUME HomeFormInv, HomeFormLoads PROVE HomeFormInv'
<1> USE DEF HomeFormInv
<1>1. /\ UNCHANGED <<homes, drafted, sending, texts, unnoted, mixed>>
      /\ window = "loading" /\ window' = "open" /\ asked' = 0
  BY DEF HomeFormLoads
<1>2. /\ form'.home = asked
      /\ \/ form'.text = RowOfHome(asked).text
         \/ drafted.home = asked /\ form'.text = drafted.text
      /\ form' = [home |-> form'.home, text |-> form'.text, step |-> form'.step, reviewing |-> form'.reviewing]
  BY DEF HomeFormLoads, DraftFor
<1>3. form.home = 0 /\ form.text = 0 /\ ~HomeBusy
  BY <1>1 DEF ClosedIsBlank, Blank0, OneIsMine, HomeBusy
<1>4. /\ RowOfHome(asked).text \in 0..texts
      /\ asked # 0 => asked \in HomeIds /\ homes[asked].status # "none" /\ RowOfHome(asked).text = homes[asked].text
      /\ asked = 0 => RowOfHome(asked).text = 0
  BY DEF RowOfHome, NoHome, ClosedIsBlank, FieldsAreKnown, RowIs
<1>5. FieldsAreKnown'
  <2>1. form'.text \in 0..texts
    BY <1>2, <1>4 DEF FieldsAreKnown
  <2>2. (\A r \in sending : RequestIs(r))' /\ (\A h \in HomeIds : RowIs(homes[h]))'
    BY <1>1 DEF FieldsAreKnown, RequestIs, RowIs
  <2> QED BY <1>1, <1>2, <2>1, <2>2 DEF FieldsAreKnown
<1>6. ClosedIsBlank' /\ OneIsMine'
  BY <1>1, <1>3 DEF ClosedIsBlank, OneIsMine, HomeBusy
<1>7. ASSUME NEW t \in 1..MaxTexts, t \notin mixed' PROVE CountedFor(t)'
  <2>1. CountedFor(t) /\ IsFiniteSet(sending) /\ unnoted[t] \in Nat /\ unnoted'[t] = unnoted[t]
    BY <1>1, <1>7 DEF FieldsAreKnown, Counted
  <2>2. t # 0 /\ 0 \notin HomeIds
    BY DEF HomeIds
  <2>3. Reached(t)' \subseteq Reached(t)
    BY <1>1, <1>2, <1>4, <2>2 DEF Reached
  <2>4. LeftPosts(t)' \subseteq LeftPosts(t)
    BY <1>1 DEF LeftPosts
  <2>5. ~Posted(t, "none")' /\ ~Posted(t, "done")
    BY <1>1, <1>3 DEF Posted, HomeBusy
  <2>6. MakesNew(t)' => drafted.home = 0 /\ drafted.text = t
    BY <1>1, <1>2, <1>4, <2>2, <2>5 DEF MakesNew
  <2>7. MakesNew(t)' => MakesNew(t)
    BY <1>3, <2>2, <2>5, <2>6 DEF MakesNew
  <2> QED BY <2>1, <2>3, <2>4, <2>7, StillCounted
<1> QED BY <1>5, <1>6, <1>7 DEF Counted

(* What the page holds becomes the draft; or the draft is dropped with it. *)
LEMMA DraftIsSet == ASSUME HomeFormInv, DraftWritten \/ DiscardHomeDraft PROVE HomeFormInv'
<1> USE DEF HomeFormInv
<1>1. UNCHANGED <<homes, sending, texts, unnoted, mixed, window, asked>>
  BY DEF DraftWritten, DiscardHomeDraft, tabVars
<1>2. /\ drafted'.text = form'.text /\ drafted'.home = form'.home
      /\ \/ form' = form
         \/ window = "open" /\ form'.home = 0 /\ form'.text = 0
      /\ form' = [home |-> form'.home, text |-> form'.text, step |-> form'.step, reviewing |-> form'.reviewing]
  BY DEF DraftWritten, DiscardHomeDraft, Shown0, NoLocal, Blank0, FieldsAreKnown
<1>3. FieldsAreKnown'
  <2>1. (\A r \in sending : RequestIs(r))' /\ (\A h \in HomeIds : RowIs(homes[h]))'
    BY <1>1 DEF FieldsAreKnown, RequestIs, RowIs
  <2> QED BY <1>1, <1>2, <2>1 DEF FieldsAreKnown
<1>4. ClosedIsBlank' /\ OneIsMine'
  <2>1. ClosedIsBlank'
    BY <1>1, <1>2 DEF ClosedIsBlank
  <2>2. OneIsMine'
    BY <1>1, <1>2 DEF OneIsMine
  <2> QED BY <2>1, <2>2
<1>5. ASSUME NEW t \in 1..MaxTexts, t \notin mixed' PROVE CountedFor(t)'
  <2>1. CountedFor(t) /\ IsFiniteSet(sending) /\ unnoted[t] \in Nat /\ unnoted'[t] = unnoted[t]
    BY <1>1, <1>5 DEF FieldsAreKnown, Counted
  <2>2. t # 0 /\ 0 \notin HomeIds
    BY DEF HomeIds
  <2>3. Reached(t)' \subseteq Reached(t)
    BY <1>1, <1>2, <2>2 DEF Reached
  <2>4. LeftPosts(t)' \subseteq LeftPosts(t)
    BY <1>1 DEF LeftPosts
  <2>5. (Posted(t, "none")' <=> Posted(t, "none")) /\ (Posted(t, "done")' <=> Posted(t, "done"))
    BY <1>1 DEF Posted
  <2>6. MakesNew(t)' => MakesNew(t)
    BY <1>2, <2>2, <2>5 DEF MakesNew
  <2> QED BY <2>1, <2>3, <2>4, <2>6, StillCounted
<1> QED BY <1>3, <1>4, <1>5 DEF Counted

(* A text is typed that was never typed before. *)
LEMMA TextIsNew == ASSUME HomeFormInv, TypeHome PROVE HomeFormInv'
<1> USE DEF HomeFormInv
<1>1. /\ UNCHANGED <<homes, drafted, sending, unnoted, mixed, window, asked>>
      /\ form.text = 0 /\ texts' = texts + 1 /\ form' = [form EXCEPT !.text = texts + 1] /\ window = "open"
  BY DEF TypeHome, tabVars, Edited, Shown0
<1>2. /\ form'.home = form.home /\ form'.text = texts + 1
      /\ form' = [home |-> form'.home, text |-> form'.text, step |-> form'.step, reviewing |-> form'.reviewing]
  BY <1>1 DEF FieldsAreKnown
<1>3. FieldsAreKnown'
  <2>1. texts \in Nat /\ texts' \in Nat /\ \A n \in 0..texts : n \in 0..texts'
    BY <1>1 DEF FieldsAreKnown
  <2>2. (\A r \in sending : RequestIs(r))' /\ (\A h \in HomeIds : RowIs(homes[h]))'
    BY <1>1, <2>1 DEF FieldsAreKnown, RequestIs, RowIs
  <2>3. drafted'.text \in 0..texts' /\ form'.text \in 0..texts'
    BY <1>1, <1>2, <2>1 DEF FieldsAreKnown
  <2> QED BY <1>1, <1>2, <2>1, <2>2, <2>3 DEF FieldsAreKnown
<1>4. ClosedIsBlank' /\ OneIsMine'
  <2>1. \A r \in sending : r.mine /\ r.kind = "post" => drafted.text # r.text
    BY <1>1 DEF OneIsMine, FieldsAreKnown, RequestIs
  <2> QED BY <1>1, <2>1 DEF ClosedIsBlank, OneIsMine
<1>5. ASSUME NEW t \in 1..MaxTexts, t \notin mixed' PROVE CountedFor(t)'
  <2>1. CountedFor(t) /\ IsFiniteSet(sending) /\ unnoted[t] \in Nat /\ unnoted'[t] = unnoted[t]
    BY <1>1, <1>5 DEF FieldsAreKnown, Counted
  <2>2. t # 0 /\ 0 \notin HomeIds
    BY DEF HomeIds
  <2>3. LeftPosts(t)' \subseteq LeftPosts(t)
    BY <1>1 DEF LeftPosts
  <2>4. (Posted(t, "none")' <=> Posted(t, "none")) /\ (Posted(t, "done")' <=> Posted(t, "done"))
    BY <1>1 DEF Posted
  <2>5. CASE t # texts + 1
    <3>1. Reached(t)' \subseteq Reached(t)
      BY <1>1, <1>2, <2>5 DEF Reached
    <3>2. MakesNew(t)' => MakesNew(t)
      BY <1>1, <1>2, <2>2, <2>4, <2>5 DEF MakesNew
    <3> QED BY <2>1, <2>3, <3>1, <3>2, StillCounted
  <2>6. CASE t = texts + 1
    <3>1. /\ \A h \in HomeIds : homes[h].text # t
          /\ drafted.text # t /\ \A r \in sending : r.text # t
      BY <2>6 DEF FieldsAreKnown, RowIs, RequestIs
    <3>2. LeftPosts(t)' = {} /\ Reached(t)' \subseteq {form.home} /\ ~Posted(t, "none")'
      BY <1>1, <1>2, <2>2, <3>1 DEF LeftPosts, Reached, Posted
    <3>3. (form.home = 0 => Reached(t)' = {}) /\ (MakesNew(t)' => form.home = 0)
      BY <1>1, <1>2, <2>2, <2>6, <3>1, <3>2 DEF MakesNew, Reached
    <3>4. Cardinality({}) = 0 /\ Cardinality(Reached(t)') \in Nat /\ Cardinality(Reached(t)') <= 1
      <4>1. Reached(t)' \subseteq {} \cup {form.home} /\ IsFiniteSet({}) /\ Cardinality({}) = 0
        BY <3>2, FS_EmptySet
      <4>2. Cardinality(Reached(t)') \in Nat /\ Cardinality(Reached(t)') <= Cardinality({}) + 1
        BY <4>1, OneMore
      <4> QED BY <4>1, <4>2
    <3> QED BY <1>1, <2>1, <3>2, <3>3, <3>4 DEF CountedFor
  <2> QED BY <2>5, <2>6
<1> QED BY <1>3, <1>4, <1>5 DEF Counted

(* The page is closed: a request it waits for is left alone. *)
Left(r) == [r EXCEPT !.mine = FALSE]
UnnotedPosts(t) == {r \in sending : r.mine /\ r.kind = "post" /\ r.outcome # "refused" /\ r.text = t}

(* A page is closed: what it was making may be made yet, and is unnoted.     *)
LEMMA FormIsClosed == ASSUME HomeFormInv, CloseHomeForm PROVE HomeFormInv'
<1> USE DEF HomeFormInv
<1>1. /\ UNCHANGED <<homes, drafted, texts, mixed, asked>>
      /\ window' = "closed" /\ form' = Blank0 /\ window = "open"
      /\ sending' = {Left(r) : r \in sending}
      /\ unnoted' = [t \in 1..MaxTexts |-> unnoted[t] + Cardinality(UnnotedPosts(t))
           + (IF form.home # 0 /\ form.text = t /\ drafted.text = t /\ drafted.home = 0 THEN 1 ELSE 0)]
  BY DEF CloseHomeForm, Left, UnnotedPosts
<1>2. \A r \in sending : /\ Left(r).kind = r.kind /\ Left(r).home = r.home /\ Left(r).text = r.text
                         /\ Left(r).outcome = r.outcome /\ Left(r).mine = FALSE
                         /\ RequestIs(Left(r)) /\ (r.mine = FALSE => Left(r) = r)
  <2> SUFFICES ASSUME NEW r \in sending
               PROVE  /\ Left(r).kind = r.kind /\ Left(r).home = r.home /\ Left(r).text = r.text
                      /\ Left(r).outcome = r.outcome /\ Left(r).mine = FALSE
                      /\ RequestIs(Left(r)) /\ (r.mine = FALSE => Left(r) = r)
    OBVIOUS
  <2>1. RequestIs(r)
    BY DEF FieldsAreKnown
  <2>2. Left(r) = [kind |-> r.kind, home |-> r.home, text |-> r.text, mine |-> FALSE, outcome |-> r.outcome]
    <3>1. r = [kind |-> r.kind, home |-> r.home, text |-> r.text, mine |-> r.mine, outcome |-> r.outcome]
      BY <2>1 DEF RequestIs
    <3>2. Left(r) = [r EXCEPT !.mine = FALSE]
      BY DEF Left
    <3> QED BY <3>1, <3>2
  <2>3. RequestIs(Left(r))
    BY <2>1, <2>2 DEF RequestIs
  <2>4. r.mine = FALSE => Left(r) = r
    BY <2>1, <2>2 DEF RequestIs
  <2> QED BY <2>2, <2>3, <2>4
<1>3. /\ IsFiniteSet(sending')
      /\ \A t : IsFiniteSet(UnnotedPosts(t)) /\ Cardinality(UnnotedPosts(t)) \in Nat
  <2>1. IsFiniteSet(sending)
    BY DEF FieldsAreKnown
  <2>2. IsFiniteSet({Left(r) : r \in sending})
    <3>1. [r \in sending |-> Left(r)] \in Surjection(sending, {Left(r) : r \in sending})
      BY DEF Surjection
    <3> QED BY <2>1, <3>1, FS_Surjection
  <2>3. \A t : UnnotedPosts(t) \subseteq sending
    BY DEF UnnotedPosts
  <2> QED BY <1>1, <2>1, <2>2, <2>3, FS_Subset, FS_CardinalityType
<1>4. \A t \in 1..MaxTexts : unnoted[t] \in Nat /\ unnoted'[t] \in Nat /\ unnoted'[t] >= unnoted[t]
  BY <1>1, <1>3 DEF FieldsAreKnown
<1>5. FieldsAreKnown'
  <2>1. \A r \in sending' : RequestIs(r)'
    BY <1>1, <1>2 DEF RequestIs
  <2>2. (\A h \in HomeIds : RowIs(homes[h]))'
    BY <1>1 DEF FieldsAreKnown, RowIs
  <2>3. unnoted' \in [1..MaxTexts -> Nat]
    BY <1>1, <1>4
  <2> QED BY <1>1, <1>3, <2>1, <2>2, <2>3 DEF FieldsAreKnown, Blank0
<1>6. ClosedIsBlank' /\ OneIsMine'
  BY <1>1, <1>2 DEF ClosedIsBlank, OneIsMine
<1>7. ASSUME NEW t \in 1..MaxTexts, t \notin mixed' PROVE CountedFor(t)'
  <2>1. CountedFor(t) /\ IsFiniteSet(sending)
    BY <1>1, <1>7 DEF FieldsAreKnown, Counted
  <2>2. t # 0 /\ 0 \notin HomeIds /\ form'.home = 0 /\ form'.text = 0
    BY <1>1 DEF HomeIds, Blank0
  <2>3. Reached(t)' \subseteq Reached(t)
    BY <1>1, <1>2, <2>2 DEF Reached
  <2>4. ~Posted(t, "none")' /\ ~Posted(t, "done")'
    BY <1>1, <1>2 DEF Posted
  <2>5. MakesNew(t)' => drafted.home = 0 /\ drafted.text = t
    BY <1>1, <2>2, <2>4 DEF MakesNew
  <2>6. CASE \E r \in sending : r.mine /\ r.kind = "post" /\ r.text = t /\ r.outcome # "refused"
    <3>1. PICK r \in sending : r.mine /\ r.kind = "post" /\ r.text = t /\ r.outcome # "refused"
      BY <2>6
    <3>2. r \in UnnotedPosts(t)
      BY <3>1 DEF UnnotedPosts
    <3>3. Cardinality(UnnotedPosts(t)) >= 1
      BY <1>3, <3>2, FS_EmptySet
    <3>4. unnoted'[t] >= unnoted[t] + 1
      BY <1>1, <1>3, <1>4, <3>3
    <3>5. \A q \in sending : q.mine => q = r
      BY <3>1 DEF OneIsMine
    <3>6. LeftPosts(t)' \subseteq LeftPosts(t) \cup {Left(r)}
      <4> SUFFICES ASSUME NEW q \in sending, Left(q) \in LeftPosts(t)', q # r PROVE Left(q) \in LeftPosts(t)
        BY <1>1 DEF LeftPosts
      <4>1. q.mine = FALSE
        BY <3>5 DEF FieldsAreKnown, RequestIs
      <4> QED BY <1>2, <4>1 DEF LeftPosts
    <3>7. LeftPosts(t)' \subseteq LeftPosts(t) \/ MakesNew(t)
      <4>1. CASE r.outcome = "none"
        BY <3>1, <4>1 DEF MakesNew, Posted
      <4>2. CASE r.outcome # "none"
        BY <1>2, <3>6, <4>2 DEF LeftPosts
      <4> QED BY <4>1, <4>2
    <3> QED BY <1>4, <2>1, <2>3, <3>4, <3>6, <3>7, OneIsUnnoted
  <2>7. CASE ~\E r \in sending : r.mine /\ r.kind = "post" /\ r.text = t /\ r.outcome # "refused"
    <3>1. LeftPosts(t)' \subseteq LeftPosts(t)
      <4> SUFFICES ASSUME NEW q \in sending, Left(q) \in LeftPosts(t)' PROVE Left(q) \in LeftPosts(t)
        BY <1>1 DEF LeftPosts
      <4>1. q.mine = FALSE
        BY <1>2, <2>7 DEF FieldsAreKnown, RequestIs, LeftPosts
      <4> QED BY <1>2, <4>1 DEF LeftPosts
    <3>2. ~Posted(t, "done")
      BY <2>7 DEF Posted
    <3>3. CASE form.home # 0 /\ form.text = t /\ drafted.text = t /\ drafted.home = 0
      <4>1. unnoted'[t] >= unnoted[t] + 1
        BY <1>1, <1>3, <1>4, <3>3
      <4>2. LeftPosts(t)' \subseteq LeftPosts(t) \cup {0}
        BY <3>1
      <4> QED BY <1>4, <2>1, <2>3, <3>1, <4>1, <4>2, OneIsUnnoted
    <3>4. CASE ~(form.home # 0 /\ form.text = t /\ drafted.text = t /\ drafted.home = 0)
      <4>1. MakesNew(t)' => MakesNew(t)
        BY <2>5, <3>2, <3>4 DEF MakesNew
      <4> QED BY <1>4, <2>1, <2>3, <3>1, <4>1, StillCounted
    <3> QED BY <3>3, <3>4
  <2> QED BY <2>6, <2>7
<1> QED BY <1>5, <1>6, <1>7 DEF Counted

(* The page sends a request: for its home, or to make one of its text. *)
LEMMA RequestIsSent == ASSUME HomeFormInv, SaveHome \/ DropMedia \/ SubmitHome PROVE HomeFormInv'
<1> USE DEF HomeFormInv
<1>1. PICK kind \in {"post", "patch", "drop", "submit"} :
        /\ RequestHome(kind)
        /\ UNCHANGED <<homes, form, drafted, texts, unnoted, mixed, window, asked>> /\ window = "open"
        /\ kind = "post" => form.home = 0 /\ form.text # 0
        /\ kind = "patch" => form.home # 0
  <2>1. CASE SaveHome
    BY <2>1 DEF SaveHome, Shown0, tabVars
  <2>2. CASE DropMedia
    BY <2>2 DEF DropMedia, Shown0, tabVars
  <2>3. CASE SubmitHome
    BY <2>3 DEF SubmitHome, Shown0, tabVars
  <2> QED BY <2>1, <2>2, <2>3
<1> DEFINE new == [kind |-> kind, home |-> form.home, text |-> form.text, mine |-> TRUE, outcome |-> "none"]
<1>2. ~HomeBusy /\ sending' = sending \cup {new}
  BY <1>1 DEF RequestHome
<1>3. RequestIs(new) /\ new.mine = TRUE /\ new.kind = kind /\ new.home = form.home /\ new.text = form.text /\ new.outcome = "none"
  BY <1>1 DEF RequestIs, FieldsAreKnown
<1> HIDE DEF new
<1>4. \A r \in sending : ~r.mine
  BY <1>2 DEF HomeBusy
<1>5. FieldsAreKnown'
  <2>1. IsFiniteSet(sending')
    BY <1>2, FS_AddElement DEF FieldsAreKnown
  <2>2. \A r \in sending : RequestIs(r)'
    BY <1>1 DEF FieldsAreKnown, RequestIs
  <2>3. (\A h \in HomeIds : RowIs(homes[h]))'
    BY <1>1 DEF FieldsAreKnown, RowIs
  <2>4. \A r \in sending' : RequestIs(r)'
    BY <1>1, <1>2, <1>3, <2>2 DEF RequestIs
  <2> QED BY <1>1, <2>1, <2>3, <2>4 DEF FieldsAreKnown
<1>6. ClosedIsBlank' /\ OneIsMine'
  BY <1>1, <1>2, <1>3, <1>4 DEF ClosedIsBlank, OneIsMine
<1>7. ASSUME NEW t \in 1..MaxTexts, t \notin mixed' PROVE CountedFor(t)'
  <2>1. CountedFor(t) /\ IsFiniteSet(sending) /\ unnoted[t] \in Nat /\ unnoted'[t] = unnoted[t]
    BY <1>1, <1>7 DEF FieldsAreKnown, Counted
  <2>2. t # 0 /\ 0 \notin HomeIds
    BY DEF HomeIds
  <2>3. LeftPosts(t)' \subseteq LeftPosts(t)
    BY <1>2, <1>3 DEF LeftPosts
  <2>4. Reached(t)' \subseteq Reached(t)
    BY <1>1, <1>2, <1>3 DEF Reached
  <2>5. ~Posted(t, "none") /\ ~Posted(t, "done") /\ ~Posted(t, "done")' /\ (Posted(t, "none")' => kind = "post" /\ form.text = t)
    BY <1>2, <1>3, <1>4 DEF Posted
  <2>6. MakesNew(t)' => MakesNew(t)
    BY <1>1, <2>5 DEF MakesNew
  <2> QED BY <2>1, <2>3, <2>4, <2>6, StillCounted
<1> QED BY <1>5, <1>6, <1>7 DEF Counted

(* A request that was served, for which a row was written. *)
Served(r, id) == [r EXCEPT !.outcome = "done", !.home = id]

(* The fields of a request that was served.                                  *)
LEMMA ServedFields ==
  ASSUME HomeFormInv, NEW r \in sending, NEW id
  PROVE  /\ Served(r, id).kind = r.kind /\ Served(r, id).home = id /\ Served(r, id).text = r.text
         /\ Served(r, id).mine = r.mine /\ Served(r, id).outcome = "done"
         /\ (r.kind = "post" => id \in HomeIds) => RequestIs(Served(r, id))
<1>1. RequestIs(r)
  BY DEF HomeFormInv, FieldsAreKnown
<1>2. Served(r, id) = [kind |-> r.kind, home |-> id, text |-> r.text, mine |-> r.mine, outcome |-> "done"]
  <2>1. r = [kind |-> r.kind, home |-> r.home, text |-> r.text, mine |-> r.mine, outcome |-> r.outcome]
    BY <1>1 DEF RequestIs
  <2>2. Served(r, id) = [r EXCEPT !.outcome = "done", !.home = id]
    BY DEF Served
  <2> QED BY <2>1, <2>2
<1> QED BY <1>1, <1>2 DEF RequestIs

(* What a row that is written and its answer leave in order. *)
LEMMA RowIsStored ==
  ASSUME HomeFormInv, NEW r \in sending, NEW id, NEW row, RowStored(r, id, row), id \in HomeIds => RowIs(row),
         r.kind = "post" => id \in HomeIds, id \in HomeIds /\ homes[id].status # "none" => row.status # "none",
         UNCHANGED <<form, drafted, texts, unnoted, window, asked>>
  PROVE  FieldsAreKnown' /\ ClosedIsBlank' /\ OneIsMine'
<1> USE DEF HomeFormInv
<1>1. /\ homes' = [homes EXCEPT ![id] = row]
      /\ sending' = (sending \ {r}) \cup {Served(r, id)}
  BY DEF RowStored, Served
<1>2. /\ Served(r, id).kind = r.kind /\ Served(r, id).home = id /\ Served(r, id).text = r.text
      /\ Served(r, id).mine = r.mine /\ Served(r, id).outcome = "done"
      /\ RequestIs(Served(r, id))
  BY ServedFields
<1>3. FieldsAreKnown'
  <2>1. IsFiniteSet(sending')
    <3>1. IsFiniteSet(sending \ {r})
      BY FS_Subset DEF FieldsAreKnown
    <3> QED BY <1>1, <3>1, FS_AddElement
  <2>2. \A q \in sending' : RequestIs(q)'
    BY <1>1, <1>2 DEF FieldsAreKnown, RequestIs
  <2>3. homes' = [h \in HomeIds |-> homes'[h]]
    BY <1>1 DEF FieldsAreKnown
  <2>4. \A h \in HomeIds : RowIs(homes'[h])
    BY <1>1 DEF FieldsAreKnown
  <2>5. (\A h \in HomeIds : RowIs(homes[h]))'
    BY <2>4 DEF RowIs
  <2> QED BY <2>1, <2>2, <2>3, <2>5 DEF FieldsAreKnown
<1>4. ClosedIsBlank'
  BY <1>1 DEF ClosedIsBlank, FieldsAreKnown
<1>5. OneIsMine'
  <2>1. \A q \in sending' : q.mine => window = "open"
    BY <1>1, <1>2 DEF OneIsMine
  <2>2. \A p, q \in sending' : p.mine /\ q.mine => p = q
    BY <1>1, <1>2 DEF OneIsMine
  <2>3. \A q \in sending' : q.mine /\ q.kind = "post" /\ form.text # q.text => drafted.text # q.text
    BY <1>1, <1>2 DEF OneIsMine
  <2> QED BY <2>1, <2>2, <2>3 DEF OneIsMine
<1> QED BY <1>3, <1>4, <1>5

(* A new row has its text and is a draft. *)
DraftRow(n) == [NoHome EXCEPT !.text = n, !.status = "draft"]

(* The fields of a new row.                                                  *)
LEMMA DraftRowFields ==
  ASSUME NEW n
  PROVE  /\ DraftRow(n) = [text |-> DraftRow(n).text, status |-> DraftRow(n).status,
                          photos |-> DraftRow(n).photos, video |-> DraftRow(n).video]
         /\ DraftRow(n).text = n /\ DraftRow(n).status = "draft"
<1> DEFINE row == [NoHome EXCEPT !.text = n]
<1>1. DraftRow(n) = [row EXCEPT !.status = "draft"]
  BY DEF DraftRow
<1>2. NoHome = [text |-> NoHome.text, status |-> NoHome.status, photos |-> NoHome.photos, video |-> NoHome.video]
  BY DEF NoHome
<1>3. row = [text |-> n, status |-> NoHome.status, photos |-> NoHome.photos, video |-> NoHome.video]
  BY <1>2
<1> HIDE DEF row
<1> QED BY <1>1, <1>3

(* A new row: the home that was going to be made. *)
LEMMA HomeIsCreated == ASSUME HomeFormInv, NEW r \in sending, CreateServed(r) PROVE HomeFormInv'
<1> USE DEF HomeFormInv
<1> DEFINE row == DraftRow(r.text)
<1>1. /\ r.kind = "post" /\ r.outcome = "none"
      /\ UNCHANGED <<form, drafted, texts, unnoted, mixed, window, asked>>
  BY DEF CreateServed, tabVars
<1>2. PICK id \in HomeIds : RowStored(r, id, row) /\ homes[id].status = "none"
  BY DEF CreateServed, DraftRow
<1>3. RowIs(row) /\ row.text = r.text /\ row.status = "draft"
  <2>1. r.text \in 0..texts
    BY DEF FieldsAreKnown, RequestIs
  <2> QED BY <2>1, DraftRowFields DEF RowIs
<1>4. row.text = r.text /\ row.status = "draft"
  BY <1>3
<1>5. /\ homes' = [homes EXCEPT ![id] = row]
      /\ sending' = (sending \ {r}) \cup {Served(r, id)}
  BY <1>2 DEF RowStored, Served
<1> HIDE DEF row
<1>6. FieldsAreKnown' /\ ClosedIsBlank' /\ OneIsMine'
  BY <1>1, <1>2, <1>3, RowIsStored
<1>7. /\ Served(r, id).kind = "post" /\ Served(r, id).home = id /\ Served(r, id).text = r.text
      /\ Served(r, id).mine = r.mine /\ Served(r, id).outcome = "done"
  BY <1>1, ServedFields
<1>8. \A h \in HomeIds : homes'[h] = IF h = id THEN row ELSE homes[h]
  BY <1>5 DEF FieldsAreKnown
<1>9. ASSUME NEW t \in 1..MaxTexts, t \notin mixed' PROVE CountedFor(t)'
  <2>1. CountedFor(t) /\ IsFiniteSet(sending) /\ unnoted[t] \in Nat /\ unnoted'[t] = unnoted[t]
    BY <1>1, <1>9 DEF FieldsAreKnown, Counted
  <2>2. /\ Reached(t)' \subseteq Reached(t) \cup {id}
        /\ r.text # t => Reached(t)' \subseteq Reached(t)
    BY <1>1, <1>4, <1>5, <1>7, <1>8 DEF Reached
  <2>3. LeftPosts(t)' \subseteq LeftPosts(t) /\ r \notin LeftPosts(t)'
    BY <1>5, <1>7 DEF LeftPosts
  <2>4. CASE r.text # t
    <3>1. (Posted(t, "none")' <=> Posted(t, "none")) /\ (Posted(t, "done")' <=> Posted(t, "done"))
      BY <1>5, <1>7, <2>4 DEF Posted
    <3>2. MakesNew(t)' => MakesNew(t)
      BY <1>1, <3>1 DEF MakesNew
    <3> QED BY <2>1, <2>2, <2>3, <2>4, <3>2, StillCounted
  <2>5. CASE r.text = t /\ r.mine
    <3>1. Posted(t, "none") /\ Posted(t, "done")' /\ ~Posted(t, "none")'
      BY <1>1, <1>5, <1>7, <2>5 DEF Posted, OneIsMine
    <3>2. MakesNew(t) /\ ~MakesNew(t)'
      BY <3>1 DEF MakesNew
    <3> QED BY <2>1, <2>2, <2>3, <3>2, HomeIsMade
  <2>6. CASE r.text = t /\ ~r.mine
    <3>1. (Posted(t, "none")' <=> Posted(t, "none")) /\ (Posted(t, "done")' <=> Posted(t, "done"))
      BY <1>5, <1>7, <2>6 DEF Posted
    <3>2. MakesNew(t)' => MakesNew(t)
      BY <1>1, <3>1 DEF MakesNew
    <3>3. r \in LeftPosts(t)
      BY <1>1, <2>6 DEF LeftPosts
    <3> QED BY <2>1, <2>2, <2>3, <3>2, <3>3, HomeIsMade
  <2> QED BY <2>4, <2>5, <2>6
<1> QED BY <1>1, <1>6, <1>9 DEF Counted

(* A row that is written bears the text that the request was sent with, or   *)
(* keeps its own.                                                            *)
LEMMA HomeIsUpdated == ASSUME HomeFormInv, NEW r \in sending, UpdateServed(r) PROVE HomeFormInv'
<1> USE DEF HomeFormInv
<1>1. /\ r.kind # "post" /\ r.outcome = "none"
      /\ UNCHANGED <<form, drafted, texts, unnoted, mixed, window, asked>>
  BY DEF UpdateServed, tabVars
<1>2. ASSUME sending' = (sending \ {r}) \cup {[r EXCEPT !.outcome = "refused"]}, UNCHANGED homes
      PROVE  HomeFormInv'
  <2> DEFINE q == [r EXCEPT !.outcome = "refused"]
  <2>1. q = [kind |-> r.kind, home |-> r.home, text |-> r.text, mine |-> r.mine, outcome |-> "refused"]
    <3>1. r = [kind |-> r.kind, home |-> r.home, text |-> r.text, mine |-> r.mine, outcome |-> r.outcome]
      BY DEF FieldsAreKnown, RequestIs
    <3> QED BY <3>1
  <2>2. /\ q.kind = r.kind /\ q.home = r.home /\ q.text = r.text /\ q.mine = r.mine /\ q.outcome = "refused"
        /\ sending' = (sending \ {r}) \cup {q}
    BY <1>2, <2>1
  <2>3. RequestIs(q)
    BY <1>1, <2>1 DEF FieldsAreKnown, RequestIs
  <2> HIDE DEF q
  <2>4. FieldsAreKnown'
    <3>1. IsFiniteSet(sending')
      <4>1. IsFiniteSet(sending \ {r})
        BY FS_Subset DEF FieldsAreKnown
      <4> QED BY <2>2, <4>1, FS_AddElement
    <3>2. \A p \in sending' : RequestIs(p)'
      BY <1>1, <2>2, <2>3 DEF FieldsAreKnown, RequestIs
    <3>3. (\A h \in HomeIds : RowIs(homes[h]))'
      BY <1>1, <1>2 DEF FieldsAreKnown, RowIs
    <3> QED BY <1>1, <1>2, <3>1, <3>2, <3>3 DEF FieldsAreKnown
  <2>5. ClosedIsBlank' /\ OneIsMine'
    <3>1. ClosedIsBlank'
      BY <1>1, <1>2 DEF ClosedIsBlank
    <3>2. \A p \in sending' : p.mine => window = "open"
      BY <2>2 DEF OneIsMine
    <3>3. \A p, s \in sending' : p.mine /\ s.mine => p = s
      BY <2>2 DEF OneIsMine
    <3>4. \A p \in sending' : p.mine /\ p.kind = "post" /\ form.text # p.text => drafted.text # p.text
      BY <2>2 DEF OneIsMine
    <3> QED BY <1>1, <3>1, <3>2, <3>3, <3>4 DEF OneIsMine
  <2>6. ASSUME NEW t \in 1..MaxTexts, t \notin mixed' PROVE CountedFor(t)'
    <3>1. CountedFor(t) /\ IsFiniteSet(sending) /\ unnoted[t] \in Nat /\ unnoted'[t] = unnoted[t]
      BY <1>1, <2>6 DEF FieldsAreKnown, Counted
    <3>2. Reached(t)' \subseteq Reached(t)
      BY <1>1, <1>2, <2>2 DEF Reached
    <3>3. LeftPosts(t)' \subseteq LeftPosts(t)
      BY <2>2 DEF LeftPosts
    <3>4. (Posted(t, "none")' <=> Posted(t, "none")) /\ (Posted(t, "done")' <=> Posted(t, "done"))
      BY <1>1, <2>2 DEF Posted
    <3>5. MakesNew(t)' => MakesNew(t)
      BY <1>1, <3>4 DEF MakesNew
    <3> QED BY <3>1, <3>2, <3>3, <3>5, StillCounted
  <2> QED BY <1>1, <2>4, <2>5, <2>6 DEF Counted
<1>3. ASSUME NEW row, RowStored(r, r.home, row),
             r.home \in HomeIds => /\ RowIs(row)
                                   /\ row.status = "none" <=> homes[r.home].status = "none"
                                   /\ row.text = homes[r.home].text \/ (r.kind = "patch" /\ row.text = r.text)
      PROVE  HomeFormInv'
  <2>1. /\ homes' = [homes EXCEPT ![r.home] = row]
        /\ sending' = (sending \ {r}) \cup {Served(r, r.home)}
    BY <1>3 DEF RowStored, Served
  <2>2. FieldsAreKnown' /\ ClosedIsBlank' /\ OneIsMine'
    BY <1>1, <1>3, RowIsStored
  <2>3. /\ Served(r, r.home).kind = r.kind /\ Served(r, r.home).home = r.home /\ Served(r, r.home).text = r.text
        /\ Served(r, r.home).mine = r.mine /\ Served(r, r.home).outcome = "done"
    BY ServedFields
  <2>4. \A h \in HomeIds : homes'[h] = IF h = r.home THEN row ELSE homes[h]
    BY <2>1 DEF FieldsAreKnown
  <2>5. ASSUME NEW t \in 1..MaxTexts, t \notin mixed' PROVE CountedFor(t)'
    <3>1. CountedFor(t) /\ IsFiniteSet(sending) /\ unnoted[t] \in Nat /\ unnoted'[t] = unnoted[t]
      BY <1>1, <2>5 DEF FieldsAreKnown, Counted
    <3>2. Reached(t)' \subseteq Reached(t)
      <4> SUFFICES ASSUME NEW h \in Reached(t)' PROVE h \in Reached(t)
        OBVIOUS
      <4>1. CASE homes'[h].status # "none" /\ homes'[h].text = t
        BY <1>1, <1>3, <2>4, <4>1 DEF Reached
      <4>2. CASE ~(homes'[h].status # "none" /\ homes'[h].text = t)
        BY <1>1, <2>1, <2>3, <4>2 DEF Reached
      <4> QED BY <4>1, <4>2
    <3>3. LeftPosts(t)' \subseteq LeftPosts(t)
      BY <2>1, <2>3 DEF LeftPosts
    <3>4. (Posted(t, "none")' <=> Posted(t, "none")) /\ (Posted(t, "done")' <=> Posted(t, "done"))
      BY <1>1, <2>1, <2>3 DEF Posted
    <3>5. MakesNew(t)' => MakesNew(t)
      BY <1>1, <3>4 DEF MakesNew
    <3> QED BY <3>1, <3>2, <3>3, <3>5, StillCounted
  <2> QED BY <1>1, <2>2, <2>5 DEF Counted
<1> DEFINE old == homes[r.home]
<1>4. r.home \in HomeIds =>
        old = [text |-> old.text, status |-> old.status, photos |-> old.photos, video |-> old.video] /\ RowIs(old)
  BY DEF FieldsAreKnown, RowIs
<1>5. ASSUME r.kind = "drop" PROVE HomeFormInv'
  <2>1. PICK row : /\ row \in {[old EXCEPT !.photos = IF old.photos > 0 THEN old.photos - 1 ELSE 0],
                               [old EXCEPT !.video = FALSE]}
                   /\ RowStored(r, r.home, row)
    BY <1>5 DEF UpdateServed
  <2>2. r.home \in HomeIds => row.text = old.text /\ row.status = old.status /\ RowIs(row)
    BY <1>4, <2>1 DEF RowIs
  <2> QED BY <1>3, <2>1, <2>2
<1>6. ASSUME r.kind # "drop", old.status \in Editable,
             RowStored(r, r.home, IF r.kind = "submit" THEN [old EXCEPT !.status = "submitted"]
                                                       ELSE [old EXCEPT !.text = r.text])
      PROVE  HomeFormInv'
  <2>1. old.status # "none"
    BY <1>6 DEF Editable
  <2>2. CASE r.kind = "submit"
    <3> DEFINE row == [old EXCEPT !.status = "submitted"]
    <3>1. r.home \in HomeIds => row.text = old.text /\ row.status = "submitted" /\ RowIs(row)
      BY <1>4 DEF RowIs
    <3>2. RowStored(r, r.home, row)
      BY <1>6, <2>2
    <3> HIDE DEF row
    <3> QED BY <1>3, <2>1, <3>1, <3>2
  <2>3. CASE r.kind = "patch"
    <3> DEFINE row == [old EXCEPT !.text = r.text]
    <3>1. r.text \in 0..texts
      BY DEF FieldsAreKnown, RequestIs
    <3>2. r.home \in HomeIds => row.text = r.text /\ row.status = old.status /\ RowIs(row)
      BY <1>4, <3>1 DEF RowIs
    <3>3. RowStored(r, r.home, row)
      BY <1>6, <2>3
    <3> HIDE DEF row
    <3> QED BY <1>3, <2>1, <2>3, <3>2, <3>3
  <2>4. r.kind \in {"post", "patch", "submit", "drop"}
    BY DEF FieldsAreKnown, RequestIs
  <2> QED BY <1>1, <1>6, <2>2, <2>3, <2>4
<1> QED BY <1>2, <1>5, <1>6 DEF UpdateServed

(* A page that is told of its home, by an answer or a read. *)
LEMMA HomeIsTold ==
  ASSUME HomeFormInv, NEW id, NEW f, Edited([f EXCEPT !.home = id]), BelongsTo(id), sending' \subseteq sending,
         f.text = form.text,
         f = [home |-> f.home, text |-> f.text, step |-> f.step, reviewing |-> f.reviewing],
         \A r \in sending : r \notin sending' /\ r.mine /\ r.kind = "post" => r.outcome = "done" /\ r.home = id,
         drafted' \in {drafted, NoLocal}, UNCHANGED <<homes, texts, unnoted, window, asked>>, window = "open"
  PROVE  HomeFormInv'
<1> USE DEF HomeFormInv
<1>1. form' = [f EXCEPT !.home = id]
  BY DEF Edited
<1>2. /\ form' = [home |-> form'.home, text |-> form'.text, step |-> form'.step, reviewing |-> form'.reviewing]
      /\ form'.home = id /\ form'.text = form.text
  BY <1>1
<1>3. FieldsAreKnown' /\ OneIsMine'
  <2>1. /\ \A h \in HomeIds : RowIs(homes'[h])
        /\ unnoted' \in [1..MaxTexts -> Nat] /\ homes' = [h \in HomeIds |-> homes'[h]]
    BY DEF FieldsAreKnown
  <2> QED BY <1>2, <2>1, FieldsStay
<1>4. ClosedIsBlank'
  BY DEF ClosedIsBlank
<1>5. Counted'
  BY <1>2, HomeComes
<1> QED BY <1>3, <1>4, <1>5

(* The home is read again after an upload, or by hand.                       *)
LEMMA HomeIsRead ==
  ASSUME HomeFormInv, MediaRefreshed \/ UploadGivenUp \/ RefreshMedia PROVE HomeFormInv'
<1> USE DEF HomeFormInv
<1>1. form = [home |-> form.home, text |-> form.text, step |-> form.step, reviewing |-> form.reviewing]
  BY DEF FieldsAreKnown
<1>2. UNCHANGED <<homes, drafted, sending, texts, unnoted, window, asked>> /\ window = "open"
  BY DEF MediaRefreshed, UploadGivenUp, RefreshMedia, fileOthers, tabVars, FileAt, Shown0
<1>3. ASSUME NEW id, HomeRead(id) PROVE HomeFormInv'
  BY <1>1, <1>2, <1>3, HomeIsTold DEF HomeRead
<1>4. ASSUME UNCHANGED pageOfFile PROVE HomeFormInv'
  <2>1. UNCHANGED <<form, mixed>>
    BY <1>4 DEF pageOfFile
  <2> QED BY <1>1, <1>2, <2>1, PageMoves DEF ClosedIsBlank
<1> QED BY <1>3, <1>4 DEF MediaRefreshed, UploadGivenUp, RefreshMedia

(* The answer of a request arrives. *)
LEMMA AnswerHasCome ==
  ASSUME HomeFormInv, NEW r \in sending, SaveAnswered(r) \/ DropAnswered(r) \/ SubmitAnswered(r) PROVE HomeFormInv'
<1> USE DEF HomeFormInv
<1>1. form = [home |-> form.home, text |-> form.text, step |-> form.step, reviewing |-> form.reviewing]
  BY DEF FieldsAreKnown
<1>2. /\ UNCHANGED <<homes, texts, unnoted, window, asked>>
      /\ sending' = sending \ {r} /\ r.mine /\ r.outcome = "done" /\ drafted' \in {drafted, NoLocal}
  BY DEF SaveAnswered, DropAnswered, SubmitAnswered, HomeRead, tabVars
<1>3. window = "open"
  BY <1>2 DEF OneIsMine
<1>4. \A q \in sending : q \notin sending' => q = r
  BY <1>2
<1>5. CASE SaveAnswered(r)
  <2> DEFINE f == [form EXCEPT !.step = 3]
  <2>1. BelongsTo(r.home) /\ Edited([form EXCEPT !.home = r.home, !.step = 3])
    BY <1>5 DEF SaveAnswered
  <2>2. [form EXCEPT !.home = r.home, !.step = 3] = [f EXCEPT !.home = r.home]
    BY <1>1
  <2>3. f.text = form.text /\ f = [home |-> f.home, text |-> f.text, step |-> f.step, reviewing |-> f.reviewing]
    BY <1>1
  <2>4. Edited([f EXCEPT !.home = r.home])
    BY <2>1, <2>2
  <2> HIDE DEF f
  <2> QED BY <1>2, <1>3, <1>4, <2>1, <2>3, <2>4, HomeIsTold
<1>6. CASE DropAnswered(r)
  BY <1>1, <1>2, <1>3, <1>4, <1>6, HomeIsTold DEF DropAnswered, HomeRead
<1>7. CASE SubmitAnswered(r)
  <2> DEFINE f == [form EXCEPT !.step = 4, !.reviewing = FALSE]
  <2>1. f.home = form.home /\ f.text = form.text
        /\ f = [home |-> f.home, text |-> f.text, step |-> f.step, reviewing |-> f.reviewing]
    <3> DEFINE g == [form EXCEPT !.step = 4]
    <3>1. g.home = form.home /\ g.text = form.text
          /\ g = [home |-> g.home, text |-> g.text, step |-> g.step, reviewing |-> g.reviewing]
      BY <1>1
    <3>2. f = [g EXCEPT !.reviewing = FALSE]
      OBVIOUS
    <3> HIDE DEF f, g
    <3> QED BY <3>1, <3>2
  <2>2. \/ Edited([f EXCEPT !.home = r.home]) /\ BelongsTo(r.home)
        \/ Edited(f) /\ UNCHANGED mixed
    BY <1>7, Zenon DEF SubmitAnswered
  <2>3. r.kind = "submit"
    BY <1>7 DEF SubmitAnswered
  <2> HIDE DEF f
  <2>4. CASE Edited([f EXCEPT !.home = r.home]) /\ BelongsTo(r.home)
    BY <1>2, <1>3, <1>4, <2>1, <2>3, <2>4, HomeIsTold
  <2>5. CASE Edited(f) /\ UNCHANGED mixed
    <3>1. form' = f
      BY <2>5 DEF Edited
    <3>2. FieldsAreKnown' /\ OneIsMine'
      <4>1. /\ \A h \in HomeIds : RowIs(homes'[h])
            /\ unnoted' \in [1..MaxTexts -> Nat] /\ homes' = [h \in HomeIds |-> homes'[h]]
        BY <1>2 DEF FieldsAreKnown
      <4> QED BY <1>2, <2>1, <3>1, <4>1, FieldsStay
    <3>3. ClosedIsBlank'
      BY <1>2, <1>3 DEF ClosedIsBlank
    <3>4. Counted'
      BY <1>2, <1>4, <2>1, <2>3, <2>5, <3>1, HomeStays
    <3> QED BY <3>2, <3>3, <3>4
  <2> QED BY <2>2, <2>4, <2>5
<1> QED BY <1>5, <1>6, <1>7

(* A request fails: a home may have been made that nobody knows of. *)
LEMMA RequestHasFailed == ASSUME HomeFormInv, NEW r \in sending, HomeRequestFails(r) PROVE HomeFormInv'
<1> USE DEF HomeFormInv
<1>1. /\ UNCHANGED <<homes, form, drafted, texts, mixed, window, asked>> /\ sending' = sending \ {r}
      /\ unnoted' = IF r.mine /\ r.kind = "post" /\ r.outcome = "done"
                    THEN [unnoted EXCEPT ![r.text] = unnoted[r.text] + 1] ELSE unnoted
  BY DEF HomeRequestFails, tabVars
<1>2. unnoted' \in [1..MaxTexts -> Nat]
  <2>1. unnoted \in [1..MaxTexts -> Nat]
    BY DEF FieldsAreKnown
  <2>2. CASE unnoted' = [unnoted EXCEPT ![r.text] = unnoted[r.text] + 1]
    <3>1. \A t \in 1..MaxTexts : unnoted'[t] = IF t = r.text THEN unnoted[t] + 1 ELSE unnoted[t]
      BY <2>1, <2>2
    <3>2. unnoted' = [t \in 1..MaxTexts |-> unnoted'[t]]
      BY <2>1, <2>2
    <3> QED BY <2>1, <3>1, <3>2
  <2> QED BY <1>1, <2>1, <2>2
<1>3. FieldsAreKnown' /\ OneIsMine'
  <2>1. /\ \A h \in HomeIds : RowIs(homes'[h]) /\ homes' = [i \in HomeIds |-> homes'[i]]
        /\ form' = [home |-> form'.home, text |-> form'.text, step |-> form'.step, reviewing |-> form'.reviewing]
    BY <1>1 DEF FieldsAreKnown
  <2>2. homes' = [h \in HomeIds |-> homes'[h]]
    BY <1>1 DEF FieldsAreKnown
  <2> QED BY <1>1, <1>2, <2>1, <2>2, FieldsStay
<1>4. ClosedIsBlank'
  BY <1>1 DEF ClosedIsBlank
<1>5. Counted'
  <2>1. CASE ~(r.mine /\ r.kind = "post" /\ r.outcome = "done")
    BY <1>1, <2>1, HomeStays
  <2>2. CASE r.mine /\ r.kind = "post" /\ r.outcome = "done"
    <3> SUFFICES ASSUME NEW t \in 1..MaxTexts, t \notin mixed' PROVE CountedFor(t)'
      BY DEF Counted
    <3>1. CountedFor(t) /\ IsFiniteSet(sending) /\ unnoted[t] \in Nat /\ unnoted'[t] \in Nat
      BY <1>1, <1>2 DEF FieldsAreKnown, Counted
    <3>2. Reached(t)' \subseteq Reached(t)
      BY <1>1 DEF Reached
    <3>3. LeftPosts(t)' \subseteq LeftPosts(t)
      BY <1>1 DEF LeftPosts
    <3>4. CASE t = r.text
      <4>1. unnoted'[t] >= unnoted[t] + 1
        BY <1>1, <2>2, <3>1, <3>4 DEF FieldsAreKnown
      <4>2. LeftPosts(t)' \subseteq LeftPosts(t) \cup {0}
        BY <3>3
      <4> QED BY <3>1, <3>2, <3>3, <4>1, <4>2, OneIsUnnoted
    <3>5. CASE t # r.text
      <4>1. unnoted'[t] = unnoted[t]
        BY <1>1, <2>2, <3>5 DEF FieldsAreKnown
      <4>2. (Posted(t, "none")' <=> Posted(t, "none")) /\ (Posted(t, "done")' <=> Posted(t, "done"))
        BY <1>1, <3>5 DEF Posted
      <4>3. MakesNew(t)' => MakesNew(t)
        BY <1>1, <4>2 DEF MakesNew
      <4> QED BY <3>1, <3>2, <3>3, <4>1, <4>3, StillCounted
    <3> QED BY <3>4, <3>5
  <2> QED BY <2>1, <2>2
<1> QED BY <1>3, <1>4, <1>5

(* Every step keeps the invariant. *)
LEMMA HomeFormStep == ASSUME HomeFormInv, [HomeFormNext]_homeVars PROVE HomeFormInv'
  BY PageIsMoved, RowTurns, FormIsLoaded, DraftIsSet, TextIsNew, FormIsClosed, RequestIsSent, HomeIsCreated,
     HomeIsUpdated, HomeIsRead, AnswerHasCome, RequestHasFailed DEF HomeFormNext

(* Homes that bear a text are among those that are counted.                  *)
LEMMA OneHomeFollows == HomeFormInv => OneHomePerText
<1> SUFFICES ASSUME HomeFormInv, NEW t \in 1..MaxTexts, t \notin mixed PROVE Cardinality(MadeOf(t)) <= 1 + unnoted[t]
  BY DEF OneHomePerText
<1>1. CountedFor(t) /\ IsFiniteSet(sending) /\ unnoted[t] \in Nat
  BY DEF HomeFormInv, FieldsAreKnown, Counted
<1>2. MadeOf(t) \subseteq Reached(t)
  BY DEF MadeOf, Reached
<1>3. /\ Cardinality(MadeOf(t)) <= Cardinality(Reached(t))
      /\ {Cardinality(MadeOf(t)), Cardinality(Reached(t)), Cardinality(LeftPosts(t))} \subseteq Nat
  BY <1>1, <1>2, ReachedIsFinite, NoneMore
<1> QED BY <1>1, <1>3 DEF CountedFor

(* For any numbers of homes, texts, openings and files: what is typed once   *)
(* becomes one home, unless an answer was lost, the page went before its     *)
(* draft had the new row's name, or an answer of another home arrived        *)
(* (homes/new/page.tsx saveListing, the draft's rules).                      *)
THEOREM TextsBecomeOneHome == HomeFormSpec => []OneHomePerText
  BY HomesBegin, HomeFormStep, OneHomeFollows, PTL DEF HomeFormSpec

-----------------------------------------------------------------------------
(* Settings.                                                                 *)

(* What may be saved.                                                        *)
Kinds == {"name", "picture", "password"}

(* A save has its fields; only passwords are verified or refused.            *)
SaveIsTyped(s) ==
  /\ s = [number |-> s.number, kind |-> s.kind, phase |-> s.phase, here |-> s.here, heard |-> s.heard,
          shown |-> s.shown, old |-> s.old, got |-> s.got]
  /\ s.number \in Values /\ s.kind \in Kinds
  /\ s.phase \in {"verified", "refused"} => s.kind = "password"

(* The row, the counts and the calls keep to their types.                    *)
SettingsAreTyped ==
  /\ users \in User /\ saved \in 0..MaxSaves /\ elsewhere \in 0..MaxElsewhere
  /\ own = [value |-> own.value, fresh |-> own.fresh]
  /\ \A s \in saves : SaveIsTyped(s)
  /\ \A l \in fetches : l = [number |-> l.number, got |-> l.got]

(* A copy of the row: not newer than it, and the same if it is as new.       *)
IsCopy(a) ==
  a \in Account /\ a.version <= users.version /\ (a.version = users.version => a = Mine(users))

(* A save of a name or a picture whose answer is under way.                  *)
WasServed(s) == s.kind # "password" /\ s.phase = "served"

(* Everything that was read of the row is a copy of it.                      *)
CopiesAreCopies ==
  /\ own.value # NoAccount => IsCopy(own.value)
  /\ \A l \in fetches : l.got # NoAccount => IsCopy(l.got)
  /\ \A s \in saves : WasServed(s) => IsCopy(s.got)

(* The page shows the cached copy. *)
PageShowsCopy == (account # NoAccount => account = own.value) /\ (page = "away" => account = NoAccount)

(* The answer that brings the row as it is now is under way.                 *)
NewsComes == \E s \in saves : WasServed(s) /\ s.got.version = users.version
(* The cached copy is the newest.                                            *)
IsKnown == own.value # NoAccount /\ own.value.version = users.version

(* Unless it is, or the account is in doubt, the cached copy is as new as    *)
(* the row, and so is whatever comes before that is known.                   *)
CopyIsKnown ==
  "account" \notin unsure /\ ~NewsComes =>
    /\ own.value # NoAccount => IsKnown
    /\ \A l \in fetches : l.got # NoAccount => IsKnown \/ l.got.version = users.version
    /\ \A s \in saves : WasServed(s) /\ s.heard => IsKnown

(* A password that was written is believed, or its answer is under way.      *)
PasswordIsKnown ==
  "password" \notin unsure =>
    \/ users.password = believed
    \/ \E s \in saves : s.kind = "password" /\ s.phase = "served" /\ s.number = users.password

(* The inductive invariant.                                                  *)
SettingsInv == SettingsAreTyped /\ CopiesAreCopies /\ PageShowsCopy /\ CopyIsKnown /\ PasswordIsKnown

-----------------------------------------------------------------------------
(* The invariant holds at first.                                             *)
LEMMA SettingsBegin == SettingsInit => SettingsInv
<1> SUFFICES ASSUME SettingsInit PROVE SettingsInv
  OBVIOUS
<1>1. 0 \in Values /\ 0 \in 0..MaxSaves /\ 0 \in 0..MaxElsewhere
  BY SettingsAssumption DEF Values
<1>2. SettingsAreTyped
  BY <1>1 DEF SettingsInit, SettingsAreTyped, User
<1>3. CopiesAreCopies /\ PageShowsCopy /\ CopyIsKnown /\ PasswordIsKnown
  BY DEF SettingsInit, CopiesAreCopies, PageShowsCopy, CopyIsKnown, PasswordIsKnown
<1> QED BY <1>2, <1>3 DEF SettingsInv

(* What the page shows of the row is an account. *)
LEMMA MineIsCopy == SettingsInv => Mine(users) \in Account /\ IsCopy(Mine(users)) /\ Mine(users).version = users.version
  BY DEF SettingsInv, SettingsAreTyped, User, Mine, Account, IsCopy

(* A save that is the same but for who waits for it.                         *)
SameSave(s, t) == s.kind = t.kind /\ s.phase = t.phase /\ s.got = t.got /\ s.number = t.number

(* The row stays as it is, and nothing new comes of it.                      *)
LEMMA RowStays ==
  ASSUME SettingsInv, UNCHANGED <<users, believed, unsure>>, SettingsAreTyped', PageShowsCopy',
         \A s \in saves' : s.phase = "served" => \E t \in saves : SameSave(s, t) /\ (s.heard => t.heard),
         \A t \in saves : t.phase = "served" => \E s \in saves' : SameSave(s, t),
         \A l \in fetches' : l.got # NoAccount => l \in fetches,
         \/ own'.value = own.value
         \/ own'.value = NoAccount /\ fetches' = {} /\ \A s \in saves' : ~s.heard
  PROVE  SettingsInv'
<1>1. CopiesAreCopies'
  BY DEF SettingsInv, CopiesAreCopies, IsCopy, WasServed, SameSave
<1>2. NewsComes => NewsComes'
  BY DEF NewsComes, WasServed, SameSave
<1>3. CopyIsKnown'
  BY <1>2 DEF SettingsInv, CopyIsKnown, IsKnown, WasServed, SameSave
<1>4. PasswordIsKnown'
  BY DEF SettingsInv, PasswordIsKnown, SameSave
<1> QED BY <1>1, <1>3, <1>4 DEF SettingsInv

(* Fields of a save that are replaced. *)
LEMMA SaveFields ==
  ASSUME NEW s, NEW v, NEW w,
         s = [number |-> s.number, kind |-> s.kind, phase |-> s.phase, here |-> s.here,
              heard |-> s.heard, shown |-> s.shown, old |-> s.old, got |-> s.got]
  PROVE  /\ [s EXCEPT !.here = v] =
              [number |-> s.number, kind |-> s.kind, phase |-> s.phase, here |-> v,
               heard |-> s.heard, shown |-> s.shown, old |-> s.old, got |-> s.got]
         /\ [s EXCEPT !.here = v, !.heard = w] =
              [number |-> s.number, kind |-> s.kind, phase |-> s.phase, here |-> v,
               heard |-> w, shown |-> s.shown, old |-> s.old, got |-> s.got]
         /\ [s EXCEPT !.phase = v] =
              [number |-> s.number, kind |-> s.kind, phase |-> v, here |-> s.here,
               heard |-> s.heard, shown |-> s.shown, old |-> s.old, got |-> s.got]
         /\ [s EXCEPT !.phase = v, !.got = w] =
              [number |-> s.number, kind |-> s.kind, phase |-> v, here |-> s.here,
               heard |-> s.heard, shown |-> s.shown, old |-> s.old, got |-> w]
<1>1. [s EXCEPT !.here = v] =
       [number |-> s.number, kind |-> s.kind, phase |-> s.phase, here |-> v,
        heard |-> s.heard, shown |-> s.shown, old |-> s.old, got |-> s.got]
  <2>1. PICK r : r = [number |-> s.number, kind |-> s.kind, phase |-> s.phase, here |-> v,
                  heard |-> s.heard, shown |-> s.shown, old |-> s.old, got |-> s.got]
    OBVIOUS
  <2>2. [s EXCEPT !.here = v] = r
    BY <2>1
  <2> QED BY <2>1, <2>2
<1>2. [s EXCEPT !.here = v, !.heard = w] =
       [number |-> s.number, kind |-> s.kind, phase |-> s.phase, here |-> v,
        heard |-> w, shown |-> s.shown, old |-> s.old, got |-> s.got]
  <2>1. PICK r : r = [number |-> s.number, kind |-> s.kind, phase |-> s.phase, here |-> v,
                  heard |-> s.heard, shown |-> s.shown, old |-> s.old, got |-> s.got]
    OBVIOUS
  <2>2. [s EXCEPT !.here = v] = r
    BY <2>1
  <2>3. [r EXCEPT !.heard = w] = [number |-> s.number, kind |-> s.kind, phase |-> s.phase, here |-> v,
                                heard |-> w, shown |-> s.shown, old |-> s.old, got |-> s.got]
    BY <2>1
  <2>4. [s EXCEPT !.here = v, !.heard = w] = [[s EXCEPT !.here = v] EXCEPT !.heard = w]
    OBVIOUS
  <2> QED BY <2>2, <2>3, <2>4
<1>3. [s EXCEPT !.phase = v] =
       [number |-> s.number, kind |-> s.kind, phase |-> v, here |-> s.here,
        heard |-> s.heard, shown |-> s.shown, old |-> s.old, got |-> s.got]
  <2>1. PICK r : r = [number |-> s.number, kind |-> s.kind, phase |-> v, here |-> s.here,
                  heard |-> s.heard, shown |-> s.shown, old |-> s.old, got |-> s.got]
    OBVIOUS
  <2>2. [s EXCEPT !.phase = v] = r
    BY <2>1
  <2> QED BY <2>1, <2>2
<1>4. [s EXCEPT !.phase = v, !.got = w] =
       [number |-> s.number, kind |-> s.kind, phase |-> v, here |-> s.here,
        heard |-> s.heard, shown |-> s.shown, old |-> s.old, got |-> w]
  <2>1. PICK r : r = [number |-> s.number, kind |-> s.kind, phase |-> v, here |-> s.here,
                  heard |-> s.heard, shown |-> s.shown, old |-> s.old, got |-> s.got]
    OBVIOUS
  <2>2. [s EXCEPT !.phase = v] = r
    BY <2>1
  <2>3. [r EXCEPT !.got = w] = [number |-> s.number, kind |-> s.kind, phase |-> v, here |-> s.here,
                                heard |-> s.heard, shown |-> s.shown, old |-> s.old, got |-> w]
    BY <2>1
  <2>4. [s EXCEPT !.phase = v, !.got = w] = [[s EXCEPT !.phase = v] EXCEPT !.got = w]
    OBVIOUS
  <2> QED BY <2>2, <2>3, <2>4
<1> QED BY <1>1, <1>2, <1>3, <1>4

(* A save whose page was left, or whose session was ended, is the same save. *)
LEMMA SaveIsLeft ==
  ASSUME SettingsInv, NEW s \in saves
  PROVE  LET d == [s EXCEPT !.here = FALSE]
             e == [s EXCEPT !.here = FALSE, !.heard = FALSE]
         IN  /\ SaveIsTyped(d) /\ SameSave(d, s) /\ d.heard = s.heard
             /\ SaveIsTyped(e) /\ SameSave(e, s) /\ e.heard = FALSE
<1> DEFINE d == [s EXCEPT !.here = FALSE]
           e == [s EXCEPT !.here = FALSE, !.heard = FALSE]
<1>1. SaveIsTyped(s)
  BY DEF SettingsInv, SettingsAreTyped
<1>2. d = [number |-> s.number, kind |-> s.kind, phase |-> s.phase, here |-> FALSE, heard |-> s.heard,
           shown |-> s.shown, old |-> s.old, got |-> s.got]
  BY <1>1, SaveFields DEF SaveIsTyped
<1>3. e = [number |-> s.number, kind |-> s.kind, phase |-> s.phase, here |-> FALSE, heard |-> FALSE,
           shown |-> s.shown, old |-> s.old, got |-> s.got]
  BY <1>1, SaveFields DEF SaveIsTyped
<1> HIDE DEF d, e
<1>4. SaveIsTyped(d) /\ SameSave(d, s) /\ d.heard = s.heard
  BY <1>1, <1>2 DEF SaveIsTyped, SameSave
<1>5. SaveIsTyped(e) /\ SameSave(e, s) /\ e.heard = FALSE
  BY <1>1, <1>3 DEF SaveIsTyped, SameSave
<1> QED BY <1>4, <1>5 DEF d, e

(* Pages are opened and left, and the copies age. *)
LEMMA PageTurns ==
  ASSUME SettingsInv, (\E p \in {"profile", "settings"} : Open(p)) \/ Leave \/ SessionCleared \/ CopyAges
  PROVE  SettingsInv'
<1>1. ASSUME NEW p \in {"profile", "settings"}, Open(p) PROVE SettingsInv'
  <2> DEFINE n == [number |-> fetched', got |-> NoAccount]
  <2>1. /\ UNCHANGED <<users, believed, unsure, saves, own, saved, elsewhere>> /\ page' = p
        /\ fetches' \subseteq fetches \cup {n}
        /\ account' = own.value \/ (own.value = NoAccount /\ account' = account)
    <3>1. /\ UNCHANGED <<users, believed, unsure, saves, own, saved, elsewhere>> /\ page' = p
          /\ fetches' = fetches \/ fetches' = fetches \cup {n}
      BY <1>1 DEF Open
    <3>2. account' = own.value \/ (own.value = NoAccount /\ account' = account)
      <4>1. CASE own.value # NoAccount
        <5>1. PICK keep : keep = (p = "settings" \/ own.value.picture \in urls)
          OBVIOUS
        <5>2. Apply(own.value, keep)
          BY <1>1, <4>1, <5>1 DEF Open
        <5> QED BY <5>2, Zenon DEF Apply
      <4>2. CASE own.value = NoAccount
        BY <1>1, <4>2 DEF Open
      <4> QED BY <4>1, <4>2
    <3> QED BY <3>1, <3>2
  <2>2. n = [number |-> n.number, got |-> n.got] /\ n.got = NoAccount
    OBVIOUS
  <2> HIDE DEF n
  <2>3. SettingsAreTyped'
    BY <2>1, <2>2 DEF SettingsInv, SettingsAreTyped
  <2>4. PageShowsCopy'
    BY <2>1 DEF SettingsInv, PageShowsCopy
  <2>5. \A l \in fetches' : l.got # NoAccount => l \in fetches
    BY <2>1, <2>2
  <2> QED BY <2>1, <2>3, <2>4, <2>5, RowStays DEF SameSave
<1>2. CASE Leave
  <2> DEFINE D(s) == [s EXCEPT !.here = FALSE]
  <2>1. /\ UNCHANGED <<users, believed, unsure, own, fetches, saved, elsewhere>> /\ saves' = {D(s) : s \in saves}
        /\ page' = "away" /\ account' = NoAccount
    BY <1>2 DEF Leave, Gone, countVars
  <2>2. ASSUME NEW s \in saves PROVE SaveIsTyped(D(s)) /\ SameSave(D(s), s) /\ D(s).heard = s.heard
    BY SaveIsLeft
  <2> HIDE DEF D
  <2>3. SettingsAreTyped' /\ PageShowsCopy'
    BY <2>1, <2>2 DEF SettingsInv, SettingsAreTyped, PageShowsCopy
  <2> QED BY <2>1, <2>2, <2>3, RowStays
<1>3. CASE SessionCleared
  <2> DEFINE D(s) == [s EXCEPT !.here = FALSE, !.heard = FALSE]
             S == {t \in saves : t.phase \notin {"upload", "resolve"}}
  <2>1. /\ UNCHANGED <<users, believed, unsure, saved, elsewhere>> /\ saves' = {D(s) : s \in S}
        /\ page' = "away" /\ account' = NoAccount /\ fetches' = {}
        /\ own' = [value |-> NoAccount, fresh |-> FALSE]
    BY <1>3 DEF SessionCleared, Gone, countVars
  <2>2. ASSUME NEW s \in saves PROVE SaveIsTyped(D(s)) /\ SameSave(D(s), s) /\ D(s).heard = FALSE
    BY SaveIsLeft
  <2> HIDE DEF D
  <2>3. SettingsAreTyped' /\ PageShowsCopy'
    BY <2>1, <2>2 DEF SettingsInv, SettingsAreTyped, PageShowsCopy
  <2> QED BY <2>1, <2>2, <2>3, RowStays
<1>4. CASE CopyAges
  <2>1. /\ UNCHANGED <<users, believed, unsure, saves, fetches, page, account, saved, elsewhere>>
        /\ own' = [own EXCEPT !.fresh = FALSE]
    BY <1>4 DEF CopyAges, countVars, shownVars
  <2>2. own'.value = own.value /\ own' = [value |-> own'.value, fresh |-> own'.fresh]
    BY <2>1 DEF SettingsInv, SettingsAreTyped
  <2>3. SettingsAreTyped' /\ PageShowsCopy'
    BY <2>1, <2>2 DEF SettingsInv, SettingsAreTyped, PageShowsCopy
  <2> QED BY <2>1, <2>2, <2>3, RowStays DEF SameSave
<1> QED BY <1>1, <1>2, <1>3, <1>4

(* A save begins. *)
LEMMA SaveBegins == ASSUME SettingsInv, SaveName \/ SavePicture \/ SavePassword PROVE SettingsInv'
<1>1. PICK kind \in Kinds, phase \in {"sent", "upload"} : StartSave(kind, phase)
  BY DEF SaveName, SavePicture, SavePassword, Kinds
<1>2. PICK w : w = SaveCall(kind, phase, avatar)
  OBVIOUS
<1>3. /\ UNCHANGED <<users, believed, unsure, own, fetches, page, account, elsewhere>>
      /\ saves' = saves \cup {w} /\ saved < MaxSaves /\ saved' = saved + 1
  BY <1>1, <1>2 DEF StartSave
<1>4. saved \in 0..MaxSaves /\ elsewhere \in 0..MaxElsewhere /\ MaxSaves \in Nat /\ MaxElsewhere \in Nat
  BY SettingsAssumption DEF SettingsInv, SettingsAreTyped
<1>5. saved + elsewhere + 1 \in Values /\ saved' \in 0..MaxSaves
  BY <1>3, <1>4 DEF Values
<1>6. SaveIsTyped(w) /\ w.phase # "served"
  BY <1>2, <1>5 DEF SaveIsTyped, SaveCall
<1>7. SettingsAreTyped' /\ PageShowsCopy'
  BY <1>3, <1>5, <1>6 DEF SettingsInv, SettingsAreTyped, PageShowsCopy
<1> QED BY <1>3, <1>6, <1>7, RowStays DEF SameSave

(* A save goes on: its other fields stay. *)
LEMMA SaveGoesOn ==
  ASSUME SettingsInv, NEW s \in saves, NEW phase, phase \in {"verified", "refused"} => s.kind = "password"
  PROVE  LET u == [s EXCEPT !.phase = phase]
         IN  SaveIsTyped(u) /\ u.phase = phase /\ u.got = s.got /\ u.kind = s.kind /\ u.number = s.number
<1> DEFINE u == [s EXCEPT !.phase = phase]
<1>1. SaveIsTyped(s)
  BY DEF SettingsInv, SettingsAreTyped
<1>2. u = [number |-> s.number, kind |-> s.kind, phase |-> phase, here |-> s.here, heard |-> s.heard,
           shown |-> s.shown, old |-> s.old, got |-> s.got]
  BY <1>1, SaveFields DEF SaveIsTyped
<1> HIDE DEF u
<1> QED BY <1>1, <1>2 DEF SaveIsTyped, u

(* Steps of a save that neither write the row nor answer. *)
LEMMA SaveIsHandled ==
  ASSUME SettingsInv, NEW s \in saves, PictureUploaded(s) \/ PasswordRead(s) PROVE SettingsInv'
<1>1. PICK phase : /\ saves' = (saves \ {s}) \cup {[s EXCEPT !.phase = phase]} /\ phase # "served"
                   /\ (phase \in {"verified", "refused"} => s.kind = "password")
  BY DEF PictureUploaded, PasswordRead, Becomes
<1>2. UNCHANGED <<users, believed, unsure, own, fetches, page, account, saved, elsewhere>> /\ s.phase # "served"
  BY DEF PictureUploaded, PasswordRead, NothingShown, shownVars, countVars
<1> DEFINE u == [s EXCEPT !.phase = phase]
<1>3. SaveIsTyped(u) /\ u.phase = phase
  BY <1>1, SaveGoesOn
<1> HIDE DEF u
<1>4. saves' = (saves \ {s}) \cup {u}
  BY <1>1 DEF u
<1>5. SettingsAreTyped' /\ PageShowsCopy'
  BY <1>2, <1>3, <1>4 DEF SettingsInv, SettingsAreTyped, PageShowsCopy
<1> QED BY <1>1, <1>2, <1>3, <1>4, <1>5, RowStays DEF SameSave

(* Pictures are resolved, and a read of the account fails. *)
LEMMA FacesCome ==
  ASSUME SettingsInv,
         (\E p \in Values, ok \in BOOLEAN : FaceComes(p, ok)) \/ \E l \in fetches : OwnFails(l)
  PROVE  SettingsInv'
<1>1. /\ UNCHANGED <<users, believed, unsure, own, page, account, saved, elsewhere>>
      /\ fetches' \subseteq fetches /\ saves' \subseteq saves
      /\ \A t \in saves : t.phase # "resolve" => t \in saves'
  <2>1. ASSUME NEW p \in Values, NEW ok \in BOOLEAN, FaceComes(p, ok)
        PROVE  /\ UNCHANGED <<users, believed, unsure, own, page, account, saved, elsewhere, fetches>>
               /\ saves' \subseteq saves /\ \A t \in saves : t.phase # "resolve" => t \in saves'
    BY <2>1 DEF FaceComes, countVars
  <2>2. ASSUME NEW l \in fetches, OwnFails(l)
        PROVE  /\ UNCHANGED <<users, believed, unsure, own, page, account, saved, elsewhere, saves>>
               /\ fetches' \subseteq fetches
    BY <2>2 DEF OwnFails, countVars, shownVars
  <2> QED BY <2>1, <2>2
<1>2. SettingsAreTyped' /\ PageShowsCopy'
  BY <1>1 DEF SettingsInv, SettingsAreTyped, PageShowsCopy
<1> QED BY <1>1, <1>2, RowStays DEF SameSave

(* The server reads the row. *)
LEMMA OwnIsServed == ASSUME SettingsInv, NEW l \in fetches, OwnServed(l) PROVE SettingsInv'
<1> DEFINE n == [l EXCEPT !.got = Mine(users)]
<1>1. /\ UNCHANGED <<users, believed, unsure, own, page, account, saved, elsewhere, saves>>
      /\ fetches' = (fetches \ {l}) \cup {n}
  BY DEF OwnServed, countVars, shownVars
<1>2. n.got = Mine(users) /\ n = [number |-> n.number, got |-> n.got]
  BY DEF SettingsInv, SettingsAreTyped
<1> HIDE DEF n
<1>3. SettingsAreTyped' /\ PageShowsCopy' /\ PasswordIsKnown'
  BY <1>1, <1>2 DEF SettingsInv, SettingsAreTyped, PageShowsCopy, PasswordIsKnown
<1>4. CopiesAreCopies'
  BY <1>1, <1>2, MineIsCopy DEF SettingsInv, CopiesAreCopies, IsCopy
<1>5. CopyIsKnown'
  BY <1>1, <1>2, MineIsCopy DEF SettingsInv, CopyIsKnown, IsKnown, NewsComes
<1> QED BY <1>3, <1>4, <1>5 DEF SettingsInv

(* updateProfile writes the row: the save's answer is the news of it.        *)
LEMMA SaveIsServed == ASSUME SettingsInv, NEW s \in saves, SaveServed(s) PROVE SettingsInv'
<1>1. /\ s.kind \in {"name", "picture"} /\ s.phase = "sent"
      /\ users' = [users EXCEPT ![s.kind] = s.number, !.version = users.version + 1]
      /\ saves' = (saves \ {s}) \cup {[s EXCEPT !.phase = "served", !.got = Mine(users')]}
      /\ UNCHANGED <<believed, unsure, own, fetches, page, account, saved, elsewhere>>
  BY DEF SaveServed, Becomes, NothingShown, shownVars, countVars
<1>2. s.number \in Values /\ users \in User
  BY DEF SettingsInv, SettingsAreTyped, SaveIsTyped
<1>3. users.version \in Nat /\ users.version + 1 \in Nat
  BY <1>2 DEF User
<1>4. users' \in User /\ users'.version = users.version + 1 /\ users'.password = users.password
  <2>1. CASE s.kind = "name"
    BY <1>1, <1>2, <1>3, <2>1 DEF User
  <2>2. CASE s.kind = "picture"
    BY <1>1, <1>2, <1>3, <2>2 DEF User
  <2> QED BY <1>1, <2>1, <2>2
<1>5. PICK m : m = Mine(users')
  OBVIOUS
<1>6. m \in Account /\ m.version = users'.version
  BY <1>4, <1>5 DEF Mine, User, Account
<1> DEFINE w == [s EXCEPT !.phase = "served", !.got = m]
<1>7. SaveIsTyped(w) /\ w.phase = "served" /\ w.got = m /\ w.kind = s.kind
  <2>1. SaveIsTyped(s)
    BY DEF SettingsInv, SettingsAreTyped
  <2>2. w = [number |-> s.number, kind |-> s.kind, phase |-> "served", here |-> s.here,
             heard |-> s.heard, shown |-> s.shown, old |-> s.old, got |-> m]
    BY <2>1, SaveFields DEF SaveIsTyped
  <2> HIDE DEF w
  <2> QED BY <2>1, <2>2 DEF SaveIsTyped
<1>8. saves' = (saves \ {s}) \cup {w}
  BY <1>1, <1>5
<1> HIDE DEF w
<1>9. SettingsAreTyped' /\ PageShowsCopy'
  BY <1>1, <1>4, <1>7, <1>8 DEF SettingsInv, SettingsAreTyped, PageShowsCopy
<1>10. ASSUME NEW a, IsCopy(a) PROVE IsCopy(a)'
  <2>1. a \in Account /\ a.version <= users.version /\ a.version \in Nat
    BY <1>10 DEF IsCopy, Account
  <2>2. a.version <= users'.version /\ a.version # users'.version
    BY <1>3, <1>4, <2>1
  <2> QED BY <2>1, <2>2 DEF IsCopy
<1>11. IsCopy(m)'
  BY <1>3, <1>4, <1>5, <1>6 DEF IsCopy
<1>12. CopiesAreCopies'
  BY <1>1, <1>7, <1>8, <1>10, <1>11 DEF SettingsInv, CopiesAreCopies, WasServed
<1>13. CopyIsKnown'
  <2>1. NewsComes'
    BY <1>1, <1>6, <1>7, <1>8 DEF NewsComes, WasServed
  <2> QED BY <2>1 DEF CopyIsKnown
<1>14. PasswordIsKnown'
  BY <1>1, <1>4, <1>8 DEF SettingsInv, PasswordIsKnown
<1> QED BY <1>9, <1>12, <1>13, <1>14 DEF SettingsInv

(* The row's version stays, and no save of a name or a picture comes or goes.*)
LEMMA PasswordsOnly ==
  ASSUME SettingsInv, UNCHANGED <<own, fetches, page, account>>, SettingsAreTyped', PasswordIsKnown',
         Mine(users') = Mine(users), "account" \notin unsure' => "account" \notin unsure,
         \A t \in saves' : WasServed(t) => t \in saves,
         \A t \in saves : WasServed(t) => t \in saves'
  PROVE  SettingsInv'
<1>1. users'.version = users.version
  BY DEF Mine
<1>2. CopiesAreCopies'
  BY <1>1 DEF SettingsInv, CopiesAreCopies, IsCopy, WasServed
<1>3. NewsComes => NewsComes'
  BY <1>1 DEF NewsComes, WasServed
<1>4. CopyIsKnown'
  BY <1>1, <1>3 DEF SettingsInv, CopyIsKnown, IsKnown, WasServed
<1>5. PageShowsCopy'
  BY DEF SettingsInv, PageShowsCopy
<1> QED BY <1>2, <1>4, <1>5 DEF SettingsInv

(* changePassword writes the hash, and its answer is under way. *)
LEMMA PasswordIsWritten == ASSUME SettingsInv, NEW s \in saves, PasswordWritten(s) PROVE SettingsInv'
<1>1. /\ s.phase = "verified" /\ users' = [users EXCEPT !.password = s.number]
      /\ saves' = (saves \ {s}) \cup {[s EXCEPT !.phase = "served"]}
      /\ UNCHANGED <<believed, unsure, own, fetches, page, account, saved, elsewhere>>
  BY DEF PasswordWritten, Becomes, NothingShown, shownVars, countVars
<1>2. s.number \in Values /\ users \in User /\ s.kind = "password"
  BY <1>1 DEF SettingsInv, SettingsAreTyped, SaveIsTyped
<1>3. users' \in User /\ Mine(users') = Mine(users) /\ users'.password = s.number
  BY <1>1, <1>2 DEF User, Mine
<1> DEFINE w == [s EXCEPT !.phase = "served"]
<1>4. SaveIsTyped(w) /\ w.phase = "served" /\ w.kind = s.kind /\ w.number = s.number
  BY SaveGoesOn
<1> HIDE DEF w
<1>5. saves' = (saves \ {s}) \cup {w}
  BY <1>1 DEF w
<1>6. SettingsAreTyped' /\ PasswordIsKnown'
  BY <1>1, <1>2, <1>3, <1>4, <1>5 DEF SettingsInv, SettingsAreTyped, PasswordIsKnown
<1> QED BY <1>1, <1>2, <1>3, <1>4, <1>5, <1>6, PasswordsOnly DEF WasServed

(* Its answer arrives. *)
LEMMA PasswordIsAnswered == ASSUME SettingsInv, NEW s \in saves, PasswordAnswered(s) PROVE SettingsInv'
<1>1. /\ s.kind = "password" /\ s.phase \in {"served", "refused"} /\ saves' = saves \ {s}
      /\ believed' = (IF s.phase = "served" THEN s.number ELSE believed)
      /\ unsure' = (IF s.phase = "served" /\ users.password # s.number
                    THEN unsure \cup {"password"} ELSE unsure)
      /\ UNCHANGED <<users, own, fetches, page, account, saved, elsewhere>>
  BY DEF PasswordAnswered, shownVars, countVars
<1>2. SettingsAreTyped'
  BY <1>1 DEF SettingsInv, SettingsAreTyped
<1>3. PasswordIsKnown'
  BY <1>1 DEF SettingsInv, PasswordIsKnown
<1> QED BY <1>1, <1>2, <1>3, PasswordsOnly DEF WasServed

(* A save fails, or its answer is lost: then what it was about is in doubt.  *)
LEMMA SaveHasFailed == ASSUME SettingsInv, NEW s \in saves, SaveFails(s) PROVE SettingsInv'
<1>1. /\ saves' = saves \ {s}
      /\ unsure' = IF s.phase # "served" THEN unsure
                   ELSE unsure \cup {IF s.kind = "password" THEN "password" ELSE "account"}
      /\ UNCHANGED <<users, believed, own, fetches, page, account, saved, elsewhere>>
  BY DEF SaveFails, countVars
<1>2. SettingsAreTyped' /\ PageShowsCopy'
  BY <1>1 DEF SettingsInv, SettingsAreTyped, PageShowsCopy
<1>3. CASE s.phase # "served"
  BY <1>1, <1>2, <1>3, RowStays DEF SameSave
<1>4. CASE s.phase = "served" /\ s.kind = "password"
  <2>1. PasswordIsKnown'
    BY <1>1, <1>4 DEF PasswordIsKnown
  <2> QED BY <1>1, <1>2, <1>4, <2>1, PasswordsOnly DEF WasServed
<1>5. CASE s.phase = "served" /\ s.kind # "password"
  <2>1. CopiesAreCopies'
    BY <1>1 DEF SettingsInv, CopiesAreCopies, IsCopy
  <2>2. CopyIsKnown'
    BY <1>1, <1>5 DEF CopyIsKnown
  <2>3. PasswordIsKnown'
    BY <1>1, <1>5 DEF SettingsInv, PasswordIsKnown
  <2> QED BY <1>2, <2>1, <2>2, <2>3 DEF SettingsInv
<1> QED BY <1>3, <1>4, <1>5

(* primeCurrentUserCache.  An answer of before clears no doubt: either it is *)
(* older than the copy, which is in doubt then, or the row as it is now is   *)
(* on its way, or it was known that this is the row as it is.                *)
LEMMA CopyIsPrimed ==
  ASSUME SettingsInv, NEW a, IsCopy(a), Prime(a), SettingsAreTyped',
         UNCHANGED <<users, believed, page>>, fetches' \subseteq fetches,
         \A t \in saves' : t.phase = "served" => t \in saves,
         \A t \in saves : t.phase = "served" => t \in saves' \/ (t.kind # "password" /\ t.got = a),
         "account" \notin unsure /\ ~NewsComes => IsKnown \/ a.version = users.version
  PROVE  SettingsInv'
<1>1. own'.value = a
  BY DEF Prime
<1>2. a # NoAccount /\ a.version \in Nat /\ users.version \in Nat /\ a.version <= users.version
  BY SettingsAssumption DEF IsCopy, Account, SettingsInv, SettingsAreTyped, User
<1>3. own.value # NoAccount => own.value.version \in Nat
  BY DEF SettingsInv, CopiesAreCopies, IsCopy, Account
<1>4. CopiesAreCopies'
  BY <1>1 DEF SettingsInv, CopiesAreCopies, IsCopy, WasServed
<1>5. PageShowsCopy'
  <2>1. CASE page = "away"
    BY <2>1 DEF Prime, SettingsInv, PageShowsCopy
  <2>2. CASE page # "away"
    <3>1. Apply(a, TRUE)
      BY <2>2 DEF Prime
    <3>2. account' = a
      BY <3>1, Zenon DEF Apply
    <3> QED BY <1>1, <2>2, <3>2 DEF PageShowsCopy
  <2> QED BY <2>1, <2>2
<1>6. "password" \notin unsure' => "password" \notin unsure
  BY DEF Prime
<1>7. PasswordIsKnown'
  BY <1>6 DEF SettingsInv, PasswordIsKnown
<1>8. CopyIsKnown'
  <2>1. CASE a.version = users.version
    BY <1>1, <1>2, <2>1 DEF CopyIsKnown, IsKnown
  <2>2. CASE a.version # users.version
    <3> SUFFICES ASSUME "account" \notin unsure', ~NewsComes' PROVE FALSE
      BY DEF CopyIsKnown
    <3>1. "account" \notin unsure /\ ~(own.value # NoAccount /\ a.version < own.value.version)
      BY <2>2 DEF Prime
    <3>2. ~NewsComes
      BY <2>2 DEF NewsComes, WasServed
    <3>3. IsKnown
      BY <2>2, <3>1, <3>2
    <3>4. a.version < users.version
      BY <1>2, <2>2
    <3> QED BY <3>1, <3>3, <3>4 DEF IsKnown
  <2> QED BY <2>1, <2>2
<1> QED BY <1>4, <1>5, <1>7, <1>8 DEF SettingsInv

(* The answer of a save, or of a read of the account, arrives.               *)
LEMMA AnswerArrives ==
  ASSUME SettingsInv,
         \/ \E s \in saves : NameAnswered(s) \/ PictureAnswered(s)
         \/ \E l \in fetches : OwnArrives(l)
  PROVE  SettingsInv'
<1>1. ASSUME NEW s \in saves, NameAnswered(s) \/ PictureAnswered(s) PROVE SettingsInv'
  <2>1. /\ s.heard /\ s.kind \in {"name", "picture"} /\ s.phase = "served" /\ Prime(s.got)
        /\ saves' = saves \ {s} \/ saves' = (saves \ {s}) \cup {[s EXCEPT !.phase = "resolve"]}
        /\ UNCHANGED <<users, believed, page, fetches, saved, elsewhere>>
    BY <1>1 DEF NameAnswered, PictureAnswered, Becomes, countVars
  <2> DEFINE w == [s EXCEPT !.phase = "resolve"]
  <2>2. SaveIsTyped(w) /\ w.phase = "resolve"
    BY SaveGoesOn
  <2>3. saves' \subseteq (saves \ {s}) \cup {w} /\ saves \ {s} \subseteq saves'
    BY <2>1
  <2> HIDE DEF w
  <2>4. WasServed(s) /\ IsCopy(s.got)
    BY <2>1 DEF WasServed, SettingsInv, CopiesAreCopies
  <2>5. SettingsAreTyped'
    BY <2>1, <2>2, <2>3 DEF SettingsInv, SettingsAreTyped, Prime
  <2>6. "account" \notin unsure /\ ~NewsComes => IsKnown
    BY <2>1, <2>4 DEF SettingsInv, CopyIsKnown
  <2> QED BY <2>1, <2>2, <2>3, <2>4, <2>5, <2>6, CopyIsPrimed
<1>2. ASSUME NEW l \in fetches, OwnArrives(l) PROVE SettingsInv'
  <2>1. /\ l.got # NoAccount /\ Prime(l.got) /\ fetches' = fetches \ {l}
        /\ UNCHANGED <<users, believed, page, saves, saved, elsewhere>>
    BY <1>2 DEF OwnArrives, countVars
  <2>2. IsCopy(l.got)
    BY <2>1 DEF SettingsInv, CopiesAreCopies
  <2>3. SettingsAreTyped'
    BY <2>1 DEF SettingsInv, SettingsAreTyped, Prime
  <2>4. "account" \notin unsure /\ ~NewsComes => IsKnown \/ l.got.version = users.version
    BY <2>1 DEF SettingsInv, CopyIsKnown
  <2> QED BY <2>1, <2>2, <2>3, <2>4, CopyIsPrimed
<1> QED BY <1>1, <1>2

(* Another device saves: it is not known here, but for a password.           *)
LEMMA SavesElsewhere == ASSUME SettingsInv, NEW kind \in Kinds, SavedElsewhere(kind) PROVE SettingsInv'
<1>1. PICK n : n = saved + elsewhere + 1
  OBVIOUS
<1>2. /\ users' = [users EXCEPT ![kind] = n,
                                !.version = IF kind = "password" THEN users.version ELSE users.version + 1]
      /\ elsewhere < MaxElsewhere /\ elsewhere' = elsewhere + 1
      /\ unsure' = unsure \cup {IF kind = "password" THEN "password" ELSE "account"}
      /\ UNCHANGED <<own, fetches, page, account, saves, saved>>
  BY <1>1 DEF SavedElsewhere, shownVars
<1>3. saved \in 0..MaxSaves /\ elsewhere \in 0..MaxElsewhere /\ MaxSaves \in Nat /\ MaxElsewhere \in Nat
  BY SettingsAssumption DEF SettingsInv, SettingsAreTyped
<1>4. n \in Values /\ elsewhere' \in 0..MaxElsewhere
  <2>1. elsewhere < MaxElsewhere /\ elsewhere' = elsewhere + 1
    BY <1>2
  <2> QED BY <1>1, <1>3, <2>1 DEF Values
<1>5. users \in User /\ users.version \in Nat /\ users.version + 1 \in Nat
  BY DEF SettingsInv, SettingsAreTyped, User
<1>6. CASE kind = "password"
  <2>1. users' \in User /\ Mine(users') = Mine(users)
    BY <1>2, <1>4, <1>5, <1>6 DEF User, Mine
  <2>2. SettingsAreTyped' /\ PasswordIsKnown'
    BY <1>2, <1>3, <1>4, <1>6, <2>1 DEF SettingsInv, SettingsAreTyped, PasswordIsKnown
  <2> QED BY <1>2, <2>1, <2>2, PasswordsOnly
<1>7. CASE kind # "password"
  <2>1. users' \in User /\ users'.version = users.version + 1
    <3>1. CASE kind = "name"
      BY <1>2, <1>4, <1>5, <3>1 DEF User
    <3>2. CASE kind = "picture"
      BY <1>2, <1>4, <1>5, <3>2 DEF User
    <3> QED BY <1>7, <3>1, <3>2 DEF Kinds
  <2>2. users'.password = users.password /\ believed' = believed
    <3>1. users'.password = users.password
      BY <1>2, <1>5, <1>7 DEF User, Kinds
    <3>2. believed' = believed
      BY <1>7 DEF SavedElsewhere
    <3> QED BY <3>1, <3>2
  <2>3. SettingsAreTyped' /\ PageShowsCopy'
    BY <1>2, <1>3, <1>4, <2>1 DEF SettingsInv, SettingsAreTyped, PageShowsCopy
  <2>4. ASSUME NEW a, IsCopy(a) PROVE IsCopy(a)'
    <3>1. a \in Account /\ a.version <= users.version /\ a.version \in Nat
      BY <2>4 DEF IsCopy, Account
    <3>2. a.version <= users'.version /\ a.version # users'.version
      BY <1>5, <2>1, <3>1
    <3> QED BY <3>1, <3>2 DEF IsCopy
  <2>5. CopiesAreCopies'
    BY <1>2, <2>4 DEF SettingsInv, CopiesAreCopies, WasServed
  <2>6. CopyIsKnown'
    BY <1>2, <1>7 DEF CopyIsKnown
  <2>7. PasswordIsKnown'
    BY <1>2, <1>7, <2>2 DEF SettingsInv, PasswordIsKnown
  <2> QED BY <2>3, <2>5, <2>6, <2>7 DEF SettingsInv
<1> QED BY <1>6, <1>7

(* Every step keeps the invariant. *)
LEMMA SettingsStep == ASSUME SettingsInv, [SettingsNext]_settingsVars PROVE SettingsInv'
<1>1. CASE UNCHANGED settingsVars
  <2>1. UNCHANGED <<users, believed, unsure, saves, own, fetches, page, account, saved, elsewhere>>
    BY <1>1 DEF settingsVars, shownVars, countVars
  <2>2. SettingsAreTyped' /\ PageShowsCopy'
    BY <2>1 DEF SettingsInv, SettingsAreTyped, PageShowsCopy
  <2> QED BY <2>1, <2>2, RowStays DEF SameSave
<1>2. CASE SettingsNext
  BY <1>2, PageTurns, SaveBegins, SaveIsHandled, FacesCome, OwnIsServed, SaveIsServed, PasswordIsWritten,
     PasswordIsAnswered, SaveHasFailed, AnswerArrives, SavesElsewhere DEF SettingsNext, Kinds
<1> QED BY <1>1, <1>2

(* With nothing under way page and copy are the stored account and the       *)
(* password is the one the user was told, unless an answer was overtaken or  *)
(* lost or another device wrote: for any numbers of saves, visits and reads. *)
THEOREM AccountsAreSaved == SettingsSpec => []AccountIsSaved
<1>1. SettingsInv => AccountIsSaved
  <2> SUFFICES ASSUME SettingsInv, Quiet PROVE AccountIsSaved
    BY DEF AccountIsSaved
  <2>1. ~NewsComes
    BY DEF Quiet, NewsComes
  <2>2. ASSUME "account" \notin unsure, own.value # NoAccount PROVE own.value = Mine(users)
    BY <2>1, <2>2 DEF SettingsInv, CopyIsKnown, IsKnown, CopiesAreCopies, IsCopy
  <2>3. ASSUME "account" \notin unsure, account # NoAccount PROVE account = Mine(users)
    BY <2>2, <2>3 DEF SettingsInv, PageShowsCopy
  <2>4. ASSUME "password" \notin unsure PROVE users.password = believed
    BY <2>4 DEF SettingsInv, PasswordIsKnown, Quiet
  <2> QED BY <2>2, <2>3, <2>4 DEF AccountIsSaved
<1> QED BY <1>1, SettingsBegin, SettingsStep, PTL DEF SettingsSpec

=============================================================================
