------------------------------ MODULE VideoJobs ------------------------------
(***************************************************************************)
(* The life of a video: the upload request that inserts its row and queues *)
(* it, the RQ workers that process it, the administrator who retries it    *)
(* and the recovery passes that requeue it when it is stuck.               *)
(*                                                                         *)
(* The four meet only in the table (rows), the RQ list (queue) and the     *)
(* object store (objects).  Every step here is one commit, one load or one *)
(* call to Redis or the store, because another process may act between any *)
(* two of them.  A session's snapshot is the row as it last loaded it.     *)
(***************************************************************************)
EXTENDS JobRow, Sequences, FiniteSets

CONSTANTS
  Videos,       \* ids of the videos; each is uploaded by one request
  Workers,      \* RQ worker processes
  Admins,       \* administrators calling POST /jobs/{id}/retry
  Recoverers,   \* reconcilers, and callers of POST /jobs/recover-stuck
  NoRow,        \* the id has no row
  MaxQueue,     \* bound: messages waiting in the RQ list
  MaxFaults,    \* bound: handlers that die or raise outside the processing,
                \* and answers of Redis that get lost
  MaxRetries,   \* bound: manual retries
  MaxRequeues   \* bound: messages enqueued by recovery passes

ASSUME VideosAssumption == Videos # {}
ASSUME NoRowAssumption == NoRow \notin Row
ASSUME BoundsAssumption == {MaxQueue, MaxFaults, MaxRetries, MaxRequeues} \subseteq Nat

VARIABLES
  rows,      \* the table video_jobs
  queue,     \* the RQ list: messages with the retries RQ still owes them
  objects,   \* what the object store holds for each video
  upload,    \* where the upload request of each video is
  worker,    \* each worker's handler, with its message and its snapshot
  retry,     \* each administrator's request
  recovery,  \* each recovery pass
  spent      \* how much of each bound has been used

vars == <<rows, queue, objects, upload, worker, retry, recovery, spent>>

Objects  == {"raw", "processed", "thumbnail"}
Message  == [video : Videos, left : Nat]
MaybeRow == Row \cup {NoRow}

UploadPcs   == {"none", "storing", "saving", "enqueuing", "refusing", "marking", "done"}
WorkerPcs   == {"idle", "loading", "claiming", "refreshing", "downloading",
                "processed", "thumbnail", "completing", "completed",
                "failing", "marking", "deciding", "raising", "returning"}
RetryPcs    == {"idle", "enqueuing", "marking"}
RecoveryPcs == {"idle", "scanning", "deciding", "refusing", "marking"}

\* The handler holds the row as its own: from the claim to the verdict.
Processing == {"refreshing", "downloading", "processed", "thumbnail", "completing"}

WorkerState == [pc : WorkerPcs, video : Videos, left : Nat, snap : MaybeRow]

TypeOK ==
  /\ rows \in [Videos -> MaybeRow]
  /\ queue \in Seq(Message)
  /\ objects \in [Videos -> SUBSET Objects]
  /\ upload \in [Videos -> UploadPcs]
  /\ worker \in [Workers -> WorkerState]
  /\ retry \in [Admins -> [pc : RetryPcs, video : Videos, snap : MaybeRow]]
  /\ recovery \in [Recoverers ->
       [pc : RecoveryPcs, todo : SUBSET Videos, video : Videos, snap : MaybeRow]]
  /\ spent \in [{"faults", "retries", "requeues"} -> Nat]

AnyVideo == CHOOSE v \in Videos : TRUE

IdleWorker   == [pc |-> "idle", video |-> AnyVideo, left |-> 0, snap |-> NoRow]
IdleRetry    == [pc |-> "idle", video |-> AnyVideo, snap |-> NoRow]
IdleRecovery == [pc |-> "idle", todo |-> {}, video |-> AnyVideo, snap |-> NoRow]

Init ==
  /\ rows = [v \in Videos |-> NoRow]
  /\ queue = <<>>
  /\ objects = [v \in Videos |-> {}]
  /\ upload = [v \in Videos |-> "none"]
  /\ worker = [w \in Workers |-> IdleWorker]
  /\ retry = [a \in Admins |-> IdleRetry]
  /\ recovery = [r \in Recoverers |-> IdleRecovery]
  /\ spent = [bound \in {"faults", "retries", "requeues"} |-> 0]

\* One more of what the bound limits.
Spend(bound, limit) ==
  /\ spent[bound] < limit
  /\ spent' = [spent EXCEPT ![bound] = @ + 1]
Fault == Spend("faults", MaxFaults)

-----------------------------------------------------------------------------
(* The table and the queue.                                                *)

\* An UPDATE of a row that is still there.
Commit(v, old, new) ==
  /\ rows[v] # NoRow
  /\ rows' = [rows EXCEPT ![v] = Flush(rows[v], old, new)]

\* Variant: RQ is asked for max_attempts retries after the initial run.
EnqueueExtraRun(v) ==
  /\ Len(queue) < MaxQueue
  /\ queue' = Append(queue, [video |-> v, left |-> MaxAttempts])

\* One initial run and MaxAttempts - 1 retries by RQ.
Enqueue(v) ==
  /\ Len(queue) < MaxQueue
  /\ queue' = Append(queue, [video |-> v, left |-> MaxAttempts - 1])

\* The call to Redis raises: the message was not stored, or it was and the
\* answer was lost.
EnqueueRaises(v) ==
  \/ UNCHANGED <<queue, spent>>
  \/ Enqueue(v) /\ Fault

\* Variant: the retries left are not checked.
RqRetryUnchecked(v, left) == queue' = Append(queue, [video |-> v, left |-> left - 1])

\* RQ's own reaction to a handler that raised or died: with interval 0 the
\* message goes back to the list at once, unless its retries are used up.
RqRetry(v, left) ==
  \/ left > 0 /\ queue' = Append(queue, [video |-> v, left |-> left - 1])
  \/ left = 0 /\ UNCHANGED queue

\* The clock passes the stuck timeout of the status the row is in.  Recovery is
\* the only one to look.
Age(v) ==
  /\ Recoverers # {} /\ rows[v] # NoRow
  /\ \/ /\ rows[v].status = "PROCESSING" /\ rows[v].started = "recent"
        /\ rows' = [rows EXCEPT ![v].started = "stale"]
     \/ /\ rows[v].status = "QUEUED" /\ rows[v].updated = "recent"
        /\ rows' = [rows EXCEPT ![v].updated = "stale"]
  /\ UNCHANGED <<queue, objects, upload, worker, retry, recovery, spent>>

-----------------------------------------------------------------------------
(* POST /videos: insert the row, store the raw file, enqueue, mark QUEUED.  *)

UploadUnchanged == UNCHANGED <<worker, retry, recovery, spent>>
UploadAt(v, pc) == upload' = [upload EXCEPT ![v] = pc]

\* What the request's session holds until it marks the row QUEUED.
UploadSnap == WithRaw(NewRow)

InsertRow(v) ==
  /\ upload[v] = "none"
  /\ rows' = [rows EXCEPT ![v] = NewRow]
  /\ UploadAt(v, "storing")
  /\ UNCHANGED <<queue, objects>> /\ UploadUnchanged

StoreRaw(v) ==
  /\ upload[v] = "storing"
  /\ objects' = [objects EXCEPT ![v] = @ \cup {"raw"}]
  /\ UploadAt(v, IF StorageBackend = "local" THEN "saving" ELSE "enqueuing")
  /\ UNCHANGED <<rows, queue>> /\ UploadUnchanged

\* Local mode records the path only once the file is saved.
SaveRawPath(v) ==
  /\ upload[v] = "saving"
  /\ Commit(v, NewRow, UploadSnap)
  /\ UploadAt(v, "enqueuing")
  /\ UNCHANGED <<queue, objects>> /\ UploadUnchanged

\* Variant: the failure is swallowed and the job is queued all the same.
StoreRawIgnored(v) ==
  /\ upload[v] = "storing"
  /\ UploadAt(v, "enqueuing")
  /\ UNCHANGED <<rows, queue, objects>> /\ UploadUnchanged

\* Object mode fails the job; local mode lets the exception through, and the
\* row stays UPLOADED.
StoreRawFails(v) ==
  /\ upload[v] = "storing"
  /\ \/ StorageBackend = "object" /\ Commit(v, NewRow, NotAccepted(NewRow))
     \/ StorageBackend = "local" /\ UNCHANGED rows
  /\ UploadAt(v, "done")
  /\ UNCHANGED <<queue, objects>> /\ UploadUnchanged

EnqueueUpload(v) ==
  /\ upload[v] = "enqueuing"
  /\ Enqueue(v)
  /\ UploadAt(v, "marking")
  /\ UNCHANGED <<rows, objects>> /\ UploadUnchanged

\* Variant: the request tries again, whether the message was stored or not.
EnqueueUploadAgain(v) ==
  /\ upload[v] = "enqueuing"
  /\ EnqueueRaises(v)
  /\ UNCHANGED <<rows, objects, upload, worker, retry, recovery>>

EnqueueUploadFails(v) ==
  /\ upload[v] = "enqueuing"
  /\ EnqueueRaises(v)
  /\ UploadAt(v, "refusing")
  /\ UNCHANGED <<rows, objects, worker, retry, recovery>>

\* If the message was stored after all, it may have been run by now.
MarkNotAccepted(v) ==
  /\ upload[v] = "refusing"
  /\ Commit(v, UploadSnap, NotAccepted(UploadSnap))
  /\ UploadAt(v, "done")
  /\ UNCHANGED <<queue, objects>> /\ UploadUnchanged

\* The message may have been run, retried and finished by now.
MarkQueued(v) ==
  /\ upload[v] = "marking"
  /\ Commit(v, UploadSnap, Enqueued(UploadSnap))
  /\ UploadAt(v, "done")
  /\ UNCHANGED <<queue, objects>> /\ UploadUnchanged

\* The API process dies: whatever is committed stays as it is.
UploadDies(v) ==
  /\ upload[v] \notin {"none", "done"}
  /\ Fault
  /\ UploadAt(v, "done")
  /\ UNCHANGED <<rows, queue, objects, worker, retry, recovery>>

-----------------------------------------------------------------------------
(* The worker: process_video_job, run by RQ for the message it took.       *)

WorkerUnchanged == UNCHANGED <<upload, retry, recovery, spent>>
WorkerAt(w, pc) == worker' = [worker EXCEPT ![w].pc = pc]
\* The handler goes on from pc without the row it had loaded.
WorkerDrops(w, pc) == worker' = [worker EXCEPT ![w].pc = pc, ![w].snap = NoRow]
\* A load of a row that is there, and the state the handler goes on in.
Load(w, pc) ==
  /\ rows[worker[w].video] # NoRow
  /\ worker' = [worker EXCEPT ![w].pc = pc, ![w].snap = rows[worker[w].video]]

Dequeue(w) ==
  /\ worker[w].pc = "idle"
  /\ queue # <<>>
  /\ queue' = Tail(queue)
  /\ worker' = [worker EXCEPT ![w].pc = "loading", ![w].video = Head(queue).video,
                              ![w].left = Head(queue).left]
  /\ UNCHANGED <<rows, objects>> /\ WorkerUnchanged

\* Variant: the message of a row that is not there is put back, to wait for it.
WaitForRow(w) ==
  LET job == worker[w]
  IN /\ job.pc = "loading"
     /\ \/ rows[job.video] = NoRow /\ RqRetry(job.video, job.left + 1)
        \/ rows[job.video] # NoRow /\ Skips(rows[job.video]) /\ UNCHANGED queue
     /\ worker' = [worker EXCEPT ![w] = IdleWorker]
     /\ UNCHANGED <<rows, objects>> /\ WorkerUnchanged

\* The handler returns at once for a row that is gone or final.
SkipJob(w) ==
  LET row == rows[worker[w].video]
  IN /\ worker[w].pc = "loading"
     /\ row = NoRow \/ (row # NoRow /\ Skips(row))
     /\ worker' = [worker EXCEPT ![w] = IdleWorker]
     /\ UNCHANGED <<rows, queue, objects>> /\ WorkerUnchanged

LoadJob(w) ==
  LET row == rows[worker[w].video]
  IN /\ worker[w].pc = "loading"
     /\ row # NoRow /\ ~Skips(row)
     /\ Load(w, "claiming")
     /\ UNCHANGED <<rows, queue, objects>> /\ WorkerUnchanged

\* Nothing tells a row that another worker is processing from one that is not.
Claim(w) ==
  /\ worker[w].pc = "claiming"
  /\ Commit(worker[w].video, worker[w].snap, Claimed(worker[w].snap))
  /\ WorkerDrops(w, "refreshing")
  /\ UNCHANGED <<queue, objects>> /\ WorkerUnchanged

RefreshJob(w) ==
  /\ worker[w].pc = "refreshing"
  /\ Load(w, "downloading")
  /\ UNCHANGED <<rows, queue, objects>> /\ WorkerUnchanged

\* The download raises when the row names no raw object, or one that is gone.
RawIsThere(w) == worker[w].snap.raw /\ "raw" \in objects[worker[w].video]

\* Download the raw object and run ffmpeg on it.
Transcode(w) ==
  /\ worker[w].pc = "downloading"
  /\ RawIsThere(w)
  /\ WorkerAt(w, "processed")
  /\ UNCHANGED <<rows, queue, objects>> /\ WorkerUnchanged

StoreOutput(w, object, pc) ==
  /\ worker[w].pc = object
  /\ objects' = [objects EXCEPT ![worker[w].video] = @ \cup {object}]
  /\ WorkerAt(w, pc)
  /\ UNCHANGED <<rows, queue>> /\ WorkerUnchanged

\* Variant: the row is completed before the thumbnail is stored.
UploadProcessedOnly(w) == StoreOutput(w, "processed", "completing")

UploadProcessed(w) == StoreOutput(w, "processed", "thumbnail")
UploadThumbnail(w) == StoreOutput(w, "thumbnail", "completing")

Complete(w) ==
  /\ worker[w].pc = "completing"
  /\ Commit(worker[w].video, worker[w].snap, Completed(worker[w].snap))
  /\ WorkerDrops(w, "completed")
  /\ UNCHANGED <<queue, objects>> /\ WorkerUnchanged

\* The commit expired the row, and the metrics and the log load it again.
RecordSuccess(w) ==
  /\ worker[w].pc = "completed"
  /\ rows[worker[w].video] # NoRow
  /\ WorkerAt(w, "returning")
  /\ UNCHANGED <<rows, queue, objects>> /\ WorkerUnchanged

\* An error of ffmpeg or the store, a missing raw object or key, or RQ's own
\* timeout, while the job is processed.
ProcessingFails(w) ==
  /\ worker[w].pc \in Processing \ {"refreshing"}
  /\ WorkerDrops(w, "failing")
  /\ UNCHANGED <<rows, queue, objects>> /\ WorkerUnchanged

\* The same timeout, or an error of the database, before the processing or
\* after the row was completed: the try block begins with the load of the row
\* and ends after the log of the success.
HandlerRaises(w) ==
  /\ worker[w].pc \in {"loading", "claiming", "refreshing", "completed"}
  /\ Fault
  /\ WorkerDrops(w, "failing")
  /\ UNCHANGED <<rows, queue, objects, upload, retry, recovery>>

\* rollback() and a fresh load, whatever the row has become.
ReloadFailed(w) ==
  /\ worker[w].pc = "failing"
  /\ Load(w, "marking")
  /\ UNCHANGED <<rows, queue, objects>> /\ WorkerUnchanged

MarkFailed(w) ==
  LET snap == worker[w].snap
  IN /\ worker[w].pc = "marking"
     /\ Commit(worker[w].video, snap, Failed(snap))
     /\ WorkerDrops(w, "deciding")
     /\ UNCHANGED <<queue, objects>> /\ WorkerUnchanged

\* The commit expired the row: attempt_count is the one it has now.
DecideRetry(w) ==
  LET row == rows[worker[w].video]
  IN /\ worker[w].pc = "deciding"
     /\ row # NoRow
     /\ WorkerAt(w, IF Reraises(row) THEN "raising" ELSE "returning")
     /\ UNCHANGED <<rows, queue, objects>> /\ WorkerUnchanged

RaiseToRq(w) ==
  /\ worker[w].pc = "raising"
  /\ RqRetry(worker[w].video, worker[w].left)
  /\ worker' = [worker EXCEPT ![w] = IdleWorker]
  /\ UNCHANGED <<rows, objects>> /\ WorkerUnchanged

\* RQ learns that the handler returned, and forgets the message.
ReturnToRq(w) ==
  /\ worker[w].pc = "returning"
  /\ worker' = [worker EXCEPT ![w] = IdleWorker]
  /\ UNCHANGED <<rows, queue, objects>> /\ WorkerUnchanged

\* The work-horse dies and its parent hands the message to RQ's retry, or the
\* whole worker dies and the message is gone.  An exception in the handler's own
\* except clause or later goes to RQ at once and is the first of the two.
WorkerDies(w) ==
  /\ worker[w].pc # "idle"
  /\ Fault
  /\ RqRetry(worker[w].video, worker[w].left) \/ UNCHANGED queue
  /\ worker' = [worker EXCEPT ![w] = IdleWorker]
  /\ UNCHANGED <<rows, objects, upload, retry, recovery>>

-----------------------------------------------------------------------------
(* POST /jobs/{id}/retry: enqueue first, then reset the row.               *)

RetryUnchanged == UNCHANGED <<objects, upload, worker, recovery>>

LoadRetry(a, v) ==
  /\ retry[a].pc = "idle"
  /\ rows[v] # NoRow /\ Retryable(rows[v])
  /\ Spend("retries", MaxRetries)
  /\ retry' = [retry EXCEPT ![a] = [pc |-> "enqueuing", video |-> v, snap |-> rows[v]]]
  /\ UNCHANGED <<rows, queue>> /\ RetryUnchanged

EnqueueRetry(a) ==
  /\ retry[a].pc = "enqueuing"
  /\ Enqueue(retry[a].video)
  /\ retry' = [retry EXCEPT ![a].pc = "marking"]
  /\ UNCHANGED <<rows, spent>> /\ RetryUnchanged

\* The request answers with an error and leaves the row as it was.
EnqueueRetryFails(a) ==
  /\ retry[a].pc = "enqueuing"
  /\ EnqueueRaises(retry[a].video)
  /\ retry' = [retry EXCEPT ![a] = IdleRetry]
  /\ UNCHANGED rows /\ RetryUnchanged

ResetRetried(a) ==
  /\ retry[a].pc = "marking"
  /\ Commit(retry[a].video, retry[a].snap, Retried(retry[a].snap))
  /\ retry' = [retry EXCEPT ![a] = IdleRetry]
  /\ UNCHANGED <<queue, spent>> /\ RetryUnchanged

RetryDies(a) ==
  /\ retry[a].pc # "idle"
  /\ Fault
  /\ retry' = [retry EXCEPT ![a] = IdleRetry]
  /\ UNCHANGED <<rows, queue>> /\ RetryUnchanged

-----------------------------------------------------------------------------
(* A recovery pass: list the stuck jobs, then take them one by one.        *)

RecoveryUnchanged == UNCHANGED <<objects, upload, worker, retry>>
RecoveryAt(r, pc) == recovery' = [recovery EXCEPT ![r].pc = pc]
\* The loop goes on with the rest of the list, or the pass is over.
NextStuck(r) ==
  recovery' = [recovery EXCEPT ![r] =
    IF recovery[r].todo = {} THEN IdleRecovery
    ELSE [IdleRecovery EXCEPT !.pc = "scanning", !.todo = recovery[r].todo]]

StuckVideos == {v \in Videos : rows[v] # NoRow /\ Stuck(rows[v])}

FindStuck(r) ==
  /\ recovery[r].pc = "idle"
  /\ StuckVideos # {}
  /\ recovery' = [recovery EXCEPT ![r].pc = "scanning", ![r].todo = StuckVideos]
  /\ UNCHANGED <<rows, queue, spent>> /\ RecoveryUnchanged

\* The row is loaded again; its status is checked, its age is not.
LoadStuck(r, v) ==
  /\ recovery[r].pc = "scanning"
  /\ v \in recovery[r].todo
  /\ recovery' = [recovery EXCEPT ![r] =
       [pc |-> "deciding", todo |-> recovery[r].todo \ {v}, video |-> v, snap |-> rows[v]]]
  /\ UNCHANGED <<rows, queue, spent>> /\ RecoveryUnchanged

SkipStuck(r) ==
  /\ recovery[r].pc = "deciding"
  /\ recovery[r].snap # NoRow => ~Recoverable(recovery[r].snap)
  /\ NextStuck(r)
  /\ UNCHANGED <<rows, queue, spent>> /\ RecoveryUnchanged

GiveUpStuck(r) ==
  LET snap == recovery[r].snap
  IN /\ recovery[r].pc = "deciding"
     /\ snap # NoRow /\ Recoverable(snap) /\ ShouldFail(snap)
     /\ Commit(recovery[r].video, snap, GivenUp(snap))
     /\ NextStuck(r)
     /\ UNCHANGED <<queue, spent>> /\ RecoveryUnchanged

EnqueueStuck(r) ==
  LET snap == recovery[r].snap
  IN /\ recovery[r].pc = "deciding"
     /\ snap # NoRow /\ Recoverable(snap) /\ ~ShouldFail(snap)
     /\ Enqueue(recovery[r].video)
     /\ RecoveryAt(r, "marking")
     /\ Spend("requeues", MaxRequeues)
     /\ UNCHANGED rows /\ RecoveryUnchanged

EnqueueStuckFails(r) ==
  LET snap == recovery[r].snap
  IN /\ recovery[r].pc = "deciding"
     /\ snap # NoRow /\ Recoverable(snap) /\ ~ShouldFail(snap)
     /\ EnqueueRaises(recovery[r].video)
     /\ RecoveryAt(r, "refusing")
     /\ UNCHANGED rows /\ RecoveryUnchanged

\* If the message was stored after all, its run comes under this verdict.
GiveUpUnqueued(r) ==
  /\ recovery[r].pc = "refusing"
  /\ Commit(recovery[r].video, recovery[r].snap, GivenUp(recovery[r].snap))
  /\ NextStuck(r)
  /\ UNCHANGED <<queue, spent>> /\ RecoveryUnchanged

RequeueStuck(r) ==
  /\ recovery[r].pc = "marking"
  /\ Commit(recovery[r].video, recovery[r].snap, Requeued(recovery[r].snap))
  /\ NextStuck(r)
  /\ UNCHANGED <<queue, spent>> /\ RecoveryUnchanged

RecoveryDies(r) ==
  /\ recovery[r].pc # "idle"
  /\ Fault
  /\ recovery' = [recovery EXCEPT ![r] = IdleRecovery]
  /\ UNCHANGED <<rows, queue>> /\ RecoveryUnchanged

-----------------------------------------------------------------------------

UploadNext(v) ==
  \/ InsertRow(v) \/ StoreRaw(v) \/ SaveRawPath(v) \/ StoreRawFails(v)
  \/ EnqueueUpload(v) \/ EnqueueUploadFails(v) \/ MarkNotAccepted(v) \/ MarkQueued(v)

WorkerNext(w) ==
  \/ Dequeue(w) \/ SkipJob(w) \/ LoadJob(w) \/ Claim(w) \/ RefreshJob(w)
  \/ Transcode(w) \/ UploadProcessed(w) \/ UploadThumbnail(w) \/ Complete(w)
  \/ RecordSuccess(w) \/ ProcessingFails(w) \/ ReloadFailed(w) \/ MarkFailed(w)
  \/ DecideRetry(w) \/ RaiseToRq(w) \/ ReturnToRq(w)

RetryNext(a) ==
  \/ \E v \in Videos : LoadRetry(a, v)
  \/ EnqueueRetry(a) \/ EnqueueRetryFails(a) \/ ResetRetried(a)

RecoveryNext(r) ==
  \/ FindStuck(r) \/ (\E v \in Videos : LoadStuck(r, v)) \/ SkipStuck(r)
  \/ GiveUpStuck(r) \/ EnqueueStuck(r) \/ EnqueueStuckFails(r)
  \/ GiveUpUnqueued(r) \/ RequeueStuck(r)

Next ==
  \/ \E v \in Videos : UploadNext(v) \/ UploadDies(v) \/ Age(v)
  \/ \E w \in Workers : WorkerNext(w) \/ HandlerRaises(w) \/ WorkerDies(w)
  \/ \E a \in Admins : RetryNext(a) \/ RetryDies(a)
  \/ \E r \in Recoverers : RecoveryNext(r) \/ RecoveryDies(r)

Spec == Init /\ [][Next]_vars

\* A process that can act does, and the clock runs.  Nothing makes anybody
\* upload a video or retry a job, and nothing makes a process die.
Fairness ==
  /\ \A v \in Videos : WF_vars(Age(v)) /\ WF_vars(upload[v] # "none" /\ UploadNext(v))
  /\ \A w \in Workers : WF_vars(WorkerNext(w))
  /\ \A a \in Admins : WF_vars(retry[a].pc # "idle" /\ RetryNext(a))
  /\ \A r \in Recoverers : WF_vars(RecoveryNext(r))

FairSpec == Spec /\ Fairness

-----------------------------------------------------------------------------
(* Properties.                                                             *)

Outputs == {"processed", "thumbnail"}

HasStatus(v, statuses) == rows[v] # NoRow /\ rows[v].status \in statuses

\* The objects GET /videos/{id}/assets answers URLs of: none for a local row or
\* one that is not COMPLETED, else those whose keys the row names.
Assets(v) ==
  {object \in Objects :
     /\ StorageBackend = "object" /\ HasStatus(v, {"COMPLETED"})
     /\ IF object = "raw" THEN rows[v].raw ELSE rows[v].outputs}

InService(v) == HasStatus(v, {"QUEUED", "PROCESSING"})
Settled(v)   == HasStatus(v, {"COMPLETED", "FAILED"})
Untimed(v)   == HasStatus(v, {"PROCESSING"}) /\ rows[v].started = "never"

\* The messages waiting for v, and the handlers at work on it.
Waiting(v) == {i \in DOMAIN queue : queue[i].video = v}
Runners(v) == {w \in Workers : worker[w].pc # "idle" /\ worker[w].video = v}

\* A COMPLETED row, and a row that names output keys, has both outputs in the
\* store: whatever stale session commits, a verdict never outruns the uploads
\* of _run_processing.
OutputsExist ==
  \A v \in Videos :
    rows[v] # NoRow /\ (rows[v].status = "COMPLETED" \/ rows[v].outputs)
      => Outputs \subseteq objects[v]

\* What the assets endpoint signs URLs of is in the store, however runs of one
\* job overlap and however late the commits of stale sessions come.
AssetsExist == \A v \in Videos : Assets(v) \subseteq objects[v]

\* A COMPLETED row names the keys of its outputs (the assets endpoint signs
\* them): the keys go to the table in the commit that completes the row.
CompletedHasKeys ==
  \A v \in Videos : HasStatus(v, {"COMPLETED"}) => rows[v].outputs

\* The same where recovery is not at work: one manual retry that resets the row
\* in the middle of a run takes away only what that run will write again.  The
\* property leaves out what makes a row FAILED that has keys already, so that a
\* reset may take them from under a run that has loaded them: a second retry,
\* and a fault, which is an exception after the row was completed or the late
\* FAILED of an upload whose message was stored after all.
RetryKeepsKeys ==
  spent["faults"] = 0 /\ spent["retries"] <= 1 => CompletedHasKeys

\* Nobody runs a message whose raw video was not stored before: the upload
\* enqueues last, and recovery requeues only what an upload had queued.
RawBeforeQueue ==
  \A v \in Videos : Waiting(v) \cup Runners(v) # {} => "raw" \in objects[v]

\* A video has one message or one handler, never two: RQ's retry replaces the
\* message it took, even when a handler dies, raises after it has completed the
\* job, or an answer of Redis is lost.
OneRunner ==
  \A v \in Videos : Cardinality(Waiting(v)) + Cardinality(Runners(v)) <= 1

\* The two counters of a job agree at every step: the runs RQ still owes the
\* message and the attempts the row has counted add up to max_attempts, until
\* a handler dies or raises outside the processing, which before the claim
\* costs a run that the row does not count, or an answer of Redis is lost.
RetriesAligned ==
  spent["faults"] = 0 =>
    \A v \in Videos :
      /\ \A i \in Waiting(v) : rows[v].attempts + queue[i].left + 1 = MaxAttempts
      /\ \A w \in Runners(v) :
           rows[v].attempts + worker[w].left =
             IF worker[w].pc \in {"loading", "claiming"} THEN MaxAttempts - 1 ELSE MaxAttempts

\* A job that failed with attempts left is going to be run again: unless a
\* process died or raised outside the processing, or an answer was lost, no
\* FAILED row is left between RQ, which dropped it, and cleanup, which waits
\* for retry_exhausted.
NoFailedInLimbo ==
  spent["faults"] = 0 =>
    \A v \in Videos :
      HasStatus(v, {"FAILED"}) /\ rows[v].attempts > 0 /\ ~rows[v].exhausted
        => Waiting(v) \cup Runners(v) # {}

\* A job is not attempted more often than max_attempts says.
AttemptsWithinMax ==
  \A v \in Videos : rows[v] # NoRow => rows[v].attempts <= MaxAttempts

\* A PROCESSING row has the start time recovery measures its age by.
ProcessingIsTimed == \A v \in Videos : ~Untimed(v)

\* A COMPLETED row is changed by nobody but the upload request that sent the
\* message, when its own commit (QUEUED, or FAILED if the answer to the message
\* was lost) comes after the worker's, and a worker that raised after it had
\* completed the row, or skipped it, and has loaded it COMPLETED to mark it FAILED.
CompletedIsKept ==
  [][\A v \in Videos :
       HasStatus(v, {"COMPLETED"}) /\ rows'[v] # rows[v]
         => \/ upload[v] \in {"refusing", "marking"} /\ upload'[v] = "done"
            \/ \E w \in Runners(v) :
                 /\ worker[w].pc = "marking" /\ worker'[w].pc = "deciding"
                 /\ worker[w].snap.status = "COMPLETED"]_vars

\* Where nobody retries or recovers, a job is what JobLife promises: its runs do
\* not overlap and are counted, and its status says what the last of them or
\* the upload has committed.  A run is at work from its claim to its verdict.
Life == INSTANCE JobLife WITH
  status  <- [v \in Videos |-> IF rows[v] = NoRow THEN "none" ELSE rows[v].status],
  tries   <- [v \in Videos |-> IF rows[v] = NoRow THEN 0 ELSE rows[v].attempts],
  running <- {v \in Videos : \E w \in Runners(v) : worker[w].pc \in Processing},
  open    <- {v \in Videos : upload[v] \notin {"none", "done"}}

ImplementsLife == Life!LifeSpec

\* Every job in the queue or with a worker ends COMPLETED or FAILED and stays
\* so: RQ runs what is queued, recovery requeues what was lost.
Settles == \A v \in Videos : InService(v) ~> []Settled(v)

\* The same when handlers die, except for a row whose start time is gone.
SettlesUnlessUntimed == \A v \in Videos : InService(v) ~> [](Settled(v) \/ Untimed(v))
=============================================================================
