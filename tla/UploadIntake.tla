---------------------------- MODULE UploadIntake ----------------------------
(***************************************************************************)
(* POST /videos/upload as its callers see it: rate limit, idempotency key, *)
(* admission by queue depth and workers, validation, insertion under the   *)
(* unique index on the key, storage, enqueueing, and the answer.           *)
(*                                                                         *)
(* Requests run in several API processes, and within one they interleave   *)
(* wherever the handler awaits.  A job is named by the request that would  *)
(* insert it.  The verdict of the rate limiter is left open here and is in *)
(* RateLimiter; what workers do to a job is in VideoJobs, here one step.   *)
(***************************************************************************)
EXTENDS Naturals, FiniteSets

CONSTANTS
  Requests,        \* upload requests
  Keys, NoKey,     \* idempotency keys; a request without a (used) key
  KeyOf,           \* the key of each request
  StorageBackend,  \* settings.storage_backend: "object" or "local"
  MaxQueueDepth,   \* max_queue_depth_for_uploads
  MinWorkers,      \* min_available_workers_for_uploads
  Pending, Refused,  \* no answer yet; an answer that names no job
  MaxOthers,       \* bound: messages in the list that uploads did not send
  MaxWorkers,      \* bound: workers registered at the queue
  MaxDeaths        \* bound: API processes that die in a request

ASSUME RequestsAssumption == IsFiniteSet(Requests)
ASSUME KeysAssumption == NoKey \notin Keys /\ KeyOf \in [Requests -> Keys \cup {NoKey}]
ASSUME IntakeStorageAssumption == StorageBackend \in {"object", "local"}
ASSUME DepthAssumption == MaxQueueDepth \in Nat \ {0} /\ MinWorkers \in Nat
ASSUME AnswersAssumption == {Pending, Refused} \cap Requests = {} /\ Pending # Refused
ASSUME IntakeBounds == {MaxOthers, MaxWorkers, MaxDeaths} \subseteq Nat

VARIABLES
  pc,        \* where each request is
  job,       \* the status of each job's row, "none" when there is no row
  answer,    \* the job each request was answered with
  waiting,   \* jobs with a message of their upload in the RQ list
  others,    \* other messages in the list: retries, and what recovery requeued
  workers,   \* workers registered at the queue
  peak,      \* history: most requests at once between admission and enqueueing
  deaths     \* processes that died so far

vars == <<pc, job, answer, waiting, others, workers, peak, deaths>>

Pcs == {"new", "looking", "admitting", "receiving", "inserting", "raced",
        "storing", "enqueuing", "refusing", "marking", "answered", "dead"}

\* "unqueued" is FAILED with the message enqueue_failed.
JobStatuses == {"none", "UPLOADED", "QUEUED", "COMPLETED", "FAILED", "unqueued"}
Final == {"COMPLETED", "FAILED", "unqueued"}

TypeOK ==
  /\ pc \in [Requests -> Pcs]
  /\ job \in [Requests -> JobStatuses]
  /\ answer \in [Requests -> Requests \cup {Pending, Refused}]
  /\ waiting \subseteq Requests
  /\ others \in 0..MaxOthers /\ workers \in 0..MaxWorkers
  /\ peak \in Nat /\ deaths \in 0..MaxDeaths

Init ==
  /\ pc = [r \in Requests |-> "new"]
  /\ job = [r \in Requests |-> "none"]
  /\ answer = [r \in Requests |-> Pending]
  /\ waiting = {} /\ others = 0 /\ workers = 0
  /\ peak = 0 /\ deaths = 0

-----------------------------------------------------------------------------

IsAt(r, state) == pc[r] = state
GoesTo(r, state) == pc' = [pc EXCEPT ![r] = state] /\ UNCHANGED answer
Answers(r, a) ==
  pc' = [pc EXCEPT ![r] = "answered"] /\ answer' = [answer EXCEPT ![r] = a]
SetJob(j, status) == job' = [job EXCEPT ![j] = status]

QueueUnchanged == UNCHANGED <<waiting, others, workers, deaths>>

\* Admitted, and no message sent yet: nobody else counts them.
Admitted == {r \in Requests : pc[r] \in {"receiving", "inserting", "storing", "enqueuing"}}
Depth == Cardinality(waiting) + others

\* The rows that carry the idempotency key of r.
SameKey(r) == {j \in Requests : KeyOf[r] # NoKey /\ KeyOf[j] = KeyOf[r] /\ job[j] # "none"}

-----------------------------------------------------------------------------
(* Validation, in two parts: the length the request declares, before its   *)
(* body is read, and the file of the form.                                 *)

Bodies ==
  [ length : {"none", "within", "beyond"},   \* Content-Length, next to max_upload_bytes
    file   : BOOLEAN,                        \* the form has a field "file" that is a file
    suffix : {"none", "video", "other"},     \* of the file's name; "none": no name
    type   : {"none", "video", "other"},     \* its content type
    empty  : BOOLEAN ]

\* A length that is missing, negative or no number is no reason to refuse.
LengthRefused(body) == body.length = "beyond"

FileRefused(body) ==
  \/ ~body.file
  \/ body.suffix # "video"
  \/ body.type = "other"
  \/ body.empty

-----------------------------------------------------------------------------
(* The request.                                                            *)

\* 429, or 503 when Redis cannot be asked.
CheckRate(r) ==
  /\ IsAt(r, "new")
  /\ GoesTo(r, "looking") \/ Answers(r, Refused)
  /\ UNCHANGED <<job, peak>> /\ QueueUnchanged

\* 400 for a key that is empty or too long, 500 when the table cannot be read.
RefuseKey(r) ==
  /\ IsAt(r, "looking") /\ KeyOf[r] # NoKey
  /\ Answers(r, Refused)
  /\ UNCHANGED <<job, peak>> /\ QueueUnchanged

\* A job with the key is the answer, whatever has become of it.
FindExisting(r) ==
  /\ IsAt(r, "looking")
  /\ \E j \in SameKey(r) : Answers(r, j)
  /\ UNCHANGED <<job, peak>> /\ QueueUnchanged

FindNone(r) ==
  /\ IsAt(r, "looking") /\ SameKey(r) = {}
  /\ GoesTo(r, "admitting")
  /\ UNCHANGED <<job, peak>> /\ QueueUnchanged

\* Variant: a full queue takes one more.
AdmitsOneMore == workers >= MinWorkers /\ Depth <= MaxQueueDepth

Admits == workers >= MinWorkers /\ Depth < MaxQueueDepth

Admit(r) ==
  /\ IsAt(r, "admitting") /\ Admits
  /\ GoesTo(r, "receiving")
  /\ LET n == Cardinality(Admitted) + 1 IN peak' = IF n > peak THEN n ELSE peak
  /\ UNCHANGED job /\ QueueUnchanged

\* Also when Redis cannot be asked.
NotAdmitted(r) ==
  /\ IsAt(r, "admitting")
  /\ Answers(r, Refused)
  /\ UNCHANGED <<job, peak>> /\ QueueUnchanged

\* 413 at once, or the form is read (an await) and 400 or 415 for its file.
Receive(r) ==
  /\ IsAt(r, "receiving")
  /\ \E body \in Bodies :
       IF LengthRefused(body) \/ FileRefused(body) THEN Answers(r, Refused)
       ELSE GoesTo(r, "inserting")
  /\ UNCHANGED <<job, peak>> /\ QueueUnchanged

\* Variant: no unique index on the key.
InsertAnyway(r) ==
  /\ IsAt(r, "inserting")
  /\ SetJob(r, "UPLOADED") /\ GoesTo(r, "storing")
  /\ UNCHANGED peak /\ QueueUnchanged

\* The unique index lets the row in, or the commit is rolled back.
Insert(r) ==
  /\ IsAt(r, "inserting")
  /\ \/ SameKey(r) = {} /\ SetJob(r, "UPLOADED") /\ GoesTo(r, "storing")
     \/ SameKey(r) # {} /\ UNCHANGED job /\ GoesTo(r, "raced")
  /\ UNCHANGED peak /\ QueueUnchanged

\* Variant: whatever the lookup returns is the answer.
AnswerNoJob(r) ==
  /\ IsAt(r, "raced")
  /\ Answers(r, IF SameKey(r) = {} THEN NoKey ELSE CHOOSE j \in SameKey(r) : TRUE)
  /\ UNCHANGED <<job, peak>> /\ QueueUnchanged

\* The winner's job is the answer, but for 503 when its enqueueing failed and
\* 500 when its row is gone by now.
AnswerRaced(r) ==
  /\ IsAt(r, "raced")
  /\ \/ \E j \in SameKey(r) : Answers(r, IF job[j] = "unqueued" THEN Refused ELSE j)
     \/ SameKey(r) = {} /\ Answers(r, Refused)
  /\ UNCHANGED <<job, peak>> /\ QueueUnchanged

Store(r) ==
  /\ IsAt(r, "storing")
  /\ GoesTo(r, "enqueuing")
  /\ UNCHANGED <<job, peak>> /\ QueueUnchanged

\* Variant: the row is left as it is in object mode too.
LeaveUploaded(r) ==
  /\ IsAt(r, "storing")
  /\ UNCHANGED job /\ Answers(r, Refused)
  /\ UNCHANGED peak /\ QueueUnchanged

\* Object mode answers 201 with the FAILED job; local mode answers 500 and
\* leaves the row UPLOADED.
StoreFails(r) ==
  /\ IsAt(r, "storing")
  /\ \/ StorageBackend = "object" /\ SetJob(r, "FAILED") /\ Answers(r, r)
     \/ StorageBackend = "local" /\ UNCHANGED job /\ Answers(r, Refused)
  /\ UNCHANGED peak /\ QueueUnchanged

Enqueue(r) ==
  /\ IsAt(r, "enqueuing")
  /\ waiting' = waiting \cup {r}
  /\ GoesTo(r, "marking")
  /\ UNCHANGED <<job, others, workers, peak, deaths>>

\* Redis raises, whether the message was stored or not.
EnqueueFails(r) ==
  /\ IsAt(r, "enqueuing")
  /\ waiting' \in {waiting, waiting \cup {r}}
  /\ GoesTo(r, "refusing")
  /\ UNCHANGED <<job, others, workers, peak, deaths>>

\* 503, or 500 when the row is gone.  A worker that has the message after all
\* may come before the commit, or between it and the refresh: then 201.
MarkUnqueued(r) ==
  /\ IsAt(r, "refusing")
  /\ \/ job[r] # "none" /\ SetJob(r, "unqueued")
     \/ job[r] = "none" /\ UNCHANGED job
  /\ Answers(r, Refused) \/ (r \in waiting /\ Answers(r, r))
  /\ UNCHANGED peak /\ QueueUnchanged

\* 201, or 500 when the row is gone.
MarkQueued(r) ==
  /\ IsAt(r, "marking")
  /\ \/ job[r] # "none" /\ SetJob(r, "QUEUED") /\ Answers(r, r)
     \/ job[r] = "none" /\ UNCHANGED job /\ Answers(r, Refused)
  /\ UNCHANGED peak /\ QueueUnchanged

Die(r) ==
  /\ pc[r] \notin {"new", "answered", "dead"}
  /\ deaths < MaxDeaths /\ deaths' = deaths + 1
  /\ GoesTo(r, "dead")
  /\ UNCHANGED <<job, waiting, others, workers, peak>>

-----------------------------------------------------------------------------
(* The rest of the system.                                                 *)

\* A worker takes the message of j and gives the job a verdict.
Process(j) ==
  /\ j \in waiting
  /\ waiting' = waiting \ {j}
  /\ \E status \in {"COMPLETED", "FAILED"} :
       SetJob(j, IF job[j] \in {"UPLOADED", "QUEUED", "unqueued"} THEN status ELSE job[j])
  /\ UNCHANGED <<pc, answer, others, workers, peak, deaths>>

\* Cleanup deletes the row of a finished job.
RemoveRow(j) ==
  /\ job[j] \in Final
  /\ SetJob(j, "none")
  /\ UNCHANGED <<pc, answer, waiting, others, workers, peak, deaths>>

\* Messages nobody uploaded come and go, and so do workers.
QueueChanges ==
  /\ others' \in 0..MaxOthers /\ workers' \in 0..MaxWorkers
  /\ UNCHANGED <<pc, job, answer, waiting, peak, deaths>>

-----------------------------------------------------------------------------

RequestNext(r) ==
  \/ CheckRate(r) \/ RefuseKey(r) \/ FindExisting(r) \/ FindNone(r)
  \/ Admit(r) \/ NotAdmitted(r) \/ Receive(r) \/ Insert(r) \/ AnswerRaced(r)
  \/ Store(r) \/ StoreFails(r)
  \/ Enqueue(r) \/ EnqueueFails(r) \/ MarkUnqueued(r) \/ MarkQueued(r)

Next ==
  \/ \E r \in Requests : RequestNext(r) \/ Die(r) \/ Process(r) \/ RemoveRow(r)
  \/ QueueChanges

Spec == Init /\ [][Next]_vars

\* A request that was received goes on.
Fairness == \A r \in Requests : WF_vars(~IsAt(r, "new") /\ RequestNext(r))
FairSpec == Spec /\ Fairness

-----------------------------------------------------------------------------
(* Properties.                                                             *)

\* Idempotency (README.md, Reliability and Recovery): requests with one key
\* that were answered with jobs were answered with the same job, as long as
\* the rows are kept, however the requests race.
SameJob ==
  \A r, s \in Requests : KeyOf[r] = KeyOf[s] /\ KeyOf[r] # NoKey =>
    \A i, j \in Requests :
      answer[r] = i /\ answer[s] = j /\ job[i] # "none" /\ job[j] # "none" => i = j

\* Admission reads the depth long before the message is sent.  The messages of
\* uploads, waiting or on their way, exceed the limit by less than the requests
\* that were on their way together.  It bounds the messages of uploads only:
\* retries and recovery ask nobody, and theirs come on top.
BacklogBounded ==
  Cardinality(waiting) + Cardinality(Admitted) < MaxQueueDepth + peak

\* A job that somebody was answered with does not stay UPLOADED, unless the
\* process that was to enqueue it died: nobody else ever would, recovery
\* looks at QUEUED and PROCESSING only.
AnsweredGoesOn ==
  \A j \in Requests :
    (job[j] = "UPLOADED" /\ \E r \in Requests : answer[r] = j)
      ~> (job[j] # "UPLOADED" \/ pc[j] = "dead")
=============================================================================
