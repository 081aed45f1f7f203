# Verification of the distributed video processing system

TLA+ models of the API, the workers, the reconciler, the cleanup and the
dashboard of this repository, checked with TLC on small instances, and theorems about them
proved with TLAPS. `PROJECT.json` maps every definition to the lines it
models, and lists the runs, the mutants that each property is tried against,
the hazards and the theorems.

## 1. The system

A video is uploaded to the API, which inserts a row in PostgreSQL, stores the
raw file and sends a message to a Redis list through RQ. A worker takes the
message, transcodes the video with FFmpeg, stores two outputs and gives the
row its verdict. A reconciler, an administrator and a cleanup act on the same
rows at any time. Nobody talks to anybody else directly: all of them meet in
four places.

| shared state | who writes it | who reads it |
| --- | --- | --- |
| table `video_jobs` | upload, worker, manual retry, recovery, cleanup | all of them, the read endpoints |
| RQ list in Redis | upload, manual retry, recovery, RQ's own retry | workers, admission control |
| object store (or local files) | upload (raw), worker (outputs), cleanup (deletion) | worker, assets endpoint (signs URLs) |
| keys in Redis | reconciler (lock), rate limiter (counters) | the same |

The table has no version column, no handler locks a row, and nothing ties a
commit to a call to Redis or to the store. What makes the system hard is
therefore what happens *between* two steps of one handler.

### Inventory

| component (source) | state it keeps | operations | hard behaviour | what makes it correct |
| --- | --- | --- | --- | --- |
| Job rows (`db/models.py`, `db/session.py`) | one row per job; a snapshot per session | load, assign, commit | a commit writes the attributes that differ from the *snapshot*, over whatever the row has become | a verdict never names what does not exist |
| Upload (`video_service.py`) | the request | insert, store, enqueue, mark `QUEUED` | the mark comes after the message; each step may fail; the process may die; local mode records the path late | nobody runs a job without its raw file; only its own late commit overwrites a verdict |
| Upload endpoint (`api/v1/videos.py`) | the request | rate limit, key lookup, admission, validation, insertion, answer | two requests with one key; a job gone or failed between two looks | one key, one job; an answered job goes on |
| Admission (`admission_control.py`) | none | compare depth and workers with thresholds | check, then act much later | the messages of uploads are bounded all the same |
| Rate limiter (`rate_limiter.py`) | a counter per client and window | `INCR`, `EXPIRE`, decide | two calls; the window is read before it is counted | a window lets `limit` punctual requests through; counters go away |
| RQ (`queue_service.py`; the library is external) | list, retries left per message | enqueue, dequeue, retry | an answer may be lost; a work-horse or a whole worker may die | no message is doubled; the two retry counters agree |
| Worker (`video_worker.py`) | its message, its snapshot | skip, claim, download, transcode, upload twice, complete, fail | runs of one job may overlap; RQ's timeout raises anywhere, also after the commit of `COMPLETED` | outputs before verdict; attempts bounded; nothing is left in limbo |
| Manual retry (`job_service.py`) | its snapshot | enqueue, then reset | the message runs before the reset | the reset damages no run |
| Recovery (`job_recovery_service.py`) | the list of a pass, its snapshot | list, reload, give up, enqueue, reset | the worker may be alive; the reset is late | every job gets a verdict |
| Reconciler and lock (`run_reconciler.py`, `distributed_lock.py`) | a Redis key with an expiry | acquire, pass, hold, release | the key expires under a pass; crashes; calls that raise | passes exclude each other; the key is never left behind |
| Cleanup (`job_cleanup_service.py`) | the candidates of a pass, its snapshot | delete objects, mark or delete the row | one deletion of several fails; rows deleted under sessions | no raw object that no row names; every candidate is reached and cleaned; retention is kept |
| Dashboard (`frontend/app/page.tsx`) | its job, the status and the assets it shows, the requests in flight | upload, poll until a final status, load assets, retry | answers out of order, effects cancelled late; `FAILED` is not final | it shows its own job only; a final status stays; a completed job is shown |

## 2. Modules

| module | models | uses |
| --- | --- | --- |
| `JobRow` | one row: what each handler checks and assigns, and what the commit of a stale session writes (`Flush`) | |
| `VideoJobs` | upload, worker, RQ, manual retry, recovery over shared `rows`, `queue`, `objects` | extends `JobRow`, instance of `JobLife` |
| `JobLife` | abstract: what a caller may rely on about a job that nobody retries or recovers | |
| `JobCleanup` | composes several cleanup passes, each as one candidate meets it, with all processes of `VideoJobs`, and the handlers whose row is deleted under them | extends `VideoJobs` |
| `CleanupBatches` | one pass over many jobs: the query with its order and limit, the retention, the failures of single jobs | |
| `Dashboard` | composes the page with jobs that live as `JobLife` says | extends `JobLife` |
| `ReconcilerLock` | reconcilers, the Redis key, the clock | instance of `Lease` |
| `Lease` | abstract: what a lease promises to its users | |
| `UploadIntake` | the upload endpoint: rate limit, idempotency, admission, validation, insertion race, answer | |
| `RateLimiter` | the counters of the rate limiter and the clock | |
| `..._proofs` | theorems about `VideoJobs`, `JobCleanup`, `CleanupBatches`, `ReconcilerLock`, `UploadIntake`, `RateLimiter`, `Dashboard` | extends the module, `TLAPS` |
| `JobLife_proofs` | theorems about `VideoJobs` where nobody recovers a job, among them that it implements `JobLife` | extends `VideoJobs_proofs` |
| `MC...` | instances for TLC: symmetry, functions for constants | extends the module |

### How state and actions correspond to the code

* **Sessions.** SQLAlchemy loads a row, the handler assigns attributes, and the
  flush of a commit writes the attributes whose value differs from the loaded
  one. `Flush(row, old, new)` is that UPDATE: `old` the snapshot, `new` what the
  handler made of it, `row` what the table holds by then. Each action that
  commits says `Commit(v, snapshot, assigned)`. `updated_at` follows every
  UPDATE. A handler that assigns the value it loaded writes nothing; the
  finding of run `keys_lost` is a consequence of this.
* **Atomic steps.** One commit, one load, or one call to Redis or the store.
  Between any two of them any other process may act. The worker's commit and
  the refresh after it are two steps, as are an exception with its rollback, the
  reload, the commit of `FAILED`, and the decision whether to raise to RQ, which
  reads the attempts of a row that the commit has expired (`DecideRetry`). A call to `enqueue` and
  the commit of what came of it, `QUEUED` or `FAILED`, are two steps as well, in
  the upload, in a manual retry and in a recovery pass.
* **Exceptions of the handler.** Its `try` covers everything from the load of the row
  to the log of the success. An exception while the job is processed
  (`ProcessingFails`: FFmpeg, the store, RQ's timeout) is an ordinary failure, which
  may happen any number of times. One outside the processing (`HandlerRaises`: RQ's timeout or
  an error of the database at the load, the claim, the refresh, or *after* the
  commit of `COMPLETED`) counts as a fault and takes the same path: the row is
  loaded, marked `FAILED` whatever it is, and perhaps run again. An exception in the
  `except` clause itself goes to RQ and is a case of `WorkerDies`.
* **Columns.** Status, attempts, `retry_exhausted`, `processing_started_at`,
  `updated_at`, the raw key (path), the output keys (paths, which are written
  together) and `cleaned_up_at`. Times are `never`, `recent` or `stale` with
  regard to the stuck timeout, and `Age` is the clock passing it; only recovery
  looks at it, so an instance without recoverers does without. Error texts,
  durations, trace context and counters for display are left out.
* **RQ.** A message carries the retries RQ owes it. With interval 0 a handler
  that raised, or whose work-horse died, goes back to the list at once; if the
  whole worker dies the message may be lost. A call to `enqueue` may raise with
  the message stored or not.
* **Local and object mode** differ in what they commit and when; `StorageBackend`
  chooses, and both are run.
* **Cleanup, a candidate.** In `JobCleanup` each pass has one job in hand,
  against all other processes. It may ask for any age, 0 days included, so a
  candidate is of any age. Whether it is the first of its pass or a later one
  matters: the first is used as it was read (`FindCandidate`), the others are
  loaded again, because the commit before them expires them (`LoadListed`), and
  neither is checked again.
* **Cleanup, a pass.** In `CleanupBatches` the other processes are one step
  each. `order` is the sequence of rows that the query would return without its
  limit; an UPDATE moves a row to its end, and one that changes nothing, such as
  the same error text again, does not. `raced` is a history variable for
  `RetentionKept`.
* **Job life.** `running` are the jobs with a run between its claim and its end
  (`Complete`, or `Lose` for one that raised or died), `open` those whose upload has
  not given its verdict. `Fail` is the verdict of a handler that raised: it comes
  when no run is at work, and may turn a completed job into a failed one. `VideoJobs` implements it where there is no
  recovery and no manual retry; `ImplementsLife` gives the mapping.
* **Dashboard.** A request is a slot in `polls`: free, with the job asked for,
  or with its answer. `deps` are the values the effects last ran with: the page
  is re-rendered before they run again, and answers may come between the two.
  Cancelling an effect empties its slots, since a cancelled answer changes
  nothing whenever it comes. `RetryJob` is the button for a failed job.
* **Lock.** Time is a count of ticks. Sleeps and retries may be late by any
  amount; only the length of a pass has a bound, `PassMax`, which the code does
  not enforce. `since` is a history variable for `OnePassPerHold`.
* **Intake.** A job is named by the request that would insert it. The workers,
  cleanup and the rest of the queue are one action each. `peak` is a history
  variable for `BacklogBounded`.
* **Rate limiter.** Clients, the window and the counters; `at` records when a
  request was counted, for the properties only.

Operators introduced by a comment "Variant: ..." are not part of the
specifications: each is a plausible mistake in the definition after it, and
the property named with it in `PROJECT.json` is violated when it is used.

## 3. Runs

All runs that pass are exhaustive. `CHECK_DEADLOCK FALSE` wherever the
instance may come to rest: the uploads, retries and requests are finitely many,
and when all is done nothing is left to do. The reconciler's run keeps the
check on.

| run | instance | shows |
| --- | --- | --- |
| `faults` | 2 videos, 2 workers, `max_attempts` 2, two faults: deaths, exceptions outside the processing, lost answers; no recovery and no manual retry | `OneRunner`, `RetriesAligned`, `NoFailedInLimbo`, `AttemptsWithinMax`: RQ and the row count alike and no message is doubled. `CompletedIsKept`: `COMPLETED` is overwritten only by the upload's own late commit and by a handler that raised after the completion. `ImplementsLife`: to its caller a job is what `JobLife` says |
| `retry` | 1 video, 2 workers, local mode, one administrator with two retries, one fault | `OutputsExist`, `RawBeforeQueue`, `ProcessingIsTimed`, `RetryKeepsKeys`: enqueueing before the reset does no damage to the row, as far as one retry goes |
| `recovery` | 1 video, 1 worker, one recoverer with 3 requeues, one fault | `AssetsExist`: a signed URL points to something. `SettlesUnlessUntimed`: every job gets a verdict and keeps it, except for an untimed row |
| `reconcilers` | 2 reconcilers, TTL 3, interval 4, passes up to 4 ticks, 2 faults | `MutualExclusion`: passes overlap only if one has taken the TTL. `OnePassPerHold`, `ImplementsLease`, `RecoversAgain`, with passes that outlast the key |
| `deletes` | 1 video, worker, administrator, `max_attempts` 2, 2 cleanups of which one deletes rows, one fault | `RawIsNamed`: no raw object is left behind. `CleanupConverges`: every retired job is cleaned. `DeletedIsForgotten`: what RQ has of a deleted job, retries included, ends. `LinksMended`: a URL that points to a deleted object does not last |
| `batch` | 3 jobs, batches of 2, one job that cannot be cleaned, one fault, one retry | `RetentionKept`: what is deleted is past its retention or was retried under the pass. `BatchReaches`: every due job is reached, as long as fewer rows than a batch are in the way for good |
| `dashboard` | 2 jobs, 2 status requests in flight, one request that fails, uploads and retries from the page | `OwnJobShown`, `StoppedIsStill`: no late answer shows another job or takes a final status away. `PageSettles`: a completed job is shown in the end, or the page stopped at an earlier `FAILED` |
| `limiter` | 4 requests of 2 clients, limit 1, window 3, two windows, one fault | `WindowLimit`, `PunctualRateBounded`: of the requests counted in their own windows, `limit` pass in a window and twice as many in any stretch of its length. `CountersExpire` |
| `intake` | 3 requests, two with one key, object mode, one death | `SameJob`, `BacklogBounded`, `AnsweredGoesOn` |
| `untimed` | like `recovery`, against `Settles` | violated, see below |
| `keys_lost` | 2 workers, one recoverer, no fault | `CompletedHasKeys` violated |
| `stranded` | 2 requests with one key, local mode | `AnsweredGoesOn` violated |

### Bounds, and why they are enough

* *Videos.* The handlers of different videos meet only in the order of the
  list, in a worker that is busy and in the loop of a pass; `faults` and
  `batch` have several for that. The properties speak of one video each, so
  the others have one.
* *Workers.* Two, where two runs of one job may overlap; the workers are
  symmetric. `recovery` has one, to keep liveness small: there a run overlaps
  with a recovery pass.
* *`MaxAttempts`* 2 has a first attempt and a last one, and a message that RQ
  retries; a middle attempt differs from the first in nothing but its number, and
  the theorems about the counters are for every `max_attempts`. In `Dashboard` 1 is
  enough, because a retry from the page leaves `FAILED` as RQ's does.
* *`MaxFaults`* 1 or 2: a death, an exception outside the processing or a lost
  answer at every step. `MaxRetries`,
  `MaxRequeues` and `MaxQueue` bound what administrators and passes add. In
  `recovery` three requeues are more than `max_attempts`, so a job may be
  requeued until recovery gives it up.
* *Batches.* Two of three jobs fit. With one job that cannot be cleaned and one
  that may be left in limbo, the batch may be full for good or not: both
  sides of the premise of `BatchReaches` occur.
* *Page.* Two status requests are enough for an answer to be overtaken, two
  jobs for an answer about the job before.
* *Lock.* TTL 3 and interval 4 have the hold time (2) below both, as the
  defaults do (55, 60, 54). A pass of four ticks outlasts the key, one of two
  does not.
* *Limiter.* `MaxTime` 5 is two windows of three seconds, so a request may be
  counted after its window and a stretch of a window's length lies across both.
  Three requests of one client are one more than twice the limit.
* *Intake.* A depth limit of 1 with one foreign message is reached and
  surpassed by two requests that were admitted together.

### Fairness

Weak fairness of each process: a worker, reconciler or request that can act
does in the end, because the operating system runs it; `Age`, `GrowOld` and
`Tick`, because the clock runs; cleanup, because somebody calls it again and
again. On the dashboard requests are answered, effects run and the timer fires,
because the browser does that as long as the page is open; nobody has to upload,
to retry or to bring a job on, and `PageSettles` starts at a job that is done.
A process of `VideoJobs` that has not begun is not fair: nobody has to upload a
video or retry a job. Deaths and failures are never fair. Weak fairness of the
whole handler, not of its single outcomes, leaves it open whether a call
succeeds: FFmpeg or Redis may fail every time.

### Findings

The three violated properties state what a text of the repository says.

* `untimed`: a row is `QUEUED` with the start time of an earlier run (the
  upload's late commit leaves one, and so does a reset that raced before).
  Recovery finds it stuck and enqueues, a worker claims it, and then recovery
  commits: the status it assigns is the one it loaded and is not written, the
  start time is, as NULL. If the worker now dies, the row is `PROCESSING`
  without a start time, which no later pass finds stuck
  (`job_recovery_service.py:196`).
* `keys_lost`: a second run loads the keys of the first, recovery clears them,
  and the second run's completion assigns the same keys, which writes nothing:
  `COMPLETED` without keys.
* `stranded`: in local mode a failure to save the file leaves the row
  `UPLOADED` with its key, and repeating the request returns that row.

Seen while modelling, and not the subject of a run:

* A processed object that is uploaded before the thumbnail's upload fails is in
  no row (`video_worker.py:189`); cleanup goes by the row and leaves it.
* In object mode a manual retry does not look for the raw object: it enqueues a
  job whose upload failed to store it, and RQ runs the message in vain
  (`job_service.py:50`). Local mode leaves such a job `UPLOADED`, which no retry
  takes; `RawAlwaysBeforeQueue` states which of the two it is about.
* A second manual retry, or the late `FAILED` of an upload whose message was
  stored after all, leads to a reset that loses the keys of a run that has
  loaded them; `RetryKeepsKeys` names both exceptions, and the next one.
* The worker's `try` goes on after the commit of `COMPLETED`
  (`video_worker.py:288`): an exception in the lines that record the success, such
  as RQ's timeout, reaches the handler at line 333, which marks the completed job
  `FAILED` and, with attempts left, has RQ run it again. `CompletedIsKept` and
  `JobLife` allow it, and `RetryKeepsKeys` excludes it: the row then has keys which a
  manual retry may clear under the next run.
* A request that reads the clock in one window and is counted after it finds the
  counter of a window that is over, perhaps expired, and passes on top of the
  limit (`rate_limiter.py:77-83`). With such requests a stretch of a window's
  length lets more than `2 * Limit` through; nothing in the code bounds how late they
  are. `WindowLimit` and `PunctualRateBounded` are about the others.
* The page stops at `FAILED` (`page.tsx:203`), which RQ's next run leaves, and
  its own retry button does not resume the polling; `PageSettles` allows it.
* Rows that stay in the query for good, `FAILED` with attempts left or with
  objects that cannot be deleted, starve cleanup once they fill a batch
  (`job_cleanup_service.py:193`); the premise of `BatchReaches` excludes it.
* A manual retry of a job that a pass has read before loses its raw video, and
  if its run completes, the row is marked cleaned although its new outputs are
  not deleted (`job_cleanup_service.py:146`); `RetentionKept` and `LinksMended`
  name the exception.
* `POST /jobs/cleanup` always passes its own `delete_db_rows`, so
  `CLEANUP_DELETE_DB_ROWS` has no effect through the API (`jobs.py:130`).
* Nothing bounds a pass or renews the key, and `POST /jobs/recover-stuck` takes
  no lock, so that two passes may recover one job at a time
  (`run_reconciler.py:185`, `jobs.py:91`), which `README.md:157` excludes.
* Recovery lets `attempt_count` exceed `max_attempts` (`video_worker.py:248`
  counts, and only RQ's own count limits it).
* In local mode cleanup clears the paths and leaves the files.

## 4. Proofs

Every safety invariant and every action property that a passing run checks is
a theorem, and so are the two refinements. All are for arbitrary constants, under the
named assumptions of the modules (`MaxAttempts`, the window and the TTL positive, limits and the interval
natural, requests and jobs finitely many, special values such as "no row" or
`null` apart from the others). TLC evaluates these on every run. Some theorems
assume more of a constant, each time what its run has too: `Recoverers = {}`
or `Admins = {}`, where the property fails with recovery or retries next to
the job, and the storage mode.

**`VideoJobs_proofs`**

* `TypeCorrect`: `Spec => []TypeOK`. Types alone are not inductive: a commit
  needs the session to hold a row. `Inv == TypeOK /\ SnapsHeld` adds that every
  handler in a state from which it commits has a snapshot. Lemmas: what
  handlers assign is a row in hand (`AssignedType`), and a commit of that over
  any row is a row (`FlushType`, `CommitType`). One lemma per process, then
  `NextInv`.
* `OutputsAlwaysExist`: `Spec => []OutputsExist`. A verdict is committed steps
  after the uploads, so the property says too little about the worker in
  between. `ObjectsInv` adds `ObjectsHeld`: a worker past the first upload has
  that object in the store, and one about to complete has both. It is
  inductive because objects are only added, and because what is assigned
  without a verdict (`AssignedNoVerdict`), over whatever row and from however
  old a snapshot, leaves a row done only if it was (`CommitNoVerdict`).
* `AssetsAlwaysExist`: `Spec => []AssetsExist`, where the assets include the raw
  video. Both theorems rest on `ObjectsInv`: a row that is done has all three
  objects in the store, because a worker that got past its download has seen the
  raw one there. There may be any number of recovery passes and administrators;
  cleanup is not part of `VideoJobs`.
* `RawAlwaysBeforeQueue`: `Spec => []RawBeforeQueue`, in local mode or without
  administrators. `RawInv` follows the raw object to whatever may send a
  message: an upload that is past the storing, a row that was sent off, the
  snapshots of retries and recovery passes. In local mode a failed store leaves
  the row `UPLOADED`, and neither of the two takes that; in object mode it
  becomes `FAILED`, which a manual retry takes (see Findings).
* `ProcessingAlwaysTimed`: `Spec => []ProcessingIsTimed` without recovery. A commit
  writes the start time with `PROCESSING` (the claim) or takes it away together
  with a status that differs from its snapshot's: a retry has loaded `FAILED`
  (`RetriesFailed`), so its reset writes `QUEUED`. A pass that has loaded `QUEUED`
  is the only one whose reset leaves the status out, and that is the finding of run
  `untimed`.

**`JobLife_proofs`**: a job that nobody recovers, and until somebody retries it

* `RunsInv` is the invariant. No row is ever locked, so what keeps commits apart is that a
  video has one message or one handler (`OneRun`). Then a snapshot is the row,
  but for the status that the upload's late commit has written since
  (`Agrees`). Row and message are tied by `MessageFits`, row and handler by
  `HandlerFits`, state by state: attempts counted and retries owed add up to
  what is due, or to less when a fault took some (`Fits`). A video whose upload
  has sent nothing has no message (`NotSent`).
* `OneRunnerAlways`, `RetriesAlwaysAligned`, `FailedAlwaysGoesOn` and
  `AttemptsAlwaysWithinMax` are its parts, for every `max_attempts`, until the first
  manual retry (`Unretried`; with `Admins = {}`, as in `faults`, that is always).
  A retry adds a message to one that may be there, and resets the count.
* `CompletedAlwaysKept`: `Spec => CompletedIsKept`, without administrators: nobody
  who could commit over `COMPLETED` is at work but the upload and the job's own
  handler after it raised; and that one has loaded the row `COMPLETED`, since its
  snapshot differs from the row only in what the upload has committed (`Agrees`).
* `JobsLiveAsPromised`: `Spec => ImplementsLife`, without administrators. The
  initial states map, and each action maps to an action of `JobLife` or a stutter,
  given `RunsInv`: that a run is the only one of its job is `OneRun`, that it
  begins with an attempt left is `Fits`.
* `RetryAlwaysKeepsKeys`: `Spec => []RetryKeepsKeys`, with any number of
  administrators. `KeysHold` adds to `RunsInv` that, before the first fault, a `FAILED` row which nobody has
  retried has no keys (`NoKeysYet`): so the reset of the one retry, however late,
  assigns what it loaded and takes none away (`ResetsKeepKeys`), and keys which a
  run has loaded are still there when it assigns them again (`LoadedKeysStay`).

**`JobCleanup_proofs`**

* `CleanupTypeCorrect`: `CSpec => []CleanupTypeOK`, for any number of passes, next to any
  number of all the processes of `VideoJobs`, recovery passes among them: no step of a
  session needs its row to be there, but those that say so.
* `RawAlwaysNamed`: `CSpec => []RawIsNamed` in object mode. A pass takes the key
  from the row steps after the deletions, so `RawGoesFirst` says that as long as
  the raw object is there a deleting pass has it on its list; and a row that is just
  inserted has nobody at work on it (`FreshAreAlone`: no message, handler, retry
  or cleanup, and no recovery pass about to act), so nothing is deleted under the
  store. In local mode the path is recorded after the file is stored,
  and cleanup deletes no files: the property is about object storage.

**`CleanupBatches_proofs`**

* `BatchTypeCorrect`: `Spec => []TypeOK`, which says that the order holds every
  finished job that is not cleaned, once. It rests on lemmas about what
  `RemoveFirst` and `Append` do to a sequence without repetitions.
* `RetentionAlwaysKept`: `Spec => RetentionKept`. `ListIsDue`: what is on a list was
  old when it was made, and only a retry, which `raced` remembers, makes it
  young again. The pass itself checks nothing later on.

**`ReconcilerLock_proofs`**

* `PassesExclude`: with the lock enabled, `MutualExclusion`, for passes of any
  length. Needs `PassOwnsKey`: whoever has recovered for less than the TTL owns
  the key, and what the pass has taken and the key has left add up to it.
* `PassesSpread`: unless one-shot, `OnePassPerHold`. Needs `KeyOutlastsHold`:
  a key disappears by expiry, more than `Hold` ticks after it was set, or by
  the release of its owner, which counts from the start of its run; so when
  there is none, the last run that got it began `Hold` ticks ago. No bound on
  passes is needed.
* `LockIsLease`: `Spec => KeyLease!Spec`, the refinement. Needs `OwnKeyOnly`:
  a reconciler that is using the lock and owns the key owns it with the token
  of its present run, so what the release script compares is what the abstract
  lease asks. Each action maps to an action of `Lease` or a stutter.
* `TypeCorrect` for this module, on which all of them rest; `TypeOK` includes
  that a key has an expiry.

**`UploadIntake_proofs`**

* `IntakeTypeCorrect`: `Spec => []TypeOK`, inductive as it stands.
* `SameJobAlways`: `Spec => []SameJob`. The property compares answers, and says
  nothing of a row that is inserted after one. `KeyInv` adds `OneJobPerKey` (the
  unique index) and `AnswerHasKey`: an answer is a job with the key of its
  request. A row that is deleted leaves its key to another, so the property is
  about rows that are there.
* `BacklogAlwaysBounded`: `Spec => []BacklogBounded`, about the messages of uploads and
  not the list as a whole, on which retries and recovery come on top; inductive together
  with `KeyInv`: an admission finds a list below the limit, and `peak` counts
  the requests that were admitted together. It needs `Unsent`: a request
  between admission and enqueueing has no message yet, so that enqueueing takes
  from the one set what it adds to the other.

**`RateLimiter_proofs`**

* `WindowAlwaysLimited`: `Spec => []WindowLimit`. `Counted` adds that a counter,
  as long as its window lasts, has counted everybody it let through (`LetThrough`
  has those that are let through once their expiry is set, too). A counter lives
  that long because it is created in its window at the earliest
  (`WindowsBegun`) and expires a window's length after that (`OutlivesWindow`).
  Failures only add to a counter or leave it alone (`CountedKept`).
* `PunctualRateAlwaysBounded`: `Spec => []PunctualRateBounded`. Windows are aligned
  (`Aligned`) and a request is counted no earlier than in its own (`CountedInTime`), so
  any `Window` seconds have punctual requests of two windows only (`TwoWindows`), each
  within the limit. Late requests are outside the statement.
* `CountersAlwaysExpire`: `Spec => []CountersExpire`, inductive next to the types.
* `LimiterTypeCorrect`: `Spec => []TypeOK`. That a counter stays at the number of
  its client's requests needs `OnceEach`: it stays at those that have called
  `INCR`, which each does once.

**`Dashboard_proofs`**

* `OwnJobAlwaysShown`: `Spec => []OwnJobShown`. `PageInv` adds that what is in
  flight belongs to the effect in force (`PollsAreOwn`, `LoadingIsOwn`), that
  this effect belongs to the last upload or has not run yet (`EffectIsOwn`), and
  that an upload under way is alone on an empty page (`SubmitIsAlone`).
* `StoppedStaysStill`: `Spec => StoppedIsStill`, from the same invariant: after
  the effects of a final status have run there is no request in flight.
* `PageTypeCorrect`: `Spec => []PageTypeOK`, part of `PageInv`.

### Only model-checked

Everything under fairness (`SettlesUnlessUntimed`, `RecoversAgain`, `CleanupConverges`,
`DeletedIsForgotten`, `LinksMended`, `BatchReaches`, `PageSettles`,
`AnsweredGoesOn`): liveness is out of the prover's reach, as is `ENABLED`. The
three findings are counterexamples of TLC.

The modules avoid what cannot be proved about: `CleanupBatches` describes the list of
candidates by its order (`IsCandidateList`) instead of `SelectSeq`, since what a
recursive operator yields for every input would need an induction over data.

## 5. Not modelled

* Errors of the database, but in the worker (`HandlerRaises`): elsewhere a commit
  succeeds or the process dies. A row deleted meanwhile *is* modelled (`JobCleanup`).
* FFmpeg, its command lines and temporary files: processing succeeds or raises.
* Metrics, tracing, logging, admin authentication, schemas, queue health: no
  modelled behaviour depends on them. Read endpoints are modelled where somebody
  acts on what they answer (status and assets, by the dashboard).
* Parsing and validation of settings (`config.py`): the validated ranges are
  assumptions on the constants.
* Migrations, deployment manifests, dashboards of Grafana, and the scripts: load
  generators and renderers of reports, which keep no state that the system
  reads. What deployment contributes, namely restarts, is in the crashes.
* The health panels and the lists of failed and stuck jobs on the page: they show
  an answer and lead to nothing.
* Age thresholds in days (a job is past its retention or not), the files of
  local mode, presigned URLs beyond the objects they name.
* Recovery next to cleanup is part of `JobCleanup` and of its theorems, but not of the
  run: the state space of both with liveness is beyond an exhaustive one. So
  `CleanupConverges`, `DeletedIsForgotten` and `LinksMended` are checked without recovery.
* The time a presigned URL lives, and objects deleted by others.

## 6. Plan

Done: the modules above, with the abstract specifications `Lease` and `JobLife`.
What is left, in order:

1. An abstract intake, one job per key and an answer for each request, refined
   by `UploadIntake`.
2. What recovery leaves of the job's life: a weaker `JobLife` in which a job may
   be begun again, refined with `Recoverers` and `Admins` present.
3. Cleanup's one candidate and cleanup's batch related: each pass of
   `CleanupBatches`, seen at one job, as a pass of `JobCleanup`.
4. A second recoverer with liveness, if a reduction of the row makes it small
   enough.
