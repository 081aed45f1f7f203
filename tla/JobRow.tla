------------------------------- MODULE JobRow -------------------------------
(***************************************************************************)
(* One row of the table video_jobs, and what each handler writes to it.    *)
(*                                                                         *)
(* Handlers work on an ORM session: they load a row, assign attributes of  *)
(* the loaded copy and commit.  The table has no version column and no     *)
(* handler locks the row, so a commit is not checked against what others   *)
(* wrote since the load.  Flush says what the UPDATE of a commit writes:   *)
(* the attributes whose value differs from the loaded one, and no other.   *)
(***************************************************************************)
EXTENDS Naturals

CONSTANTS
  MaxAttempts,      \* VideoJob.max_attempts: 3 in every row the code inserts
  StorageBackend    \* settings.storage_backend: "object" or "local"

ASSUME MaxAttemptsAssumption == MaxAttempts \in Nat \ {0}
ASSUME StorageBackendAssumption == StorageBackend \in {"object", "local"}

Statuses == {"UPLOADED", "QUEUED", "PROCESSING", "COMPLETED", "FAILED"}

\* A timestamp column is NULL ("never"), younger than the stuck timeout that
\* reads it ("recent"), or older ("stale").  "now" is the clock at an
\* assignment: it differs from every value a session has loaded.
Times == {"never", "recent", "stale"}
Stored(value) == IF value = "now" THEN "recent" ELSE value

Row ==
  [ status    : Statuses,
    attempts  : Nat,       \* attempt_count
    exhausted : BOOLEAN,   \* retry_exhausted
    started   : Times,     \* processing_started_at
    updated   : Times,     \* updated_at
    raw       : BOOLEAN,   \* raw_object_key (raw_path when local) is set
    outputs   : BOOLEAN,   \* processed_object_key and thumbnail_object_key are set
    cleaned   : BOOLEAN ]  \* cleaned_up_at is set

\* The row an upload inserts.  In object mode the raw key is derived from the
\* new id before the object exists; in local mode the path is written later.
NewRow ==
  [ status |-> "UPLOADED", attempts |-> 0, exhausted |-> FALSE,
    started |-> "never", updated |-> "recent",
    raw |-> StorageBackend = "object", outputs |-> FALSE, cleaned |-> FALSE ]

\* The row after a session that loaded old and holds new commits it over row.
\* The column updated_at follows every UPDATE (onupdate=func.now()).
Flush(row, old, new) ==
  [ status    |-> IF new.status = old.status THEN row.status ELSE new.status,
    attempts  |-> IF new.attempts = old.attempts THEN row.attempts ELSE new.attempts,
    exhausted |-> IF new.exhausted = old.exhausted THEN row.exhausted ELSE new.exhausted,
    started   |-> IF new.started = old.started THEN row.started ELSE Stored(new.started),
    updated   |-> "recent",
    raw       |-> IF new.raw = old.raw THEN row.raw ELSE new.raw,
    outputs   |-> IF new.outputs = old.outputs THEN row.outputs ELSE new.outputs,
    cleaned   |-> IF new.cleaned = old.cleaned THEN row.cleaned ELSE new.cleaned ]

-----------------------------------------------------------------------------
(* What the upload handler assigns.                                        *)

WithRaw(row)     == [row EXCEPT !.raw = TRUE]
Enqueued(row)    == [row EXCEPT !.status = "QUEUED"]
\* Failing an upload leaves retry_exhausted alone.
NotAccepted(row) == [row EXCEPT !.status = "FAILED"]

(* What a worker checks and assigns.                                       *)

\* Variant: a COMPLETED row is processed again.
SkipsExhaustedOnly(row) ==
  row.status = "FAILED" /\ (row.exhausted \/ row.attempts >= MaxAttempts)

\* The worker returns without touching the row.
Skips(row) ==
  \/ row.status = "COMPLETED"
  \/ row.status = "FAILED" /\ (row.exhausted \/ row.attempts >= MaxAttempts)

\* Variant: processing_started_at is not set.
ClaimedUntimed(row) ==
  [row EXCEPT !.status = "PROCESSING", !.attempts = @ + 1]

Claimed(row) ==
  [row EXCEPT !.status = "PROCESSING", !.attempts = @ + 1, !.started = "now"]

\* Variant: the keys of the outputs are not recorded.
CompletedWithoutKeys(row) ==
  [row EXCEPT !.status = "COMPLETED", !.exhausted = FALSE]

Completed(row) ==
  [row EXCEPT !.status = "COMPLETED", !.exhausted = FALSE, !.outputs = TRUE]

\* Variant: the last attempt is off by one.
FailedTooLate(row) ==
  [row EXCEPT !.status = "FAILED", !.exhausted = row.attempts > MaxAttempts]

Failed(row) ==
  [row EXCEPT !.status = "FAILED", !.exhausted = row.attempts >= MaxAttempts]

\* The handler re-raises, so that RQ runs the message again.
Reraises(row) == row.attempts < MaxAttempts

(* What manual retry and stuck-job recovery check and assign.              *)

Retryable(row) == row.status = "FAILED"

Retried(row) ==
  [row EXCEPT !.status = "QUEUED", !.attempts = 0, !.exhausted = FALSE,
              !.started = "never", !.outputs = FALSE]

\* Variant: recovery looks at one of the two statuses only.
StuckQueuedOnly(row) == row.status = "QUEUED" /\ row.updated = "stale"

\* A row that is PROCESSING without a start time is not stuck: its age is None.
Stuck(row) ==
  \/ row.status = "PROCESSING" /\ row.started = "stale"
  \/ row.status = "QUEUED" /\ row.updated = "stale"

Recoverable(row) == row.status \in {"PROCESSING", "QUEUED"}
ShouldFail(row) == row.attempts >= MaxAttempts

\* Like Retried, but the attempts are kept.
Requeued(row) ==
  [row EXCEPT !.status = "QUEUED", !.exhausted = FALSE,
              !.started = "never", !.outputs = FALSE]

GivenUp(row) == [row EXCEPT !.status = "FAILED", !.exhausted = TRUE]
=============================================================================
