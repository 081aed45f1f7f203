----------------------------- MODULE JobCleanup -----------------------------
(***************************************************************************)
(* Lifecycle cleanup (POST /jobs/cleanup) next to the processes of         *)
(* VideoJobs: delete the objects of an old COMPLETED or retry-exhausted    *)
(* FAILED job, one by one, and mark its row cleaned or delete it.          *)
(*                                                                         *)
(* This is a pass as one of its candidates meets it; CleanupBatches has    *)
(* the whole pass.  The first candidate is cleaned as it was read; a later *)
(* one is loaded again, because a commit expires what the session holds,   *)
(* but its status is not checked again.  Any age may be asked for, 0 days  *)
(* included, so a candidate may be of any age here.                        *)
(***************************************************************************)
EXTENDS VideoJobs

CONSTANTS
  Cleaners,     \* calls of POST /jobs/cleanup with dry_run=false
  RowDeleters   \* those whose request deletes rows (delete_db_rows)

ASSUME RowDeletersAssumption == RowDeleters \subseteq Cleaners

VARIABLE
  cleanup       \* each cleanup pass

cvars == <<vars, cleanup>>

CleanupPcs == {"idle", "listed", "deleting", "noting"}

CleanupTypeOK ==
  /\ TypeOK
  /\ cleanup \in [Cleaners -> [pc : CleanupPcs, video : Videos,
                               left : Seq(Objects), snap : MaybeRow]]

IdleCleanup ==
  [pc |-> "idle", video |-> AnyVideo, left |-> <<>>, snap |-> NoRow]

CInit == Init /\ cleanup = [c \in Cleaners |-> IdleCleanup]

-----------------------------------------------------------------------------
(* What the service reads off a row, and writes to it.                     *)

\* Variant: failed jobs are kept.
CompletedCandidate(row) == ~row.cleaned /\ row.status = "COMPLETED"

Candidate(row) ==
  /\ ~row.cleaned
  /\ row.status = "COMPLETED" \/ (row.status = "FAILED" /\ row.exhausted)

\* The object keys of a row, in the order of deletion; a local row has none.
References(row) ==
  IF StorageBackend = "local" THEN <<>>
  ELSE (IF row.raw THEN <<"raw">> ELSE <<>>)
         \o (IF row.outputs THEN <<"processed", "thumbnail">> ELSE <<>>)

\* Variant: the keys of the outputs are kept.
CleanedRawOnly(row) == [row EXCEPT !.cleaned = TRUE, !.raw = FALSE]

Cleaned(row) == [row EXCEPT !.cleaned = TRUE, !.raw = FALSE, !.outputs = FALSE]

-----------------------------------------------------------------------------
(* A cleanup pass.                                                         *)

CleanupUnchanged == UNCHANGED <<queue, upload, worker, retry, recovery, spent>>
CleanupAt(c, state) == cleanup' = [cleanup EXCEPT ![c] = state]

CleanupEnds(c) == CleanupAt(c, IdleCleanup)

\* Of the row that the session holds, the columns that the commit compares: the
\* row that is going to be deleted is not compared with anything.
Compared(c, row) ==
  IF c \in RowDeleters THEN NoRow
  ELSE [NewRow EXCEPT !.cleaned = row.cleaned, !.raw = row.raw, !.outputs = row.outputs]

Cleaning(c, v) ==
  [pc |-> "deleting", video |-> v, left |-> References(rows[v]),
   snap |-> Compared(c, rows[v])]

\* The pass reads its candidates: v is the first, in the hands of the pass at
\* once, or one of the later ones.
FindCandidate(c, v) ==
  /\ cleanup[c].pc = "idle"
  /\ rows[v] # NoRow /\ Candidate(rows[v])
  /\ \/ CleanupAt(c, Cleaning(c, v))
     \/ CleanupAt(c, [IdleCleanup EXCEPT !.pc = "listed", !.video = v])
  /\ UNCHANGED <<rows, objects>> /\ CleanupUnchanged

\* The session loads the row anew; its status is not checked again.
LoadListed(c) ==
  /\ cleanup[c].pc = "listed"
  /\ rows[cleanup[c].video] # NoRow
  /\ CleanupAt(c, Cleaning(c, cleanup[c].video))
  /\ UNCHANGED <<rows, objects>> /\ CleanupUnchanged

\* delete_object succeeds, also for an object that is not there.
DeleteObject(c) ==
  LET job == cleanup[c]
  IN /\ job.pc = "deleting" /\ job.left # <<>>
     /\ objects' = [objects EXCEPT ![job.video] = @ \ {Head(job.left)}]
     /\ CleanupAt(c, [job EXCEPT !.left = Tail(job.left)])
     /\ UNCHANGED rows /\ CleanupUnchanged

\* Variant: the other objects are deleted and the row is cleaned all the same.
DeleteFailsUnnoticed(c) ==
  LET job == cleanup[c]
  IN /\ job.pc = "deleting" /\ job.left # <<>>
     /\ CleanupAt(c, [job EXCEPT !.left = Tail(job.left)])
     /\ Fault
     /\ UNCHANGED <<rows, objects, queue, upload, worker, retry, recovery>>

\* ObjectStorageError: the rest of the job's objects are left alone.
DeleteFails(c) ==
  /\ cleanup[c].pc = "deleting" /\ cleanup[c].left # <<>>
  /\ CleanupAt(c, [IdleCleanup EXCEPT !.pc = "noting", !.video = cleanup[c].video])
  /\ Fault
  /\ UNCHANGED <<rows, objects, queue, upload, worker, retry, recovery>>

\* The error message is committed; no column of the model changes but updated.
NoteFailure(c) ==
  /\ cleanup[c].pc = "noting"
  /\ rows[cleanup[c].video] # NoRow
  /\ rows' = [rows EXCEPT ![cleanup[c].video].updated = "recent"]
  /\ CleanupEnds(c)
  /\ UNCHANGED objects /\ CleanupUnchanged

Deleted(c) == cleanup[c].pc = "deleting" /\ cleanup[c].left = <<>>

MarkCleaned(c) ==
  /\ Deleted(c) /\ c \notin RowDeleters
  /\ Commit(cleanup[c].video, cleanup[c].snap, Cleaned(cleanup[c].snap))
  /\ CleanupEnds(c)
  /\ UNCHANGED objects /\ CleanupUnchanged

\* DELETE of the row, whatever it has become; of no row, it is a warning.
RemoveRow(c) ==
  /\ Deleted(c) /\ c \in RowDeleters
  /\ rows' = [rows EXCEPT ![cleanup[c].video] = NoRow]
  /\ CleanupEnds(c)
  /\ UNCHANGED objects /\ CleanupUnchanged

CleanupDies(c) ==
  /\ cleanup[c].pc # "idle"
  /\ Fault
  /\ CleanupAt(c, IdleCleanup)
  /\ UNCHANGED <<rows, objects, queue, upload, worker, retry, recovery>>

-----------------------------------------------------------------------------
(* A row is deleted under a session that loaded it: the UPDATE matches no  *)
(* row, the refresh finds none, and the handler raises.  A recovery pass   *)
(* that meets it ends as a pass that dies does (RecoveryDies).             *)

VanishedUnchanged == UNCHANGED <<rows, queue, objects, spent>>

UploadVanished(v) ==
  /\ rows[v] = NoRow /\ upload[v] \in {"refusing", "marking"}
  /\ UploadAt(v, "done")
  /\ UNCHANGED <<worker, retry, recovery, cleanup>> /\ VanishedUnchanged

\* There is no row to mark FAILED, and the error goes to RQ.
WorkerVanished(w) ==
  /\ rows[worker[w].video] = NoRow
  /\ worker[w].pc \in {"claiming", "refreshing", "completing", "completed",
                        "failing", "marking", "deciding"}
  /\ WorkerDrops(w, "raising")
  /\ UNCHANGED <<upload, retry, recovery, cleanup>> /\ VanishedUnchanged

RetryVanished(a) ==
  /\ retry[a].pc = "marking" /\ rows[retry[a].video] = NoRow
  /\ retry' = [retry EXCEPT ![a] = IdleRetry]
  /\ UNCHANGED <<upload, worker, recovery, cleanup>> /\ VanishedUnchanged

\* The pass fails, with the candidates it has left.
CleanupVanished(c) ==
  /\ rows[cleanup[c].video] = NoRow
  /\ cleanup[c].pc \in {"listed", "noting"} \/ (Deleted(c) /\ c \notin RowDeleters)
  /\ CleanupEnds(c)
  /\ UNCHANGED <<upload, worker, retry, recovery>> /\ VanishedUnchanged

-----------------------------------------------------------------------------

CleanupNext(c) ==
  \/ (\E v \in Videos : FindCandidate(c, v)) \/ LoadListed(c) \/ DeleteObject(c) \/ DeleteFails(c)
  \/ NoteFailure(c) \/ MarkCleaned(c) \/ RemoveRow(c) \/ CleanupVanished(c)

VanishedNext ==
  \/ \E v \in Videos : UploadVanished(v)
  \/ \E w \in Workers : WorkerVanished(w)
  \/ \E a \in Admins : RetryVanished(a)

CNext ==
  \/ Next /\ UNCHANGED cleanup
  \/ \E c \in Cleaners : CleanupNext(c) \/ CleanupDies(c)
  \/ VanishedNext

CSpec == CInit /\ [][CNext]_cvars

\* As in VideoJobs, and somebody calls the cleanup again and again, for jobs of
\* any age.
CFairness ==
  /\ \A v \in Videos :
       /\ WF_cvars(Age(v) /\ UNCHANGED cleanup)
       /\ WF_cvars((upload[v] # "none" /\ UploadNext(v) /\ UNCHANGED cleanup) \/ UploadVanished(v))
  /\ \A w \in Workers : WF_cvars((WorkerNext(w) /\ UNCHANGED cleanup) \/ WorkerVanished(w))
  /\ \A a \in Admins :
       WF_cvars((retry[a].pc # "idle" /\ RetryNext(a) /\ UNCHANGED cleanup) \/ RetryVanished(a))
  /\ \A r \in Recoverers : WF_cvars(RecoveryNext(r) /\ UNCHANGED cleanup)
  /\ \A c \in Cleaners : WF_cvars(CleanupNext(c))

CFairSpec == CSpec /\ CFairness

-----------------------------------------------------------------------------
(* Properties.                                                             *)

\* A raw video in the store is named by its row: a pass takes the key from the
\* row, or the row from the table, only when the object is gone, whatever fails
\* or dies on the way (docs/operations.md, Lifecycle Cleanup).  An object that
\* no row names is never deleted.
RawIsNamed ==
  \A v \in Videos : "raw" \in objects[v] => rows[v] # NoRow /\ rows[v].raw

\* A completed or retry-exhausted failed job does not keep its assets for
\* ever, whatever fails on the way: it is cleaned or deleted, unless a retry or
\* a late commit of the upload makes it something else.
Retired(v) == HasStatus(v, {"COMPLETED"}) \/ (HasStatus(v, {"FAILED"}) /\ rows[v].exhausted)
CleanupConverges ==
  \A v \in Videos : Retired(v) ~> (~Retired(v) \/ rows[v].cleaned)

\* A deleted job is forgotten: RQ's retries of it come to an end.
DeletedIsForgotten ==
  \A v \in Videos :
    (rows[v] = NoRow /\ upload[v] = "done") ~> [](Waiting(v) \cup Runners(v) = {})

\* The URLs the assets endpoint answers point to nothing while a pass is
\* between its deletions and its commit; that passes, also when the pass fails
\* or dies.  The exception is a row that was marked cleaned by a pass that had
\* read it before an administrator retried it: no pass will come back to it.
Broken(v) == ~(Assets(v) \subseteq objects[v])
LinksMended ==
  \A v \in Videos :
    Broken(v) ~> (~Broken(v) \/ (spent["retries"] > 0 /\ rows[v].cleaned))
=============================================================================
