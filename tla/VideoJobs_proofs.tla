--------------------------- MODULE VideoJobs_proofs ---------------------------
(***************************************************************************)
(* Proofs about VideoJobs, for every set of videos, workers,               *)
(* administrators and recovery passes, every max_attempts and every bound. *)
(***************************************************************************)
EXTENDS VideoJobs, TLAPS

-----------------------------------------------------------------------------
(* The row operators.                                                      *)

\* A row as a session holds it between an assignment and the commit.
RowInHand == [status : Statuses, attempts : Nat, exhausted : BOOLEAN,
              started : Times \cup {"now"}, updated : Times,
              raw : BOOLEAN, outputs : BOOLEAN, cleaned : BOOLEAN]

LEMMA NewRowType == NewRow \in Row
BY StorageBackendAssumption DEF NewRow, Row, Statuses, Times

\* A commit leaves a row of the table's types, whatever was loaded before.
LEMMA FlushType ==
  ASSUME NEW row \in Row, NEW old \in Row, NEW new \in RowInHand
  PROVE  Flush(row, old, new) \in Row
BY DEF Flush, Row, RowInHand, Times, Stored

\* What the handlers assign is a row in hand.
LEMMA AssignedType ==
  ASSUME NEW row \in Row
  PROVE  /\ WithRaw(row) \in Row
         /\ WithRaw(row) \in RowInHand
         /\ Enqueued(row) \in RowInHand
         /\ NotAccepted(row) \in RowInHand
         /\ Claimed(row) \in RowInHand
         /\ Completed(row) \in RowInHand
         /\ Failed(row) \in RowInHand
         /\ Retried(row) \in RowInHand
         /\ Requeued(row) \in RowInHand
         /\ GivenUp(row) \in RowInHand
<1> USE DEF Row, RowInHand, Statuses, Times
<1>1. WithRaw(row) \in Row /\ WithRaw(row) \in RowInHand
  BY DEF WithRaw
<1>2. Enqueued(row) \in RowInHand
  BY DEF Enqueued
<1>3. NotAccepted(row) \in RowInHand
  BY DEF NotAccepted
<1>4. Claimed(row) \in RowInHand
  <2>1. \A n \in Nat : [row EXCEPT !.status = "PROCESSING", !.attempts = n,
                                   !.started = "now"] \in RowInHand
    OBVIOUS
  <2>2. row.attempts + 1 \in Nat
    OBVIOUS
  <2> QED
    BY <2>1, <2>2 DEF Claimed
<1>5. Completed(row) \in RowInHand
  BY DEF Completed
<1>6. Failed(row) \in RowInHand
  <2>1. \A b \in BOOLEAN :
          [row EXCEPT !.status = "FAILED", !.exhausted = b] \in RowInHand
    OBVIOUS
  <2>2. (row.attempts >= MaxAttempts) \in BOOLEAN
    OBVIOUS
  <2> QED
    BY <2>1, <2>2 DEF Failed
<1>7. Retried(row) \in RowInHand
  BY DEF Retried
<1>8. Requeued(row) \in RowInHand
  BY DEF Requeued
<1>9. GivenUp(row) \in RowInHand
  BY DEF GivenUp
<1> QED
  BY <1>1, <1>2, <1>3, <1>4, <1>5, <1>6, <1>7, <1>8, <1>9

LEMMA UploadSnapType == UploadSnap \in Row /\ UploadSnap \in RowInHand
BY NewRowType, AssignedType DEF UploadSnap

-----------------------------------------------------------------------------
(* Type correctness.                                                       *)

\* Where a worker's handler holds a row.
Holding == {"claiming", "downloading", "processed", "thumbnail", "completing", "marking"}

\* A handler that is about to commit holds a row.
SnapsHeld ==
  /\ \A w \in Workers : worker[w].pc \in Holding => worker[w].snap # NoRow
  /\ \A a \in Admins : retry[a].pc # "idle" => retry[a].snap # NoRow
  /\ \A r \in Recoverers : recovery[r].pc \in {"refusing", "marking"} => recovery[r].snap # NoRow

Inv == TypeOK /\ SnapsHeld

LEMMA CommitType ==
  ASSUME rows \in [Videos -> MaybeRow], NEW v \in Videos,
         NEW old \in Row, NEW new \in RowInHand, Commit(v, old, new)
  PROVE  rows' \in [Videos -> MaybeRow]
<1>1. rows[v] \in Row
  BY DEF Commit, MaybeRow
<1>2. Flush(rows[v], old, new) \in Row
  BY <1>1, FlushType
<1> QED
  BY <1>2 DEF Commit, MaybeRow

LEMMA CommitRow ==
  ASSUME TypeOK, NEW v \in Videos, NEW old \in Row, NEW new \in RowInHand, Commit(v, old, new)
  PROVE  /\ rows[v] \in Row /\ rows[v] # NoRow
         /\ rows'[v] = Flush(rows[v], old, new)
         /\ rows'[v] \in Row /\ rows'[v] # NoRow
         /\ \A x \in Videos \ {v} : rows'[x] = rows[x]
<1>1. rows[v] \in Row /\ rows[v] # NoRow
  BY DEF Commit, TypeOK, MaybeRow
<1>2. rows' = [rows EXCEPT ![v] = Flush(rows[v], old, new)]
  BY DEF Commit
<1>3. Flush(rows[v], old, new) \in Row
  BY <1>1, FlushType
<1>4. rows'[v] = Flush(rows[v], old, new) /\ \A x \in Videos \ {v} : rows'[x] = rows[x]
  BY <1>2 DEF TypeOK
<1> QED
  BY <1>1, <1>3, <1>4, NoRowAssumption

LEMMA HeadAndTail ==
  ASSUME queue \in Seq(Message), queue # <<>>
  PROVE  /\ 1 \in DOMAIN queue /\ Head(queue) = queue[1] /\ queue[1] \in Message
         /\ \A i \in DOMAIN Tail(queue) :
              i + 1 \in DOMAIN queue /\ i + 1 # 1 /\ Tail(queue)[i] = queue[i + 1]
         /\ \A i, j \in DOMAIN Tail(queue) : i + 1 = j + 1 => i = j
OBVIOUS

LEMMA AppendOne ==
  ASSUME queue \in Seq(Message), NEW message \in Message,
         queue' = Append(queue, message)
  PROVE  /\ \A i \in DOMAIN queue : i \in DOMAIN queue' /\ queue'[i] = queue[i]
         /\ \A i \in DOMAIN queue' :
              (i \in DOMAIN queue /\ queue'[i] = queue[i]) \/ (i = Len(queue) + 1 /\ queue'[i] = message)
         /\ Len(queue) + 1 \in DOMAIN queue' /\ queue'[Len(queue) + 1] = message
OBVIOUS

LEMMA EnqueueType ==
  ASSUME queue \in Seq(Message), NEW v \in Videos, Enqueue(v)
  PROVE  queue' \in Seq(Message)
<1>1. [video |-> v, left |-> MaxAttempts - 1] \in Message
  BY MaxAttemptsAssumption DEF Message
<1> QED
  BY <1>1 DEF Enqueue

LEMMA RqRetryType ==
  ASSUME queue \in Seq(Message), NEW v \in Videos, NEW left \in Nat, RqRetry(v, left)
  PROVE  queue' \in Seq(Message)
<1>1. left > 0 => [video |-> v, left |-> left - 1] \in Message
  BY DEF Message
<1> QED
  BY <1>1 DEF RqRetry

LEMMA SpendType ==
  ASSUME spent \in [{"faults", "retries", "requeues"} -> Nat],
         NEW bound \in {"faults", "retries", "requeues"}, NEW limit,
         Spend(bound, limit)
  PROVE  spent' \in [{"faults", "retries", "requeues"} -> Nat]
BY DEF Spend

LEMMA IdleTypes ==
  /\ IdleWorker \in WorkerState
  /\ IdleRetry \in [pc : RetryPcs, video : Videos, snap : MaybeRow]
  /\ IdleRecovery \in [pc : RecoveryPcs, todo : SUBSET Videos,
                       video : Videos, snap : MaybeRow]
<1>1. AnyVideo \in Videos
  BY VideosAssumption DEF AnyVideo
<1> QED
  BY <1>1 DEF IdleWorker, IdleRetry, IdleRecovery, WorkerState, WorkerPcs, RetryPcs, RecoveryPcs, MaybeRow

LEMMA InitInv == Init => Inv
BY IdleTypes, VideosAssumption
   DEF Init, Inv, TypeOK, SnapsHeld, Holding, UploadPcs, MaybeRow, IdleWorker, IdleRetry, IdleRecovery

\* The four processes touch disjoint variables besides the shared ones.
LEMMA UploadInv ==
  ASSUME Inv, NEW v \in Videos, UploadNext(v) \/ UploadDies(v)
  PROVE  Inv'
<1> USE DEF Inv, TypeOK, SnapsHeld, UploadAt, UploadUnchanged, UploadPcs
<1>1. CASE InsertRow(v)
  BY <1>1, NewRowType DEF InsertRow, MaybeRow
<1>2. CASE StoreRaw(v)
  BY <1>2 DEF StoreRaw, Objects
<1>3. CASE SaveRawPath(v)
  BY <1>3, CommitType, NewRowType, UploadSnapType DEF SaveRawPath
<1>4. CASE StoreRawFails(v)
  BY <1>4, CommitType, NewRowType, AssignedType DEF StoreRawFails
<1>5. CASE EnqueueUpload(v)
  BY <1>5, EnqueueType DEF EnqueueUpload
<1>6. CASE EnqueueUploadFails(v)
  BY <1>6, EnqueueType, SpendType DEF EnqueueUploadFails, EnqueueRaises, Fault
<1>7. CASE MarkQueued(v)
  BY <1>7, CommitType, UploadSnapType, AssignedType DEF MarkQueued
<1>8. CASE UploadDies(v)
  BY <1>8, SpendType DEF UploadDies, Fault
<1>9. CASE MarkNotAccepted(v)
  BY <1>9, CommitType, UploadSnapType, AssignedType DEF MarkNotAccepted
<1> QED
  BY <1>1, <1>2, <1>3, <1>4, <1>5, <1>6, <1>7, <1>8, <1>9 DEF UploadNext

\* A worker's handler goes on with its message, and with another snapshot.
LEMMA WorkerMoves ==
  ASSUME NEW state \in WorkerState, NEW pc \in WorkerPcs, NEW snap \in MaybeRow
  PROVE  /\ [state EXCEPT !.pc = pc] \in WorkerState
         /\ [state EXCEPT !.pc = pc, !.snap = snap] \in WorkerState
         /\ [state EXCEPT !.pc = pc, !.snap = snap].pc = pc
         /\ [state EXCEPT !.pc = pc, !.snap = snap].snap = snap
BY DEF WorkerState

LEMMA WorkerTakes ==
  ASSUME NEW state \in WorkerState, NEW pc \in WorkerPcs, NEW v \in Videos, NEW left \in Nat
  PROVE  [state EXCEPT !.pc = pc, !.video = v, !.left = left] \in WorkerState
BY DEF WorkerState

\* One worker goes on with its message, the others stay.
MovesTo(w, pc) ==
  /\ worker'[w].pc = pc /\ worker'[w].video = worker[w].video
  /\ \A x \in Workers \ {w} : worker'[x] = worker[x]

\* A handler that loads or drops its row, and the state it goes on in.
LEMMA WorkerLoads ==
  ASSUME TypeOK, SnapsHeld, NEW w \in Workers, NEW pc \in WorkerPcs, NEW snap \in MaybeRow,
         worker' = [worker EXCEPT ![w].pc = pc, ![w].snap = snap],
         snap # NoRow \/ pc \notin Holding,
         UNCHANGED <<retry, recovery>>
  PROVE  worker' \in [Workers -> WorkerState] /\ SnapsHeld' /\ MovesTo(w, pc)
<1> DEFINE moved == [worker[w] EXCEPT !.pc = pc, !.snap = snap]
<1>1. worker \in [Workers -> WorkerState] /\ worker[w] \in WorkerState
  BY DEF TypeOK
<1>2. worker' = [worker EXCEPT ![w] = moved]
  BY <1>1
<1>3. moved \in WorkerState /\ moved.pc = pc /\ moved.snap = snap /\ moved.video = worker[w].video
  <2>1. moved \in WorkerState
    BY <1>1, WorkerMoves
  <2>2. moved.pc = pc /\ moved.snap = snap /\ moved.video = worker[w].video
    BY <1>1 DEF WorkerState
  <2> QED
    BY <2>1, <2>2
<1> HIDE DEF moved
<1>4. worker' \in [Workers -> WorkerState]
  BY <1>1, <1>2, <1>3
<1>5. \A x \in Workers : worker'[x] = IF x = w THEN moved ELSE worker[x]
  BY <1>1, <1>2
<1> QED
  BY <1>3, <1>4, <1>5 DEF SnapsHeld, MovesTo

\* A handler that goes on with the row it holds.
LEMMA WorkerKeeps ==
  ASSUME TypeOK, SnapsHeld, NEW w \in Workers, NEW pc \in WorkerPcs,
         WorkerAt(w, pc), worker[w].snap # NoRow \/ pc \notin Holding,
         UNCHANGED <<retry, recovery>>
  PROVE  worker' \in [Workers -> WorkerState] /\ SnapsHeld' /\ MovesTo(w, pc)
<1> DEFINE moved == [worker[w] EXCEPT !.pc = pc]
<1>1. worker \in [Workers -> WorkerState] /\ worker[w] \in WorkerState
  BY DEF TypeOK
<1>2. worker' = [worker EXCEPT ![w] = moved]
  BY <1>1 DEF WorkerAt
<1>3. /\ moved \in WorkerState
      /\ moved.pc = pc /\ moved.snap = worker[w].snap /\ moved.video = worker[w].video
  BY <1>1 DEF WorkerState
<1> HIDE DEF moved
<1>4. worker' \in [Workers -> WorkerState]
  BY <1>1, <1>2, <1>3
<1>5. \A x \in Workers : worker'[x] = IF x = w THEN moved ELSE worker[x]
  BY <1>1, <1>2
<1> QED
  BY <1>3, <1>4, <1>5 DEF SnapsHeld, MovesTo

\* A handler that is over, one way or another.
LEMMA WorkerIdles ==
  ASSUME TypeOK, SnapsHeld, NEW w \in Workers,
         worker' = [worker EXCEPT ![w] = IdleWorker], UNCHANGED <<retry, recovery>>
  PROVE  /\ worker' \in [Workers -> WorkerState] /\ SnapsHeld'
         /\ worker'[w].pc = "idle"
         /\ \A x \in Workers \ {w} : worker'[x] = worker[x]
BY IdleTypes DEF TypeOK, SnapsHeld, IdleWorker, Holding

LEMMA WorkerInv ==
  ASSUME Inv, NEW w \in Workers, WorkerNext(w) \/ HandlerRaises(w) \/ WorkerDies(w)
  PROVE  Inv'
<1>0. /\ worker[w] \in WorkerState
      /\ worker[w].video \in Videos /\ worker[w].left \in Nat
      /\ worker[w].snap \in MaybeRow /\ NoRow \in MaybeRow
      /\ worker[w].pc \in Holding => worker[w].snap \in Row /\ worker[w].snap # NoRow
      /\ rows[worker[w].video] \in MaybeRow
  BY DEF Inv, TypeOK, SnapsHeld, WorkerState, MaybeRow
<1> USE DEF Inv, WorkerUnchanged
<1>1. CASE Dequeue(w)
  <2>1. Head(queue) \in Message /\ Tail(queue) \in Seq(Message)
    BY <1>1 DEF Dequeue, TypeOK
  <2>2. Head(queue).video \in Videos /\ Head(queue).left \in Nat
    BY <2>1 DEF Message
  <2> DEFINE taken == [worker[w] EXCEPT !.pc = "loading", !.video = Head(queue).video,
                                       !.left = Head(queue).left]
  <2>3. taken \in WorkerState /\ taken.pc = "loading"
    <3>1. "loading" \in WorkerPcs
      BY DEF WorkerPcs
    <3>2. taken \in WorkerState
      BY <1>0, <2>2, <3>1, WorkerTakes
    <3> QED
      BY <1>0, <3>2 DEF WorkerState
  <2>4. worker' = [worker EXCEPT ![w] = taken]
    BY <1>1 DEF Dequeue, TypeOK
  <2>5. worker' \in [Workers -> WorkerState]
    BY <2>3, <2>4 DEF TypeOK
  <2>6. SnapsHeld'
    BY <1>1, <2>3, <2>4 DEF Dequeue, SnapsHeld, Holding, TypeOK
  <2> QED
    BY <1>1, <2>1, <2>5, <2>6 DEF Dequeue, TypeOK
<1>2. CASE SkipJob(w)
  BY <1>2, WorkerIdles DEF SkipJob, TypeOK
<1>3. CASE LoadJob(w)
  BY <1>0, <1>3, WorkerLoads DEF LoadJob, Load, WorkerPcs, TypeOK
<1>4. CASE Claim(w)
  <2>1. rows' \in [Videos -> MaybeRow]
    BY <1>0, <1>4, CommitType, AssignedType DEF Claim, TypeOK, Holding
  <2> QED
    BY <1>0, <1>4, <2>1, WorkerLoads DEF Claim, WorkerDrops, WorkerPcs, Holding, TypeOK
<1>5. CASE RefreshJob(w)
  BY <1>0, <1>5, WorkerLoads DEF RefreshJob, Load, WorkerPcs, TypeOK
<1>6. CASE Transcode(w)
  <2>1. worker' \in [Workers -> WorkerState] /\ SnapsHeld'
    BY <1>0, <1>6, WorkerKeeps DEF Transcode, WorkerPcs, Holding
  <2> QED
    BY <1>6, <2>1 DEF Transcode, TypeOK
<1>7. CASE UploadProcessed(w)
  <2>1. objects' \in [Videos -> SUBSET Objects]
    BY <1>7 DEF UploadProcessed, StoreOutput, Objects, TypeOK
  <2>2. worker' \in [Workers -> WorkerState] /\ SnapsHeld'
    BY <1>0, <1>7, WorkerKeeps DEF UploadProcessed, StoreOutput, WorkerPcs, Holding
  <2> QED
    BY <1>7, <2>1, <2>2 DEF UploadProcessed, StoreOutput, TypeOK
<1>8. CASE UploadThumbnail(w)
  <2>1. objects' \in [Videos -> SUBSET Objects]
    BY <1>8 DEF UploadThumbnail, StoreOutput, Objects, TypeOK
  <2>2. worker' \in [Workers -> WorkerState] /\ SnapsHeld'
    BY <1>0, <1>8, WorkerKeeps DEF UploadThumbnail, StoreOutput, WorkerPcs, Holding
  <2> QED
    BY <1>8, <2>1, <2>2 DEF UploadThumbnail, StoreOutput, TypeOK
<1>9. CASE Complete(w)
  <2>1. rows' \in [Videos -> MaybeRow]
    BY <1>0, <1>9, CommitType, AssignedType DEF Complete, TypeOK, Holding
  <2> QED
    BY <1>0, <1>9, <2>1, WorkerLoads DEF Complete, WorkerDrops, WorkerPcs, Holding, TypeOK
<1>10. CASE ProcessingFails(w)
  BY <1>0, <1>10, WorkerLoads DEF ProcessingFails, WorkerDrops, WorkerPcs, Holding, TypeOK
<1>11. CASE ReloadFailed(w)
  BY <1>0, <1>11, WorkerLoads DEF ReloadFailed, Load, WorkerPcs, TypeOK
<1>12. CASE MarkFailed(w)
  <2>1. rows' \in [Videos -> MaybeRow]
    BY <1>0, <1>12, CommitType, AssignedType DEF MarkFailed, TypeOK, Holding
  <2> QED
    BY <1>0, <1>12, <2>1, WorkerLoads DEF MarkFailed, WorkerDrops, WorkerPcs, Holding, TypeOK
<1>13. CASE RaiseToRq(w)
  BY <1>0, <1>13, WorkerIdles, RqRetryType DEF RaiseToRq, TypeOK
<1>14. CASE ReturnToRq(w)
  BY <1>14, WorkerIdles DEF ReturnToRq, TypeOK
<1>15. CASE WorkerDies(w)
  BY <1>0, <1>15, WorkerIdles, RqRetryType, SpendType DEF WorkerDies, Fault, TypeOK
<1>16. CASE RecordSuccess(w) \/ DecideRetry(w)
  <2>1. \E pc \in {"raising", "returning"} : WorkerAt(w, pc)
    BY <1>16 DEF RecordSuccess, DecideRetry
  <2>2. UNCHANGED <<retry, recovery>>
    BY <1>16 DEF RecordSuccess, DecideRetry
  <2>3. worker' \in [Workers -> WorkerState] /\ SnapsHeld'
    BY <2>1, <2>2, WorkerKeeps DEF WorkerPcs, Holding
  <2> QED
    BY <1>16, <2>3 DEF RecordSuccess, DecideRetry, TypeOK
<1>17. CASE HandlerRaises(w)
  <2>1. worker' \in [Workers -> WorkerState] /\ SnapsHeld'
    BY <1>0, <1>17, WorkerLoads DEF HandlerRaises, WorkerDrops, WorkerPcs, Holding
  <2> QED
    BY <1>17, <2>1, SpendType DEF HandlerRaises, Fault, TypeOK
<1> QED
  BY <1>1, <1>2, <1>3, <1>4, <1>5, <1>6, <1>7, <1>8, <1>9, <1>10, <1>11, <1>12, <1>13, <1>14, <1>15,
     <1>16, <1>17 DEF WorkerNext

LEMMA RetryInv ==
  ASSUME Inv, NEW a \in Admins, RetryNext(a) \/ RetryDies(a)
  PROVE  Inv'
<1> USE DEF Inv, TypeOK, SnapsHeld, RetryUnchanged, RetryPcs
<1>1. CASE \E v \in Videos : LoadRetry(a, v)
  BY <1>1, SpendType DEF LoadRetry
<1>2. CASE EnqueueRetry(a)
  BY <1>2, EnqueueType DEF EnqueueRetry
<1>3. CASE EnqueueRetryFails(a)
  BY <1>3, EnqueueType, SpendType, IdleTypes DEF EnqueueRetryFails, EnqueueRaises, Fault, IdleRetry
<1>4. CASE ResetRetried(a)
  BY <1>4, CommitType, AssignedType, IdleTypes DEF ResetRetried, MaybeRow, IdleRetry
<1>5. CASE RetryDies(a)
  BY <1>5, SpendType, IdleTypes DEF RetryDies, Fault, IdleRetry
<1> QED
  BY <1>1, <1>2, <1>3, <1>4, <1>5 DEF RetryNext

LEMMA NextStuckType ==
  ASSUME TypeOK, NEW r \in Recoverers, NextStuck(r)
  PROVE  /\ recovery' \in [Recoverers -> [pc : RecoveryPcs, todo : SUBSET Videos,
                                         video : Videos, snap : MaybeRow]]
         /\ recovery'[r].pc \notin {"refusing", "marking"}
         /\ \A q \in Recoverers \ {r} : recovery'[q] = recovery[q]
BY IdleTypes DEF NextStuck, TypeOK, IdleRecovery, RecoveryPcs

LEMMA RecoveryInv ==
  ASSUME Inv, NEW r \in Recoverers, RecoveryNext(r) \/ RecoveryDies(r)
  PROVE  Inv'
<1> USE DEF Inv, TypeOK, SnapsHeld, RecoveryUnchanged, RecoveryAt, RecoveryPcs
<1>1. CASE FindStuck(r)
  BY <1>1 DEF FindStuck, StuckVideos
<1>2. CASE \E v \in Videos : LoadStuck(r, v)
  BY <1>2 DEF LoadStuck
<1>3. CASE SkipStuck(r)
  BY <1>3, NextStuckType DEF SkipStuck
<1>4. CASE GiveUpStuck(r)
  BY <1>4, CommitType, AssignedType, NextStuckType DEF GiveUpStuck, MaybeRow
<1>5. CASE EnqueueStuck(r)
  BY <1>5, EnqueueType, SpendType DEF EnqueueStuck
<1>6. CASE EnqueueStuckFails(r)
  BY <1>6, EnqueueType, SpendType DEF EnqueueStuckFails, EnqueueRaises, Fault
<1>7. CASE RequeueStuck(r)
  BY <1>7, CommitType, AssignedType, NextStuckType DEF RequeueStuck, MaybeRow
<1>8. CASE RecoveryDies(r)
  BY <1>8, SpendType, IdleTypes DEF RecoveryDies, Fault, IdleRecovery
<1>9. CASE GiveUpUnqueued(r)
  BY <1>9, CommitType, AssignedType, NextStuckType DEF GiveUpUnqueued, MaybeRow
<1> QED
  BY <1>1, <1>2, <1>3, <1>4, <1>5, <1>6, <1>7, <1>8, <1>9 DEF RecoveryNext

LEMMA NextInv == Inv /\ [Next]_vars => Inv'
<1> SUFFICES ASSUME Inv, [Next]_vars
             PROVE  Inv'
  OBVIOUS
<1>1. ASSUME NEW v \in Videos, UploadNext(v) \/ UploadDies(v)
      PROVE  Inv'
  BY <1>1, UploadInv
<1>2. ASSUME NEW v \in Videos, Age(v)
      PROVE  Inv'
  <2>1. \A row \in Row : /\ [row EXCEPT !.started = "stale"] \in Row
                         /\ [row EXCEPT !.updated = "stale"] \in Row
    BY DEF Row, Times
  <2>2. rows[v] \in Row /\ rows \in [Videos -> MaybeRow]
    BY <1>2 DEF Age, Inv, TypeOK, MaybeRow
  <2>3. \/ rows' = [rows EXCEPT ![v] = [rows[v] EXCEPT !.started = "stale"]]
        \/ rows' = [rows EXCEPT ![v] = [rows[v] EXCEPT !.updated = "stale"]]
    BY <1>2 DEF Age
  <2>4. rows' \in [Videos -> MaybeRow]
    BY <2>1, <2>2, <2>3 DEF MaybeRow
  <2> QED
    BY <1>2, <2>4 DEF Age, Inv, TypeOK, SnapsHeld
<1>3. ASSUME NEW w \in Workers, WorkerNext(w) \/ HandlerRaises(w) \/ WorkerDies(w)
      PROVE  Inv'
  BY <1>3, WorkerInv
<1>4. ASSUME NEW a \in Admins, RetryNext(a) \/ RetryDies(a)
      PROVE  Inv'
  BY <1>4, RetryInv
<1>5. ASSUME NEW r \in Recoverers, RecoveryNext(r) \/ RecoveryDies(r)
      PROVE  Inv'
  BY <1>5, RecoveryInv
<1>6. CASE UNCHANGED vars
  BY <1>6 DEF vars, Inv, TypeOK, SnapsHeld
<1> QED
  BY <1>1, <1>2, <1>3, <1>4, <1>5, <1>6 DEF Next

\* The variables keep their types: whatever copy of a row a session commits,
\* and in whatever order, the table holds rows and the list holds messages.
THEOREM TypeCorrect == Spec => []TypeOK
<1>1. Spec => []Inv
  BY InitInv, NextInv, PTL DEF Spec
<1>2. Inv => TypeOK
  BY DEF Inv
<1> QED
  BY <1>1, <1>2, PTL

-----------------------------------------------------------------------------
(* A verdict does not outrun the outputs.                                  *)
(*                                                                         *)
(* OutputsExist is not inductive: the step that completes a row needs that *)
(* the handler found the raw video and stored both outputs before, which   *)
(* ObjectsHeld remembers; ObjectsExist takes the raw video in as well.     *)
(* Every other commit is harmless because of what Flush writes: only an    *)
(* attribute the handler changed, and no other handler changes one to      *)
(* COMPLETED or to a key.                                                  *)

Done(row) == row.status = "COMPLETED" \/ row.outputs

\* A row that is done has all its objects in the store.
ObjectsExist ==
  \A v \in Videos : rows[v] # NoRow /\ Done(rows[v]) => Objects \subseteq objects[v]

\* What a worker's handler has seen in the store, or has put there.
ObjectsHeld ==
  \A w \in Workers :
    /\ worker[w].pc \in {"processed", "thumbnail", "completing"}
         => "raw" \in objects[worker[w].video]
    /\ worker[w].pc \in {"thumbnail", "completing"}
         => "processed" \in objects[worker[w].video]
    /\ worker[w].pc = "completing" => "thumbnail" \in objects[worker[w].video]

ObjectsInv == Inv /\ ObjectsExist /\ ObjectsHeld

\* What a handler assigned neither completes the row nor names its outputs.
NoVerdict(old, new) ==
  /\ new.status # "COMPLETED" \/ new.status = old.status
  /\ ~new.outputs \/ new.outputs = old.outputs

LEMMA AssignedNoVerdict ==
  ASSUME NEW row \in Row
  PROVE  /\ NoVerdict(row, WithRaw(row))
         /\ NoVerdict(row, Enqueued(row))
         /\ NoVerdict(row, NotAccepted(row))
         /\ NoVerdict(row, Claimed(row))
         /\ NoVerdict(row, Failed(row))
         /\ NoVerdict(row, Retried(row))
         /\ NoVerdict(row, Requeued(row))
         /\ NoVerdict(row, GivenUp(row))
<1> USE DEF NoVerdict, Row
<1>1. NoVerdict(row, WithRaw(row)) /\ NoVerdict(row, Enqueued(row))
  BY DEF WithRaw, Enqueued
<1>2. NoVerdict(row, NotAccepted(row)) /\ NoVerdict(row, Failed(row))
  BY DEF NotAccepted, Failed
<1>3. NoVerdict(row, Claimed(row))
  BY DEF Claimed
<1>4. NoVerdict(row, Retried(row)) /\ NoVerdict(row, Requeued(row))
  BY DEF Retried, Requeued
<1>5. NoVerdict(row, GivenUp(row))
  BY DEF GivenUp
<1> QED
  BY <1>1, <1>2, <1>3, <1>4, <1>5

\* A commit without a verdict leaves the row done only if it was.
LEMMA CommitNoVerdict ==
  ASSUME TypeOK, NEW v \in Videos, NEW old \in Row, NEW new \in RowInHand,
         Commit(v, old, new), NoVerdict(old, new)
  PROVE  /\ \A x \in Videos : rows'[x] # NoRow /\ Done(rows'[x])
                                => rows[x] # NoRow /\ Done(rows[x])
<1>1. rows[v] \in Row /\ rows[v] # NoRow
  BY DEF Commit, TypeOK, MaybeRow
<1>2. Done(Flush(rows[v], old, new)) => Done(rows[v])
  BY <1>1 DEF Done, Flush, NoVerdict, Row, RowInHand
<1>3. \A x \in Videos : rows'[x] = IF x = v THEN Flush(rows[v], old, new) ELSE rows[x]
  BY DEF Commit, TypeOK
<1> QED
  BY <1>1, <1>2, <1>3

\* Objects are only added, and no row becomes done.
LEMMA ObjectsKept ==
  ASSUME ObjectsExist, \A x \in Videos : objects[x] \subseteq objects'[x],
         \A x \in Videos : rows'[x] # NoRow /\ Done(rows'[x])
                             => rows[x] # NoRow /\ Done(rows[x])
  PROVE  ObjectsExist'
BY DEF ObjectsExist, Done

LEMMA HeldKept ==
  ASSUME TypeOK, ObjectsHeld, UNCHANGED worker,
         \A x \in Videos : objects[x] \subseteq objects'[x]
  PROVE  ObjectsHeld'
BY DEF ObjectsHeld, TypeOK, WorkerState

LEMMA UploadObjects ==
  ASSUME ObjectsInv, NEW v \in Videos, UploadNext(v) \/ UploadDies(v) \/ Age(v)
  PROVE  ObjectsExist' /\ ObjectsHeld'
<1>1. TypeOK /\ ObjectsExist /\ ObjectsHeld
  BY DEF ObjectsInv, Inv
<1>2. UNCHANGED worker /\ \A x \in Videos : objects[x] \subseteq objects'[x]
  BY <1>1 DEF TypeOK, UploadNext, UploadDies, Age, InsertRow, StoreRaw, SaveRawPath,
       StoreRawFails, EnqueueUpload, EnqueueUploadFails, MarkNotAccepted, MarkQueued,
       UploadUnchanged
<1>3. \A x \in Videos : rows'[x] # NoRow /\ Done(rows'[x])
                          => rows[x] # NoRow /\ Done(rows[x])
  <2>1. CASE InsertRow(v)
    <3>1. ~Done(NewRow)
      BY DEF Done, NewRow
    <3> QED
      BY <1>1, <2>1, <3>1 DEF InsertRow, TypeOK
  <2>2. CASE SaveRawPath(v)
    BY <1>1, <2>2, CommitNoVerdict, AssignedNoVerdict, NewRowType, UploadSnapType
       DEF SaveRawPath, UploadSnap
  <2>3. CASE StoreRawFails(v)
    BY <1>1, <2>3, CommitNoVerdict, AssignedNoVerdict, AssignedType, NewRowType
       DEF StoreRawFails
  <2>4. CASE MarkNotAccepted(v)
    BY <1>1, <2>4, CommitNoVerdict, AssignedNoVerdict, AssignedType, UploadSnapType
       DEF MarkNotAccepted
  <2>5. CASE MarkQueued(v)
    BY <1>1, <2>5, CommitNoVerdict, AssignedNoVerdict, AssignedType, UploadSnapType
       DEF MarkQueued
  <2>6. CASE Age(v)
    <3>1. rows[v] \in Row
      BY <1>1, <2>6 DEF Age, TypeOK, MaybeRow
    <3>2. /\ Done([rows[v] EXCEPT !.started = "stale"]) => Done(rows[v])
          /\ Done([rows[v] EXCEPT !.updated = "stale"]) => Done(rows[v])
      BY <3>1 DEF Done, Row
    <3>3. \/ rows' = [rows EXCEPT ![v] = [rows[v] EXCEPT !.started = "stale"]]
          \/ rows' = [rows EXCEPT ![v] = [rows[v] EXCEPT !.updated = "stale"]]
      BY <2>6 DEF Age
    <3>4. \A x \in Videos \ {v} : rows'[x] = rows[x]
      BY <1>1, <3>3 DEF TypeOK
    <3>5. Done(rows'[v]) => Done(rows[v])
      BY <1>1, <3>2, <3>3 DEF TypeOK
    <3> QED
      BY <2>6, <3>4, <3>5 DEF Age
  <2>7. CASE UNCHANGED rows
    BY <2>7
  <2> QED
    BY <2>1, <2>2, <2>3, <2>4, <2>5, <2>6, <2>7
       DEF UploadNext, StoreRaw, EnqueueUpload, EnqueueUploadFails, UploadDies
<1> QED
  BY <1>1, <1>2, <1>3, ObjectsKept, HeldKept

\* A worker that does not go on to the thumbnail or to the verdict.
LEMMA HeldMoves ==
  ASSUME TypeOK, ObjectsHeld, NEW w \in Workers,
         worker'[w].pc \notin {"processed", "thumbnail", "completing"},
         \A x \in Workers \ {w} : worker'[x] = worker[x],
         \A x \in Videos : objects[x] \subseteq objects'[x]
  PROVE  ObjectsHeld'
BY DEF ObjectsHeld, TypeOK, WorkerState

LEMMA WorkerObjects ==
  ASSUME ObjectsInv, NEW w \in Workers, WorkerNext(w) \/ HandlerRaises(w) \/ WorkerDies(w)
  PROVE  ObjectsExist' /\ ObjectsHeld'
<1>0. /\ TypeOK /\ SnapsHeld /\ ObjectsExist /\ ObjectsHeld
      /\ worker[w].video \in Videos
      /\ worker[w].snap \in MaybeRow /\ NoRow \in MaybeRow
      /\ worker[w].pc \in Holding => worker[w].snap \in Row /\ worker[w].snap # NoRow
      /\ rows[worker[w].video] \in MaybeRow
  BY DEF ObjectsInv, Inv, TypeOK, SnapsHeld, WorkerState, MaybeRow
<1> USE DEF WorkerUnchanged
<1>1. CASE Dequeue(w) \/ SkipJob(w) \/ RaiseToRq(w) \/ ReturnToRq(w) \/ WorkerDies(w)
  <2>1. UNCHANGED <<rows, objects>>
    BY <1>1 DEF Dequeue, SkipJob, RaiseToRq, ReturnToRq, WorkerDies
  <2>2. /\ worker'[w].pc \in {"idle", "loading"}
        /\ \A x \in Workers \ {w} : worker'[x] = worker[x]
    BY <1>0, <1>1 DEF Dequeue, SkipJob, RaiseToRq, ReturnToRq, WorkerDies, IdleWorker,
                      TypeOK, WorkerState
  <2> QED
    BY <1>0, <2>1, <2>2, HeldMoves, ObjectsKept
<1>2. CASE LoadJob(w) \/ RefreshJob(w) \/ ReloadFailed(w) \/ ProcessingFails(w) \/ HandlerRaises(w)
  <2>1. UNCHANGED <<rows, objects>>
    BY <1>2 DEF LoadJob, RefreshJob, ReloadFailed, ProcessingFails, HandlerRaises
  <2>2. /\ worker'[w].pc \in {"claiming", "downloading", "marking", "failing"}
        /\ \A x \in Workers \ {w} : worker'[x] = worker[x]
    BY <1>0, <1>2 DEF LoadJob, RefreshJob, ReloadFailed, ProcessingFails, HandlerRaises, Load,
                      WorkerDrops, TypeOK, WorkerState
  <2> QED
    BY <1>0, <2>1, <2>2, HeldMoves, ObjectsKept
<1>3. CASE Transcode(w)
  <2>1. MovesTo(w, "processed")
    BY <1>0, <1>3, WorkerKeeps DEF Transcode, WorkerPcs, Holding
  <2>2. "raw" \in objects'[worker[w].video]
    BY <1>3 DEF Transcode, RawIsThere
  <2>3. ObjectsHeld'
    BY <1>0, <1>3, <2>1, <2>2 DEF Transcode, ObjectsHeld, MovesTo, TypeOK, WorkerState
  <2> QED
    BY <1>0, <1>3, <2>3, ObjectsKept DEF Transcode
<1>4. CASE UploadProcessed(w)
  <2>1. MovesTo(w, "thumbnail")
    BY <1>0, <1>4, WorkerKeeps DEF UploadProcessed, StoreOutput, WorkerPcs, Holding
  <2>2. /\ \A x \in Videos : objects[x] \subseteq objects'[x]
        /\ {"raw", "processed"} \subseteq objects'[worker[w].video]
    BY <1>0, <1>4 DEF UploadProcessed, StoreOutput, TypeOK, ObjectsHeld
  <2>3. ObjectsHeld'
    BY <1>0, <2>1, <2>2 DEF ObjectsHeld, MovesTo, TypeOK, WorkerState
  <2> QED
    BY <1>0, <1>4, <2>2, <2>3, ObjectsKept DEF UploadProcessed, StoreOutput
<1>5. CASE UploadThumbnail(w)
  <2>1. MovesTo(w, "completing")
    BY <1>0, <1>5, WorkerKeeps DEF UploadThumbnail, StoreOutput, WorkerPcs, Holding
  <2>2. /\ \A x \in Videos : objects[x] \subseteq objects'[x]
        /\ Objects \subseteq objects'[worker[w].video]
    BY <1>0, <1>5 DEF UploadThumbnail, StoreOutput, TypeOK, ObjectsHeld, Objects
  <2>3. ObjectsHeld'
    BY <1>0, <2>1, <2>2 DEF ObjectsHeld, MovesTo, TypeOK, WorkerState, Objects
  <2> QED
    BY <1>0, <1>5, <2>2, <2>3, ObjectsKept DEF UploadThumbnail, StoreOutput
<1>6. CASE Claim(w)
  <2>1. MovesTo(w, "refreshing")
    BY <1>0, <1>6, WorkerLoads DEF Claim, WorkerDrops, WorkerPcs, Holding
  <2>2. \A x \in Videos : rows'[x] # NoRow /\ Done(rows'[x]) => rows[x] # NoRow /\ Done(rows[x])
    BY <1>0, <1>6, CommitNoVerdict, AssignedNoVerdict, AssignedType DEF Claim, Holding
  <2> QED
    BY <1>0, <1>6, <2>1, <2>2, HeldMoves, ObjectsKept DEF Claim, MovesTo
<1>7. CASE MarkFailed(w)
  <2>1. MovesTo(w, "deciding")
    BY <1>0, <1>7, WorkerLoads DEF MarkFailed, WorkerDrops, WorkerPcs, Holding
  <2>2. \A x \in Videos : rows'[x] # NoRow /\ Done(rows'[x]) => rows[x] # NoRow /\ Done(rows[x])
    BY <1>0, <1>7, CommitNoVerdict, AssignedNoVerdict, AssignedType DEF MarkFailed, Holding
  <2> QED
    BY <1>0, <1>7, <2>1, <2>2, HeldMoves, ObjectsKept DEF MarkFailed, MovesTo
<1>8. CASE Complete(w)
  <2>1. MovesTo(w, "completed")
    BY <1>0, <1>8, WorkerLoads DEF Complete, WorkerDrops, WorkerPcs, Holding
  <2>2. ObjectsHeld'
    BY <1>0, <1>8, <2>1, HeldMoves DEF Complete, MovesTo
  <2>3. Objects \subseteq objects[worker[w].video]
    BY <1>0, <1>8 DEF Complete, ObjectsHeld, Objects
  <2>4. \A x \in Videos \ {worker[w].video} : rows'[x] = rows[x]
    BY <1>0, <1>8 DEF Complete, Commit, TypeOK
  <2>5. ObjectsExist'
    BY <1>0, <1>8, <2>3, <2>4 DEF Complete, ObjectsExist
  <2> QED
    BY <2>2, <2>5
<1>9. CASE RecordSuccess(w) \/ DecideRetry(w)
  <2>1. UNCHANGED <<rows, objects>>
    BY <1>9 DEF RecordSuccess, DecideRetry
  <2>2. /\ worker'[w].pc \in {"raising", "returning"}
        /\ \A x \in Workers \ {w} : worker'[x] = worker[x]
    BY <1>0, <1>9 DEF RecordSuccess, DecideRetry, WorkerAt, TypeOK, WorkerState
  <2> QED
    BY <1>0, <2>1, <2>2, HeldMoves, ObjectsKept
<1> QED
  BY <1>1, <1>2, <1>3, <1>4, <1>5, <1>6, <1>7, <1>8, <1>9 DEF WorkerNext

LEMMA RetryObjects ==
  ASSUME ObjectsInv, NEW a \in Admins, RetryNext(a) \/ RetryDies(a)
  PROVE  ObjectsExist' /\ ObjectsHeld'
<1>1. TypeOK /\ SnapsHeld /\ ObjectsExist /\ ObjectsHeld
  BY DEF ObjectsInv, Inv
<1>2. UNCHANGED <<worker, objects>>
  BY DEF RetryNext, RetryDies, LoadRetry, EnqueueRetry, EnqueueRetryFails, ResetRetried,
         RetryUnchanged
<1>3. \A x \in Videos : rows'[x] # NoRow /\ Done(rows'[x])
                          => rows[x] # NoRow /\ Done(rows[x])
  <2>1. CASE ResetRetried(a)
    <3>1. retry[a].video \in Videos /\ retry[a].snap \in Row
      BY <1>1, <2>1 DEF ResetRetried, TypeOK, SnapsHeld, MaybeRow
    <3> QED
      BY <1>1, <2>1, <3>1, CommitNoVerdict, AssignedNoVerdict, AssignedType DEF ResetRetried
  <2>2. CASE UNCHANGED rows
    BY <2>2
  <2> QED
    BY <2>1, <2>2 DEF RetryNext, RetryDies, LoadRetry, EnqueueRetry, EnqueueRetryFails
<1> QED
  BY <1>1, <1>2, <1>3, ObjectsKept, HeldKept

LEMMA RecoveryObjects ==
  ASSUME ObjectsInv, NEW r \in Recoverers, RecoveryNext(r) \/ RecoveryDies(r)
  PROVE  ObjectsExist' /\ ObjectsHeld'
<1>1. TypeOK /\ SnapsHeld /\ ObjectsExist /\ ObjectsHeld
  BY DEF ObjectsInv, Inv
<1>2. UNCHANGED <<worker, objects>>
  BY DEF RecoveryNext, RecoveryDies, FindStuck, LoadStuck, SkipStuck, GiveUpStuck,
         EnqueueStuck, EnqueueStuckFails, GiveUpUnqueued, RequeueStuck, RecoveryUnchanged
<1>3. /\ recovery[r].video \in Videos
      /\ recovery[r].snap \in MaybeRow
  BY <1>1 DEF TypeOK
<1>4. \A x \in Videos : rows'[x] # NoRow /\ Done(rows'[x])
                          => rows[x] # NoRow /\ Done(rows[x])
  <2>1. CASE GiveUpStuck(r) \/ GiveUpUnqueued(r)
    <3>1. /\ recovery[r].snap \in Row
          /\ Commit(recovery[r].video, recovery[r].snap, GivenUp(recovery[r].snap))
      BY <1>1, <1>3, <2>1 DEF GiveUpStuck, GiveUpUnqueued, SnapsHeld, MaybeRow
    <3> QED
      BY <1>1, <1>3, <3>1, CommitNoVerdict, AssignedNoVerdict, AssignedType
  <2>2. CASE RequeueStuck(r)
    <3>1. recovery[r].snap \in Row
      BY <1>1, <1>3, <2>2 DEF RequeueStuck, SnapsHeld, MaybeRow
    <3> QED
      BY <1>1, <1>3, <2>2, <3>1, CommitNoVerdict, AssignedNoVerdict, AssignedType
         DEF RequeueStuck
  <2>3. CASE UNCHANGED rows
    BY <2>3
  <2> QED
    BY <2>1, <2>2, <2>3 DEF RecoveryNext, RecoveryDies, FindStuck, LoadStuck, SkipStuck,
                            EnqueueStuck, EnqueueStuckFails
<1> QED
  BY <1>1, <1>2, <1>4, ObjectsKept, HeldKept

LEMMA InitObjects == Init => ObjectsInv
BY InitInv DEF Init, ObjectsInv, ObjectsExist, ObjectsHeld, IdleWorker

LEMMA NextObjects == ObjectsInv /\ [Next]_vars => ObjectsInv'
<1> SUFFICES ASSUME ObjectsInv, [Next]_vars
             PROVE  ObjectsInv'
  OBVIOUS
<1>1. Inv'
  BY NextInv DEF ObjectsInv
<1>2. CASE UNCHANGED vars
  BY <1>1, <1>2 DEF vars, ObjectsInv, ObjectsExist, ObjectsHeld
<1> QED
  BY <1>1, <1>2, UploadObjects, WorkerObjects, RetryObjects, RecoveryObjects
     DEF Next, ObjectsInv

LEMMA ObjectsAlways == Spec => []ObjectsInv
BY InitObjects, NextObjects, PTL DEF Spec

\* A COMPLETED row, and a row that names output keys, has both outputs in the
\* store, whatever stale sessions commit: no handler writes COMPLETED or a key
\* before _run_processing has uploaded the outputs.
THEOREM OutputsAlwaysExist == Spec => []OutputsExist
<1>1. ObjectsInv => OutputsExist
  BY DEF ObjectsInv, ObjectsExist, OutputsExist, Done, Outputs, Objects
<1> QED
  BY <1>1, ObjectsAlways, PTL

\* What the assets endpoint signs URLs of is in the store, for any number of
\* recovery passes next to each other (POST /jobs/recover-stuck takes no lock)
\* and any number of workers.
THEOREM AssetsAlwaysExist == Spec => []AssetsExist
<1>1. ObjectsInv => AssetsExist
  BY DEF ObjectsInv, ObjectsExist, AssetsExist, Assets, Done, HasStatus
<1> QED
  BY <1>1, ObjectsAlways, PTL

-----------------------------------------------------------------------------
(* No message is run before its raw video was stored.                      *)
(*                                                                         *)
(* A message comes from an upload past StoreRaw, from RQ, from an          *)
(* administrator who saw FAILED or from a pass that saw QUEUED or          *)
(* PROCESSING.  Such a status is written under a stored video only, except *)
(* that object mode fails the job whose raw video could not be stored: the *)
(* theorem needs local mode, or nobody to retry that job.                  *)

HasRaw(v) == "raw" \in objects[v]

\* A row that some handler may queue again, or has processed.
SentOff(row) ==
  \/ row.status \in {"QUEUED", "PROCESSING", "COMPLETED"}
  \/ StorageBackend = "local" /\ row.status = "FAILED"

RowsHaveRaw   == \A v \in Videos : rows[v] # NoRow /\ SentOff(rows[v]) => HasRaw(v)
UploadHasRaw  == \A v \in Videos :
                   upload[v] \in {"saving", "enqueuing", "refusing", "marking"} => HasRaw(v)
QueueHasRaw   == \A i \in DOMAIN queue : HasRaw(queue[i].video)
WorkersHaveRaw == \A w \in Workers : worker[w].pc # "idle" => HasRaw(worker[w].video)
RetriesHaveRaw == \A a \in Admins : retry[a].pc # "idle" => HasRaw(retry[a].video)
RecoveryHasRaw ==
  \A r \in Recoverers :
    \/ recovery[r].pc \in {"refusing", "marking"}
    \/ recovery[r].snap # NoRow /\ Recoverable(recovery[r].snap)
    => HasRaw(recovery[r].video)

RawInv ==
  /\ Inv /\ RowsHaveRaw /\ UploadHasRaw /\ QueueHasRaw
  /\ WorkersHaveRaw /\ RetriesHaveRaw /\ RecoveryHasRaw

\* Objects are only added, and what is written or queued is of a video that has
\* its raw object: then the parts that a step leaves alone still hold.
LEMMA RawStays ==
  ASSUME RawInv, \A v \in Videos : objects[v] \subseteq objects'[v]
  PROVE  /\ \A v \in Videos : HasRaw(v) => HasRaw(v)'
         /\ (\A v \in Videos : rows'[v] = rows[v] \/ HasRaw(v)' \/ ~SentOff(rows'[v]))
              => RowsHaveRaw'
         /\ (\A v \in Videos : upload'[v] = upload[v] \/ HasRaw(v)' \/ upload'[v] \in {"storing", "done"})
              => UploadHasRaw'
         /\ UNCHANGED queue => QueueHasRaw'
         /\ UNCHANGED worker => WorkersHaveRaw'
         /\ UNCHANGED retry => RetriesHaveRaw'
         /\ UNCHANGED recovery => RecoveryHasRaw'
<1>1. \A v \in Videos : HasRaw(v) => HasRaw(v)'
  BY DEF HasRaw
<1>2. /\ \A i \in DOMAIN queue : queue[i].video \in Videos
      /\ \A w \in Workers : worker[w].video \in Videos
      /\ \A a \in Admins : retry[a].video \in Videos
      /\ \A r \in Recoverers : recovery[r].video \in Videos
  <2>1. \A i \in DOMAIN queue : queue[i] \in Message
    BY DEF RawInv, Inv, TypeOK
  <2> QED
    BY <2>1 DEF RawInv, Inv, TypeOK, Message, WorkerState
<1>3. (\A v \in Videos : rows'[v] = rows[v] \/ HasRaw(v)' \/ ~SentOff(rows'[v])) => RowsHaveRaw'
  BY <1>1 DEF RawInv, RowsHaveRaw, SentOff
<1>4. (\A v \in Videos : upload'[v] = upload[v] \/ HasRaw(v)' \/ upload'[v] \in {"storing", "done"})
         => UploadHasRaw'
  BY <1>1 DEF RawInv, UploadHasRaw
<1>5. UNCHANGED queue => QueueHasRaw'
  BY <1>1, <1>2 DEF RawInv, QueueHasRaw
<1>6. UNCHANGED worker => WorkersHaveRaw'
  BY <1>1, <1>2 DEF RawInv, WorkersHaveRaw
<1>7. UNCHANGED retry => RetriesHaveRaw'
  BY <1>1, <1>2 DEF RawInv, RetriesHaveRaw
<1>8. UNCHANGED recovery => RecoveryHasRaw'
  BY <1>1, <1>2 DEF RawInv, RecoveryHasRaw
<1> QED
  BY <1>1, <1>3, <1>4, <1>5, <1>6, <1>7, <1>8

\* A message is appended for a video that has its raw object.
LEMMA RawQueued ==
  ASSUME RawInv, UNCHANGED objects, NEW v \in Videos, HasRaw(v), NEW left \in Nat,
         queue' = Append(queue, [video |-> v, left |-> left])
  PROVE  QueueHasRaw'
<1>1. queue \in Seq(Message) /\ [video |-> v, left |-> left] \in Message
  BY DEF RawInv, Inv, TypeOK, Message
<1>2. \A i \in DOMAIN queue' :
        (i \in DOMAIN queue /\ queue'[i] = queue[i]) \/ queue'[i] = [video |-> v, left |-> left]
  BY <1>1, AppendOne
<1>3. \A i \in DOMAIN queue : "raw" \in objects[queue[i].video]
  BY DEF RawInv, QueueHasRaw, HasRaw
<1>4. \A i \in DOMAIN queue' : "raw" \in objects'[queue'[i].video]
  BY <1>2, <1>3 DEF HasRaw
<1> QED
  BY <1>4 DEF QueueHasRaw, HasRaw

LEMMA RawEnqueued ==
  ASSUME RawInv, UNCHANGED objects, NEW v \in Videos, HasRaw(v),
         Enqueue(v) \/ EnqueueRaises(v)
  PROVE  QueueHasRaw'
<1>1. MaxAttempts - 1 \in Nat
  BY MaxAttemptsAssumption
<1>2. CASE Enqueue(v)
  BY <1>1, <1>2, RawQueued DEF Enqueue
<1>3. CASE UNCHANGED queue
  BY <1>3, RawStays
<1> QED
  BY <1>2, <1>3 DEF EnqueueRaises

LEMMA UploadRaw ==
  ASSUME RawInv, NEW v \in Videos, UploadNext(v) \/ UploadDies(v)
  PROVE  RowsHaveRaw' /\ UploadHasRaw' /\ QueueHasRaw' /\ WorkersHaveRaw'
           /\ RetriesHaveRaw' /\ RecoveryHasRaw'
<1>1. TypeOK
  BY DEF RawInv, Inv
<1>2. UNCHANGED <<worker, retry, recovery>>
  BY DEF UploadNext, UploadUnchanged, InsertRow, StoreRaw, SaveRawPath, StoreRawFails,
         EnqueueUpload, EnqueueUploadFails, MarkNotAccepted, MarkQueued, UploadDies
<1>3. \A x \in Videos : objects[x] \subseteq objects'[x]
  BY <1>1 DEF UploadNext, InsertRow, StoreRaw, SaveRawPath, StoreRawFails, TypeOK,
         EnqueueUpload, EnqueueUploadFails, MarkNotAccepted, MarkQueued, UploadDies
<1>4. WorkersHaveRaw' /\ RetriesHaveRaw' /\ RecoveryHasRaw'
  BY <1>2, <1>3, RawStays
<1>5. \A x \in Videos \ {v} : upload'[x] = upload[x]
  BY <1>1 DEF UploadNext, UploadAt, InsertRow, StoreRaw, SaveRawPath, StoreRawFails, TypeOK,
         EnqueueUpload, EnqueueUploadFails, MarkNotAccepted, MarkQueued, UploadDies
<1>6. upload[v] \in {"saving", "enqueuing", "refusing", "marking"} => HasRaw(v) /\ HasRaw(v)'
  BY <1>3, RawStays DEF RawInv, UploadHasRaw
<1>7. UploadHasRaw'
  <2>1. upload'[v] \in {"storing", "done"} \/ HasRaw(v)'
    <3>1. CASE StoreRaw(v)
      BY <1>1, <3>1 DEF StoreRaw, HasRaw, TypeOK
    <3>2. CASE SaveRawPath(v) \/ EnqueueUpload(v) \/ EnqueueUploadFails(v)
      BY <1>6, <3>2 DEF SaveRawPath, EnqueueUpload, EnqueueUploadFails
    <3> QED
      BY <1>1, <3>1, <3>2 DEF UploadNext, UploadAt, InsertRow, StoreRawFails, MarkNotAccepted,
                              MarkQueued, UploadDies, TypeOK
  <2> QED
    BY <1>3, <1>5, <2>1, RawStays
<1>8. QueueHasRaw'
  <2>1. CASE EnqueueUpload(v) \/ EnqueueUploadFails(v)
    BY <1>6, <2>1, RawEnqueued DEF EnqueueUpload, EnqueueUploadFails
  <2>2. CASE UNCHANGED queue
    BY <1>3, <2>2, RawStays
  <2> QED
    BY <2>1, <2>2 DEF UploadNext, InsertRow, StoreRaw, SaveRawPath, StoreRawFails,
                      MarkNotAccepted, MarkQueued, UploadDies
<1>9. RowsHaveRaw'
  <2>1. CASE InsertRow(v)
    <3>1. rows'[v] = NewRow /\ \A x \in Videos \ {v} : rows'[x] = rows[x]
      BY <1>1, <2>1 DEF InsertRow, TypeOK
    <3>2. ~SentOff(rows'[v])
      BY <3>1 DEF SentOff, NewRow
    <3> QED
      BY <1>3, <3>1, <3>2, RawStays
  <2>2. CASE StoreRawFails(v) /\ StorageBackend = "object"
    <3>1. Commit(v, NewRow, NotAccepted(NewRow))
      BY <2>2 DEF StoreRawFails
    <3>2. /\ rows'[v] = Flush(rows[v], NewRow, NotAccepted(NewRow))
          /\ \A x \in Videos \ {v} : rows'[x] = rows[x]
      BY <1>1, <3>1, CommitRow, NewRowType, AssignedType
    <3>3. ~SentOff(rows'[v])
      BY <2>2, <3>2 DEF SentOff, Flush, NotAccepted, NewRow
    <3> QED
      BY <1>3, <3>2, <3>3, RawStays
  <2>3. CASE SaveRawPath(v) \/ MarkNotAccepted(v) \/ MarkQueued(v)
    <3>1. HasRaw(v)'
      BY <1>6, <2>3 DEF SaveRawPath, MarkNotAccepted, MarkQueued
    <3>2. \A x \in Videos \ {v} : rows'[x] = rows[x]
      BY <1>1, <2>3 DEF SaveRawPath, MarkNotAccepted, MarkQueued, Commit, TypeOK
    <3> QED
      BY <1>3, <3>1, <3>2, RawStays
  <2>4. CASE UNCHANGED rows
    BY <1>3, <2>4, RawStays
  <2>5. StorageBackend = "object" \/ StorageBackend = "local"
    BY StorageBackendAssumption
  <2> QED
    BY <2>1, <2>2, <2>3, <2>4, <2>5
       DEF UploadNext, StoreRaw, StoreRawFails, EnqueueUpload, EnqueueUploadFails, UploadDies
<1> QED
  BY <1>4, <1>7, <1>8, <1>9

\* A handler keeps to its message until it is over, and nobody else moves.
LEMMA WorkerSteps ==
  ASSUME TypeOK, NEW w \in Workers, WorkerNext(w) \/ HandlerRaises(w) \/ WorkerDies(w), ~Dequeue(w)
  PROVE  /\ worker'[w].pc = "idle" \/ (worker[w].pc # "idle" /\ worker'[w].video = worker[w].video)
         /\ \A x \in Workers \ {w} : worker'[x] = worker[x]
<1>0. worker \in [Workers -> WorkerState] /\ worker[w] \in WorkerState
  BY DEF TypeOK
<1>1. CASE SkipJob(w) \/ RaiseToRq(w) \/ ReturnToRq(w) \/ WorkerDies(w)
  <2>1. worker' = [worker EXCEPT ![w] = IdleWorker]
    BY <1>1 DEF SkipJob, RaiseToRq, ReturnToRq, WorkerDies
  <2>2. worker'[w] = IdleWorker /\ \A x \in Workers \ {w} : worker'[x] = worker[x]
    BY <1>0, <2>1
  <2> QED
    BY <2>2 DEF IdleWorker
<1> USE DEF WorkerState
<1>2. CASE LoadJob(w) \/ RefreshJob(w) \/ ReloadFailed(w)
  BY <1>0, <1>2 DEF LoadJob, RefreshJob, ReloadFailed, Load
<1>3. CASE Transcode(w) \/ UploadProcessed(w) \/ UploadThumbnail(w) \/ RecordSuccess(w) \/ DecideRetry(w)
  BY <1>0, <1>3 DEF Transcode, UploadProcessed, UploadThumbnail, StoreOutput, RecordSuccess,
                    DecideRetry, WorkerAt
<1>4. CASE Claim(w) \/ Complete(w) \/ ProcessingFails(w) \/ HandlerRaises(w) \/ MarkFailed(w)
  BY <1>0, <1>4 DEF Claim, Complete, ProcessingFails, HandlerRaises, MarkFailed, WorkerDrops, Processing
<1> QED
  BY <1>1, <1>2, <1>3, <1>4 DEF WorkerNext

\* The only objects that a worker's step adds to the store are the outputs.
LEMMA WorkerStores ==
  ASSUME TypeOK, NEW w \in Workers, WorkerNext(w) \/ HandlerRaises(w) \/ WorkerDies(w)
  PROVE  \A x \in Videos :
           /\ objects[x] \subseteq objects'[x]
           /\ "raw" \in objects'[x] => "raw" \in objects[x]
<1>1. \/ UNCHANGED objects
      \/ \E object \in {"processed", "thumbnail"} :
           objects' = [objects EXCEPT ![worker[w].video] = @ \cup {object}]
  <2>1. CASE UploadProcessed(w) \/ UploadThumbnail(w)
    BY <2>1 DEF UploadProcessed, UploadThumbnail, StoreOutput
  <2>2. CASE Dequeue(w) \/ SkipJob(w) \/ LoadJob(w) \/ Claim(w) \/ RefreshJob(w) \/ Transcode(w)
    BY <2>2 DEF Dequeue, SkipJob, LoadJob, Claim, RefreshJob, Transcode
  <2>3. CASE \/ Complete(w) \/ RecordSuccess(w) \/ ProcessingFails(w) \/ ReloadFailed(w)
             \/ MarkFailed(w) \/ DecideRetry(w)
    BY <2>3 DEF Complete, RecordSuccess, ProcessingFails, ReloadFailed, MarkFailed, DecideRetry
  <2>4. CASE RaiseToRq(w) \/ ReturnToRq(w) \/ HandlerRaises(w) \/ WorkerDies(w)
    BY <2>4 DEF RaiseToRq, ReturnToRq, HandlerRaises, WorkerDies
  <2> QED
    BY <2>1, <2>2, <2>3, <2>4 DEF WorkerNext
<1>2. objects \in [Videos -> SUBSET Objects]
  BY DEF TypeOK
<1> QED
  BY <1>1, <1>2

LEMMA WorkerRaw ==
  ASSUME RawInv, NEW w \in Workers, WorkerNext(w) \/ HandlerRaises(w) \/ WorkerDies(w)
  PROVE  RowsHaveRaw' /\ UploadHasRaw' /\ QueueHasRaw' /\ WorkersHaveRaw'
           /\ RetriesHaveRaw' /\ RecoveryHasRaw'
<1>1. TypeOK /\ SnapsHeld /\ worker[w] \in WorkerState /\ worker[w].video \in Videos
        /\ worker[w].left \in Nat
  BY DEF RawInv, Inv, TypeOK, WorkerState
<1>2. worker[w].pc # "idle" => HasRaw(worker[w].video)
  BY DEF RawInv, WorkersHaveRaw
<1>3. \A x \in Videos : objects[x] \subseteq objects'[x]
  BY <1>1, WorkerStores
<1>4. UNCHANGED <<upload, retry, recovery>>
  BY DEF WorkerNext, WorkerDies, Dequeue, SkipJob, LoadJob, Claim, RefreshJob, Transcode,
         UploadProcessed, UploadThumbnail, StoreOutput, Complete, ProcessingFails, ReloadFailed,
         MarkFailed, RecordSuccess, DecideRetry, HandlerRaises, RaiseToRq, ReturnToRq, WorkerUnchanged
<1>5. UploadHasRaw' /\ RetriesHaveRaw' /\ RecoveryHasRaw'
  BY <1>3, <1>4, RawStays
<1>6. RowsHaveRaw'
  <2>1. CASE UNCHANGED rows
    BY <1>3, <2>1, RawStays
  <2>2. CASE Claim(w) \/ Complete(w) \/ MarkFailed(w)
    <3>1. worker[w].pc # "idle" /\ \A x \in Videos \ {worker[w].video} : rows'[x] = rows[x]
      BY <1>1, <2>2 DEF Claim, Complete, MarkFailed, Commit, TypeOK
    <3> QED
      BY <1>2, <1>3, <3>1, RawStays
  <2> QED
    BY <2>1, <2>2 DEF WorkerNext, WorkerDies, Dequeue, SkipJob, LoadJob, RefreshJob, Transcode,
         UploadProcessed, UploadThumbnail, StoreOutput, ProcessingFails, ReloadFailed,
         RecordSuccess, DecideRetry, HandlerRaises, RaiseToRq, ReturnToRq
<1>7. QueueHasRaw'
  <2>1. CASE UNCHANGED queue
    BY <1>3, <2>1, RawStays
  <2>2. CASE Dequeue(w)
    <3>1. queue \in Seq(Message) /\ queue # <<>> /\ queue' = Tail(queue) /\ UNCHANGED objects
      BY <1>1, <2>2 DEF Dequeue, TypeOK
    <3>2. \A i \in DOMAIN queue' : i + 1 \in DOMAIN queue /\ queue'[i] = queue[i + 1]
      BY <3>1, HeadAndTail
    <3>3. \A i \in DOMAIN queue : "raw" \in objects[queue[i].video]
      BY DEF RawInv, QueueHasRaw, HasRaw
    <3>4. \A i \in DOMAIN queue' : "raw" \in objects'[queue'[i].video]
      BY <3>1, <3>2, <3>3
    <3> QED
      BY <3>4 DEF QueueHasRaw, HasRaw
  <2>3. CASE RaiseToRq(w) \/ WorkerDies(w)
    <3>1. worker[w].pc # "idle" /\ UNCHANGED objects
      BY <2>3 DEF RaiseToRq, WorkerDies
    <3>2. CASE worker[w].left > 0
               /\ queue' = Append(queue, [video |-> worker[w].video, left |-> worker[w].left - 1])
      <4>1. worker[w].left - 1 \in Nat
        BY <1>1, <3>2
      <4> QED
        BY <1>1, <1>2, <3>1, <3>2, <4>1, RawQueued
    <3> QED
      BY <2>1, <2>3, <3>2 DEF RaiseToRq, WorkerDies, RqRetry
  <2> QED
    BY <2>1, <2>2, <2>3 DEF WorkerNext, SkipJob, LoadJob, Claim, RefreshJob, Transcode,
         UploadProcessed, UploadThumbnail, StoreOutput, Complete, ProcessingFails, ReloadFailed,
         MarkFailed, RecordSuccess, DecideRetry, HandlerRaises, ReturnToRq
<1>8. WorkersHaveRaw'
  <2>1. CASE Dequeue(w)
    <3>1. queue \in Seq(Message) /\ queue # <<>> /\ UNCHANGED objects
      BY <1>1, <2>1 DEF Dequeue, TypeOK
    <3>2. 1 \in DOMAIN queue /\ Head(queue) = queue[1]
      BY <3>1, HeadAndTail
    <3>3. "raw" \in objects[Head(queue).video]
      BY <3>2 DEF RawInv, QueueHasRaw, HasRaw
    <3>4. worker'[w].video = Head(queue).video /\ \A x \in Workers \ {w} : worker'[x] = worker[x]
      BY <1>1, <2>1 DEF Dequeue, TypeOK, WorkerState
    <3>5. \A x \in Workers : worker'[x].pc # "idle" => "raw" \in objects'[worker'[x].video]
      BY <3>1, <3>3, <3>4 DEF RawInv, WorkersHaveRaw, HasRaw
    <3> QED
      BY <3>5 DEF WorkersHaveRaw, HasRaw
  <2>2. CASE ~Dequeue(w)
    <3>1. /\ worker'[w].pc = "idle" \/ (worker[w].pc # "idle" /\ worker'[w].video = worker[w].video)
          /\ \A x \in Workers \ {w} : worker'[x] = worker[x]
      BY <1>1, <2>2, WorkerSteps
    <3>2. \A x \in Workers : worker[x].video \in Videos
      BY <1>1 DEF TypeOK, WorkerState
    <3>3. \A x \in Workers : worker'[x].pc # "idle" => "raw" \in objects'[worker'[x].video]
      BY <1>3, <3>1, <3>2 DEF RawInv, WorkersHaveRaw, HasRaw
    <3> QED
      BY <3>3 DEF WorkersHaveRaw, HasRaw
  <2> QED
    BY <2>1, <2>2
<1> QED
  BY <1>5, <1>6, <1>7, <1>8

\* The administrator sees FAILED.
LEMMA RetryRaw ==
  ASSUME RawInv, StorageBackend = "local", NEW a \in Admins, RetryNext(a) \/ RetryDies(a)
  PROVE  RowsHaveRaw' /\ UploadHasRaw' /\ QueueHasRaw' /\ WorkersHaveRaw'
           /\ RetriesHaveRaw' /\ RecoveryHasRaw'
<1>1. TypeOK /\ SnapsHeld /\ retry[a].video \in Videos
  BY DEF RawInv, Inv, TypeOK
<1>2. UNCHANGED <<objects, upload, worker, recovery>>
  BY DEF RetryNext, RetryDies, LoadRetry, EnqueueRetry, EnqueueRetryFails, ResetRetried,
         RetryUnchanged
<1>3. retry[a].pc # "idle" => HasRaw(retry[a].video)
  BY DEF RawInv, RetriesHaveRaw
<1>4. \A x \in Videos : objects[x] \subseteq objects'[x]
  BY <1>2
<1>5. UploadHasRaw' /\ WorkersHaveRaw' /\ RecoveryHasRaw'
  BY <1>2, <1>4, RawStays
<1>6. RowsHaveRaw'
  <2>1. CASE UNCHANGED rows
    BY <1>4, <2>1, RawStays
  <2>2. CASE ResetRetried(a)
    <3>1. retry[a].pc # "idle" /\ \A x \in Videos \ {retry[a].video} : rows'[x] = rows[x]
      BY <1>1, <2>2 DEF ResetRetried, Commit, TypeOK
    <3> QED
      BY <1>3, <1>4, <3>1, RawStays
  <2> QED
    BY <2>1, <2>2 DEF RetryNext, RetryDies, LoadRetry, EnqueueRetry, EnqueueRetryFails
<1>7. QueueHasRaw'
  <2>1. CASE UNCHANGED queue
    BY <1>4, <2>1, RawStays
  <2>2. CASE EnqueueRetry(a) \/ EnqueueRetryFails(a)
    <3>1. HasRaw(retry[a].video) /\ (Enqueue(retry[a].video) \/ EnqueueRaises(retry[a].video))
      BY <1>3, <2>2 DEF EnqueueRetry, EnqueueRetryFails
    <3> QED
      BY <1>1, <1>2, <3>1, RawEnqueued
  <2> QED
    BY <2>1, <2>2 DEF RetryNext, RetryDies, LoadRetry, ResetRetried
<1>8. /\ retry'[a].pc = "idle" \/ "raw" \in objects[retry'[a].video]
      /\ \A x \in Admins \ {a} : retry'[x] = retry[x]
  <2>1. ASSUME NEW v \in Videos, LoadRetry(a, v)
        PROVE  retry'[a].video = v /\ \A x \in Admins \ {a} : retry'[x] = retry[x]
    BY <1>1, <2>1 DEF LoadRetry, TypeOK
  <2>2. ASSUME NEW v \in Videos, LoadRetry(a, v)
        PROVE  "raw" \in objects[v]
    BY <2>2 DEF LoadRetry, Retryable, SentOff, RawInv, RowsHaveRaw, HasRaw
  <2>3. CASE EnqueueRetry(a)
    BY <1>1, <1>3, <2>3 DEF EnqueueRetry, HasRaw, TypeOK
  <2>4. CASE EnqueueRetryFails(a) \/ ResetRetried(a) \/ RetryDies(a)
    <3>1. retry' = [retry EXCEPT ![a] = IdleRetry]
      BY <2>4 DEF EnqueueRetryFails, ResetRetried, RetryDies
    <3> QED
      BY <1>1, <3>1 DEF IdleRetry, TypeOK
  <2> QED
    BY <2>1, <2>2, <2>3, <2>4 DEF RetryNext
<1>9. RetriesHaveRaw'
  <2>1. \A x \in Admins : retry'[x].pc # "idle" => "raw" \in objects'[retry'[x].video]
    BY <1>2, <1>8 DEF RawInv, RetriesHaveRaw, HasRaw
  <2> QED
    BY <2>1 DEF RetriesHaveRaw, HasRaw
<1> QED
  BY <1>5, <1>6, <1>7, <1>9

\* The pass sees QUEUED or PROCESSING.
LEMMA RecoveryRaw ==
  ASSUME RawInv, NEW r \in Recoverers, RecoveryNext(r) \/ RecoveryDies(r)
  PROVE  RowsHaveRaw' /\ UploadHasRaw' /\ QueueHasRaw' /\ WorkersHaveRaw'
           /\ RetriesHaveRaw' /\ RecoveryHasRaw'
<1>1. TypeOK /\ SnapsHeld /\ recovery[r].video \in Videos
  BY DEF RawInv, Inv, TypeOK
<1>2. UNCHANGED <<objects, upload, worker, retry>>
  BY DEF RecoveryNext, RecoveryDies, FindStuck, LoadStuck, SkipStuck, GiveUpStuck,
         EnqueueStuck, EnqueueStuckFails, GiveUpUnqueued, RequeueStuck, RecoveryUnchanged
<1>3. \/ recovery[r].pc \in {"refusing", "marking"}
      \/ recovery[r].snap # NoRow /\ Recoverable(recovery[r].snap)
      => HasRaw(recovery[r].video)
  BY DEF RawInv, RecoveryHasRaw
<1>4. \A x \in Videos : objects[x] \subseteq objects'[x]
  BY <1>2
<1>5. UploadHasRaw' /\ WorkersHaveRaw' /\ RetriesHaveRaw'
  BY <1>2, <1>4, RawStays
<1>6. RowsHaveRaw'
  <2>1. CASE UNCHANGED rows
    BY <1>4, <2>1, RawStays
  <2>2. CASE GiveUpStuck(r) \/ GiveUpUnqueued(r) \/ RequeueStuck(r)
    <3>1. HasRaw(recovery[r].video)
      BY <1>3, <2>2 DEF GiveUpStuck, GiveUpUnqueued, RequeueStuck
    <3>2. \A x \in Videos \ {recovery[r].video} : rows'[x] = rows[x]
      BY <1>1, <2>2 DEF GiveUpStuck, GiveUpUnqueued, RequeueStuck, Commit, TypeOK
    <3> QED
      BY <1>4, <3>1, <3>2, RawStays
  <2> QED
    BY <2>1, <2>2 DEF RecoveryNext, RecoveryDies, FindStuck, LoadStuck, SkipStuck, EnqueueStuck,
                      EnqueueStuckFails
<1>7. QueueHasRaw'
  <2>1. CASE UNCHANGED queue
    BY <1>4, <2>1, RawStays
  <2>2. CASE EnqueueStuck(r) \/ EnqueueStuckFails(r)
    <3>1. HasRaw(recovery[r].video)
            /\ (Enqueue(recovery[r].video) \/ EnqueueRaises(recovery[r].video))
      BY <1>3, <2>2 DEF EnqueueStuck, EnqueueStuckFails
    <3> QED
      BY <1>1, <1>2, <3>1, RawEnqueued
  <2> QED
    BY <2>1, <2>2 DEF RecoveryNext, RecoveryDies, FindStuck, LoadStuck, SkipStuck, GiveUpStuck,
                      GiveUpUnqueued, RequeueStuck
<1>8. /\ \/ recovery'[r].pc \in {"refusing", "marking"}
         \/ recovery'[r].snap # NoRow /\ Recoverable(recovery'[r].snap)
         => "raw" \in objects[recovery'[r].video]
      /\ \A x \in Recoverers \ {r} : recovery'[x] = recovery[x]
  <2>1. ASSUME NEW v \in Videos, LoadStuck(r, v)
        PROVE  /\ recovery'[r].video = v /\ recovery'[r].snap = rows[v]
               /\ recovery'[r].pc = "deciding"
               /\ \A x \in Recoverers \ {r} : recovery'[x] = recovery[x]
    BY <1>1, <2>1 DEF LoadStuck, TypeOK
  <2>2. ASSUME NEW v \in Videos, rows[v] # NoRow, Recoverable(rows[v])
        PROVE  "raw" \in objects[v]
    BY <2>2 DEF Recoverable, SentOff, RawInv, RowsHaveRaw, HasRaw
  <2>3. CASE FindStuck(r)
    BY <1>1, <1>3, <2>3 DEF FindStuck, HasRaw, TypeOK
  <2>4. CASE EnqueueStuck(r) \/ EnqueueStuckFails(r)
    <3>1. recovery'[r].video = recovery[r].video
            /\ \A x \in Recoverers \ {r} : recovery'[x] = recovery[x]
      BY <1>1, <2>4 DEF EnqueueStuck, EnqueueStuckFails, RecoveryAt, TypeOK
    <3> QED
      BY <1>3, <2>4, <3>1 DEF EnqueueStuck, EnqueueStuckFails, HasRaw
  <2>5. CASE NextStuck(r) \/ RecoveryDies(r)
    <3>1. /\ recovery'[r].snap = NoRow /\ recovery'[r].pc \in {"idle", "scanning"}
          /\ \A x \in Recoverers \ {r} : recovery'[x] = recovery[x]
      <4>1. PICK next \in {IdleRecovery,
                            [IdleRecovery EXCEPT !.pc = "scanning", !.todo = recovery[r].todo]} :
              recovery' = [recovery EXCEPT ![r] = next]
        BY <2>5 DEF NextStuck, RecoveryDies
      <4>2. next.snap = NoRow /\ next.pc \in {"idle", "scanning"}
        <5>1. IdleRecovery.snap = NoRow /\ IdleRecovery.pc = "idle"
          BY DEF IdleRecovery
        <5>2. /\ [IdleRecovery EXCEPT !.pc = "scanning", !.todo = recovery[r].todo].snap = NoRow
              /\ [IdleRecovery EXCEPT !.pc = "scanning", !.todo = recovery[r].todo].pc = "scanning"
          BY DEF IdleRecovery
        <5> QED
          BY <4>1, <5>1, <5>2
      <4> QED
        <5>1. recovery \in [Recoverers -> [pc : RecoveryPcs, todo : SUBSET Videos,
                                           video : Videos, snap : MaybeRow]]
          BY <1>1 DEF TypeOK
        <5>2. recovery'[r] = next /\ \A x \in Recoverers \ {r} : recovery'[x] = recovery[x]
          BY <4>1, <5>1
        <5> QED
          BY <4>2, <5>2
    <3> QED
      BY <3>1
  <2> QED
    BY <2>1, <2>2, <2>3, <2>4, <2>5
       DEF RecoveryNext, SkipStuck, GiveUpStuck, GiveUpUnqueued, RequeueStuck
<1>9. RecoveryHasRaw'
  <2>1. \A x \in Recoverers :
          \/ recovery'[x].pc \in {"refusing", "marking"}
          \/ recovery'[x].snap # NoRow /\ Recoverable(recovery'[x].snap)
          => "raw" \in objects'[recovery'[x].video]
    BY <1>2, <1>8 DEF RawInv, RecoveryHasRaw, HasRaw
  <2> QED
    BY <2>1 DEF RecoveryHasRaw, HasRaw
<1> QED
  BY <1>5, <1>6, <1>7, <1>9

LEMMA InitRaw == Init => RawInv
BY InitInv DEF Init, RawInv, RowsHaveRaw, UploadHasRaw, QueueHasRaw, WorkersHaveRaw,
               RetriesHaveRaw, RecoveryHasRaw, IdleWorker, IdleRetry, IdleRecovery

LEMMA AgeRaw ==
  ASSUME RawInv, NEW v \in Videos, Age(v)
  PROVE  RowsHaveRaw' /\ UploadHasRaw' /\ QueueHasRaw' /\ WorkersHaveRaw'
           /\ RetriesHaveRaw' /\ RecoveryHasRaw'
<1>1. UNCHANGED <<queue, objects, upload, worker, retry, recovery>>
  BY DEF Age
<1>2. HasRaw(v) /\ \A x \in Videos \ {v} : rows'[x] = rows[x]
  BY DEF Age, RawInv, RowsHaveRaw, SentOff, Inv, TypeOK
<1> QED
  BY <1>1, <1>2, RawStays

LEMMA NextRaw ==
  ASSUME StorageBackend = "local" \/ Admins = {}
  PROVE  RawInv /\ [Next]_vars => RawInv'
<1> SUFFICES ASSUME RawInv, [Next]_vars
             PROVE  RawInv'
  OBVIOUS
<1>1. Inv'
  BY NextInv DEF RawInv
<1>2. CASE UNCHANGED vars
  BY <1>1, <1>2, RawStays DEF vars, RawInv
<1>3. CASE \E v \in Videos : UploadNext(v) \/ UploadDies(v) \/ Age(v)
  BY <1>1, <1>3, UploadRaw, AgeRaw DEF RawInv
<1>4. CASE \E w \in Workers : WorkerNext(w) \/ HandlerRaises(w) \/ WorkerDies(w)
  BY <1>1, <1>4, WorkerRaw DEF RawInv
<1>5. CASE \E a \in Admins : RetryNext(a) \/ RetryDies(a)
  <2>1. StorageBackend = "local"
    BY <1>5
  <2> QED
    BY <1>1, <1>5, <2>1, RetryRaw DEF RawInv
<1>6. CASE \E r \in Recoverers : RecoveryNext(r) \/ RecoveryDies(r)
  BY <1>1, <1>6, RecoveryRaw DEF RawInv
<1> QED
  BY <1>2, <1>3, <1>4, <1>5, <1>6 DEF Next

\* Whoever runs a message, RQ, a manual retry or a recovery pass, finds the raw
\* video it is to process stored: in local mode always, in object mode unless
\* an administrator retries a job whose raw video could not be stored.
THEOREM RawAlwaysBeforeQueue ==
  ASSUME StorageBackend = "local" \/ Admins = {}
  PROVE  Spec => []RawBeforeQueue
<1>1. RawInv => RawBeforeQueue
  BY DEF RawInv, QueueHasRaw, WorkersHaveRaw, RawBeforeQueue, Waiting, Runners, HasRaw
<1> QED
  BY <1>1, InitRaw, NextRaw, PTL DEF Spec

-----------------------------------------------------------------------------
(* Where no recovery pass is at work, a PROCESSING row has its start time.  *)
(*                                                                         *)
(* Only a reset takes a start time away, and it writes a status along with *)
(* it: a retry has loaded FAILED (RetriesFailed), so that QUEUED is a      *)
(* change to it.  A pass that has loaded QUEUED writes the start time      *)
(* alone, under whatever status the row has by then.                       *)

RetriesFailed == \A a \in Admins : retry[a].pc # "idle" => retry[a].snap.status = "FAILED"

TimedInv == Inv /\ ProcessingIsTimed /\ RetriesFailed

\* A commit that keeps the start time and does not write PROCESSING.
LEMMA CommitKeepsTime ==
  ASSUME NEW row \in Row, NEW old \in Row, NEW new \in RowInHand,
         new.started = old.started, new.status = old.status \/ new.status # "PROCESSING",
         Flush(row, old, new).status = "PROCESSING"
  PROVE  row.status = "PROCESSING" /\ Flush(row, old, new).started = row.started
BY DEF Flush

LEMMA AssignedKeepsTime ==
  ASSUME NEW row \in Row
  PROVE  \A new \in {WithRaw(row), Enqueued(row), NotAccepted(row), Completed(row), Failed(row)} :
           new.started = row.started /\ (new.status = row.status \/ new.status # "PROCESSING")
<1>1. WithRaw(row).started = row.started /\ WithRaw(row).status = row.status
  BY DEF WithRaw, Row
<1>2. Enqueued(row).started = row.started /\ Enqueued(row).status = "QUEUED"
  BY DEF Enqueued, Row
<1>3. NotAccepted(row).started = row.started /\ NotAccepted(row).status = "FAILED"
  BY DEF NotAccepted, Row
<1>4. Completed(row).started = row.started /\ Completed(row).status = "COMPLETED"
  BY DEF Completed, Row
<1>5. Failed(row).started = row.started /\ Failed(row).status = "FAILED"
  BY DEF Failed, Row
<1> QED
  BY <1>1, <1>2, <1>3, <1>4, <1>5

LEMMA TimedCommit ==
  ASSUME TypeOK, ProcessingIsTimed, NEW v \in Videos, NEW old \in Row, NEW new \in RowInHand,
         Commit(v, old, new),
         new.started = old.started /\ (new.status = old.status \/ new.status # "PROCESSING")
  PROVE  ProcessingIsTimed'
<1>1. /\ rows[v] \in Row /\ rows[v] # NoRow
      /\ rows'[v] = Flush(rows[v], old, new) /\ rows'[v] # NoRow
      /\ \A x \in Videos \ {v} : rows'[x] = rows[x]
  BY CommitRow
<1>2. rows'[v].status = "PROCESSING" => rows'[v].started = rows[v].started /\ rows[v].status = "PROCESSING"
  BY <1>1, CommitKeepsTime
<1> QED
  BY <1>1, <1>2 DEF ProcessingIsTimed, Untimed, HasStatus

LEMMA TimedStays == ProcessingIsTimed /\ UNCHANGED rows => ProcessingIsTimed'
BY DEF ProcessingIsTimed, Untimed, HasStatus

LEMMA UploadTimed ==
  ASSUME TimedInv, NEW v \in Videos, UploadNext(v) \/ UploadDies(v)
  PROVE  ProcessingIsTimed' /\ RetriesFailed'
<1>1. TypeOK /\ ProcessingIsTimed
  BY DEF TimedInv, Inv
<1>2. RetriesFailed'
  BY DEF TimedInv, RetriesFailed, UploadNext, UploadUnchanged, InsertRow, StoreRaw, SaveRawPath,
         StoreRawFails, EnqueueUpload, EnqueueUploadFails, MarkNotAccepted, MarkQueued, UploadDies
<1>3. CASE InsertRow(v)
  <2>1. rows'[v] = NewRow /\ \A x \in Videos \ {v} : rows'[x] = rows[x]
    BY <1>1, <1>3 DEF InsertRow, TypeOK
  <2>2. NewRow.status # "PROCESSING"
    BY DEF NewRow
  <2> QED
    BY <1>1, <1>2, <2>1, <2>2 DEF ProcessingIsTimed, Untimed, HasStatus
<1>4. CASE SaveRawPath(v)
  <2>1. Commit(v, NewRow, WithRaw(NewRow))
    BY <1>4 DEF SaveRawPath, UploadSnap
  <2> QED
    BY <1>1, <1>2, <2>1, TimedCommit, NewRowType, AssignedType, AssignedKeepsTime
<1>5. CASE MarkNotAccepted(v) \/ MarkQueued(v)
  BY <1>1, <1>2, <1>5, TimedCommit, UploadSnapType, AssignedType, AssignedKeepsTime
     DEF MarkNotAccepted, MarkQueued
<1>6. CASE StoreRawFails(v) /\ ~UNCHANGED rows
  BY <1>1, <1>2, <1>6, TimedCommit, NewRowType, AssignedType, AssignedKeepsTime DEF StoreRawFails
<1>7. CASE UNCHANGED rows
  BY <1>1, <1>2, <1>7, TimedStays
<1> QED
  BY <1>3, <1>4, <1>5, <1>6, <1>7
     DEF UploadNext, StoreRaw, EnqueueUpload, EnqueueUploadFails, UploadDies

LEMMA WorkerTimed ==
  ASSUME TimedInv, NEW w \in Workers, WorkerNext(w) \/ HandlerRaises(w) \/ WorkerDies(w)
  PROVE  ProcessingIsTimed' /\ RetriesFailed'
<1>1. /\ TypeOK /\ ProcessingIsTimed /\ worker[w].video \in Videos
      /\ worker[w].pc \in Holding => worker[w].snap \in Row
  BY DEF TimedInv, Inv, TypeOK, SnapsHeld, WorkerState, MaybeRow
<1>2. RetriesFailed'
  BY DEF TimedInv, RetriesFailed, WorkerNext, WorkerUnchanged, WorkerDies, Dequeue, SkipJob,
         LoadJob, Claim, RefreshJob, Transcode, UploadProcessed, UploadThumbnail, StoreOutput,
         Complete, ProcessingFails, ReloadFailed, MarkFailed, RecordSuccess, DecideRetry,
         HandlerRaises, RaiseToRq, ReturnToRq
<1>3. CASE Claim(w)
  <2>1. worker[w].snap \in Row /\ Commit(worker[w].video, worker[w].snap, Claimed(worker[w].snap))
    BY <1>1, <1>3 DEF Claim, Holding
  <2>2. PICK v \in Videos : v = worker[w].video
    BY <1>1
  <2>3. /\ rows'[v] = Flush(rows[v], worker[w].snap, Claimed(worker[w].snap))
        /\ \A x \in Videos \ {v} : rows'[x] = rows[x]
    BY <1>1, <2>1, <2>2, CommitRow, AssignedType
  <2>4. Claimed(worker[w].snap).started = "now" /\ worker[w].snap.started # "now"
    BY <2>1 DEF Claimed, Row, Times
  <2>5. rows'[v].started # "never"
    BY <2>3, <2>4 DEF Flush, Stored
  <2> QED
    BY <1>1, <1>2, <2>3, <2>5 DEF ProcessingIsTimed, Untimed, HasStatus
<1>4. CASE Complete(w) \/ MarkFailed(w)
  BY <1>1, <1>2, <1>4, TimedCommit, AssignedType, AssignedKeepsTime DEF Complete, MarkFailed, Holding
<1>5. CASE UNCHANGED rows
  BY <1>1, <1>2, <1>5, TimedStays
<1> QED
  BY <1>3, <1>4, <1>5
     DEF WorkerNext, WorkerDies, Dequeue, SkipJob, LoadJob, RefreshJob, Transcode, UploadProcessed,
         UploadThumbnail, StoreOutput, ProcessingFails, ReloadFailed, RecordSuccess, DecideRetry,
         HandlerRaises, RaiseToRq, ReturnToRq

LEMMA RetryTimed ==
  ASSUME TimedInv, NEW a \in Admins, RetryNext(a) \/ RetryDies(a)
  PROVE  ProcessingIsTimed' /\ RetriesFailed'
<1>1. /\ TypeOK /\ ProcessingIsTimed /\ retry[a].video \in Videos
      /\ retry[a].pc # "idle" => retry[a].snap \in Row /\ retry[a].snap.status = "FAILED"
  BY DEF TimedInv, RetriesFailed, Inv, TypeOK, SnapsHeld, MaybeRow
<1>2. RetriesFailed'
  <2>1. ASSUME NEW v \in Videos, LoadRetry(a, v) PROVE RetriesFailed'
    BY <1>1, <2>1 DEF LoadRetry, Retryable, TimedInv, RetriesFailed, TypeOK
  <2>2. CASE EnqueueRetry(a)
    BY <1>1, <2>2 DEF EnqueueRetry, TimedInv, RetriesFailed, TypeOK
  <2>3. CASE EnqueueRetryFails(a) \/ ResetRetried(a) \/ RetryDies(a)
    <3>1. retry' = [retry EXCEPT ![a] = IdleRetry]
      BY <2>3 DEF EnqueueRetryFails, ResetRetried, RetryDies
    <3> QED
      BY <1>1, <3>1 DEF IdleRetry, TimedInv, RetriesFailed, TypeOK
  <2> QED
    BY <2>1, <2>2, <2>3 DEF RetryNext
<1>3. CASE ResetRetried(a)
  <2>1. /\ retry[a].snap \in Row /\ retry[a].snap.status = "FAILED"
        /\ Commit(retry[a].video, retry[a].snap, Retried(retry[a].snap))
    BY <1>1, <1>3 DEF ResetRetried
  <2>2. PICK v \in Videos : v = retry[a].video
    BY <1>1
  <2>3. /\ rows'[v] = Flush(rows[v], retry[a].snap, Retried(retry[a].snap))
        /\ \A x \in Videos \ {v} : rows'[x] = rows[x]
    BY <1>1, <2>1, <2>2, CommitRow, AssignedType
  <2>4. Retried(retry[a].snap).status = "QUEUED"
    BY <2>1 DEF Retried, Row
  <2>5. rows'[v].status # "PROCESSING"
    BY <2>1, <2>3, <2>4 DEF Flush
  <2> QED
    BY <1>1, <1>2, <2>3, <2>5 DEF ProcessingIsTimed, Untimed, HasStatus
<1>4. CASE UNCHANGED rows
  BY <1>1, <1>2, <1>4, TimedStays
<1> QED
  BY <1>3, <1>4 DEF RetryNext, RetryDies, LoadRetry, EnqueueRetry, EnqueueRetryFails

\* A PROCESSING row keeps the start time recovery measures its age by, whatever
\* retries, late uploads and runs of one job commit over each other: a pass
\* that resets a row another run has claimed is all that takes it away.
THEOREM ProcessingAlwaysTimed ==
  ASSUME Recoverers = {}
  PROVE  Spec => []ProcessingIsTimed
<1>1. Init => TimedInv
  BY InitInv DEF Init, TimedInv, ProcessingIsTimed, Untimed, HasStatus, RetriesFailed, IdleRetry
<1>2. TimedInv /\ [Next]_vars => TimedInv'
  <2> SUFFICES ASSUME TimedInv, [Next]_vars
               PROVE  TimedInv'
    OBVIOUS
  <2>1. Inv'
    BY NextInv DEF TimedInv
  <2>2. CASE UNCHANGED vars
    BY <2>1, <2>2, TimedStays DEF vars, TimedInv, RetriesFailed
  <2>3. \A v \in Videos : ~Age(v)
    BY DEF Age
  <2> QED
    BY <2>1, <2>2, <2>3, UploadTimed, WorkerTimed, RetryTimed DEF Next, TimedInv
<1>3. TimedInv => ProcessingIsTimed
  BY DEF TimedInv
<1> QED
  BY <1>1, <1>2, <1>3, PTL DEF Spec
=============================================================================
