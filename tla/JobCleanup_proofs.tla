-------------------------- MODULE JobCleanup_proofs --------------------------
(***************************************************************************)
(* Proofs about JobCleanup: any number of cleanup passes next to any       *)
(* number of uploads, workers, administrators and recovery passes,         *)
(* whatever fails or dies.                                                 *)
(***************************************************************************)
EXTENDS JobCleanup, VideoJobs_proofs

-----------------------------------------------------------------------------
(* Type correctness.                                                       *)

CleanupState == [pc : CleanupPcs, video : Videos, left : Seq(Objects), snap : MaybeRow]

\* A pass that is going to commit holds the columns it has read.
CleanupHeld ==
  \A c \in Cleaners \ RowDeleters : cleanup[c].pc = "deleting" => cleanup[c].snap # NoRow

CleanupInv == Inv /\ cleanup \in [Cleaners -> CleanupState] /\ CleanupHeld

LEMMA ReferencesType ==
  ASSUME NEW row \in Row
  PROVE  /\ References(row) \in Seq(Objects)
         /\ StorageBackend = "object" /\ row.raw
              => \E i \in DOMAIN References(row) : References(row)[i] = "raw"
<1> DEFINE raws == IF row.raw THEN <<"raw">> ELSE <<>>
           outs == IF row.outputs THEN <<"processed", "thumbnail">> ELSE <<>>
<1>1. raws \in Seq(Objects) /\ outs \in Seq(Objects)
  <2>1. <<>> \in Seq(Objects) /\ <<"raw">> \in Seq(Objects)
    BY DEF Objects
  <2>2. <<"processed", "thumbnail">> \in Seq(Objects)
    BY DEF Objects
  <2> QED
    BY <2>1, <2>2
<1>2. row.raw => 1 \in DOMAIN raws /\ raws[1] = "raw"
  OBVIOUS
<1>3. References(row) = IF StorageBackend = "local" THEN <<>> ELSE raws \o outs
  BY DEF References
<1> HIDE DEF raws, outs
<1>4. raws \o outs \in Seq(Objects)
  BY <1>1
<1>5. 1 \in DOMAIN raws => 1 \in DOMAIN (raws \o outs) /\ (raws \o outs)[1] = raws[1]
  BY <1>1
<1>6. CASE StorageBackend = "local"
  <2>1. References(row) = <<>> /\ <<>> \in Seq(Objects)
    BY <1>3, <1>6
  <2> QED
    BY <1>6, <2>1
<1>7. CASE StorageBackend # "local"
  BY <1>2, <1>3, <1>4, <1>5, <1>7
<1> QED
  BY <1>6, <1>7

LEMMA CleanedType ==
  ASSUME NEW row \in Row
  PROVE  Cleaned(row) \in RowInHand /\ row \in RowInHand
BY DEF Cleaned, Row, RowInHand

LEMMA IdleCleanupType == IdleCleanup \in CleanupState
<1>1. AnyVideo \in Videos /\ <<>> \in Seq(Objects)
  BY VideosAssumption DEF AnyVideo
<1> QED
  BY <1>1 DEF IdleCleanup, CleanupState, CleanupPcs, MaybeRow

LEMMA CleaningType ==
  ASSUME TypeOK, NEW c \in Cleaners, NEW v \in Videos, rows[v] # NoRow
  PROVE  /\ Cleaning(c, v) \in CleanupState
         /\ c \notin RowDeleters => Cleaning(c, v).snap # NoRow
<1>1. rows[v] \in Row
  BY DEF TypeOK, MaybeRow
<1>2. References(rows[v]) \in Seq(Objects)
  BY <1>1, ReferencesType
<1>3. /\ Compared(c, rows[v]) \in MaybeRow
      /\ c \notin RowDeleters => Compared(c, rows[v]) # NoRow
  <2>1. NewRow \in Row
    BY NewRowType
  <2>2. \A a, b, d \in BOOLEAN : [NewRow EXCEPT !.cleaned = a, !.raw = b, !.outputs = d] \in Row
    BY <2>1 DEF Row
  <2>3. rows[v].cleaned \in BOOLEAN /\ rows[v].raw \in BOOLEAN /\ rows[v].outputs \in BOOLEAN
    BY <1>1 DEF Row
  <2> QED
    BY <2>2, <2>3, NoRowAssumption DEF Compared, MaybeRow
<1>4. Cleaning(c, v) = [pc |-> "deleting", video |-> v, left |-> References(rows[v]),
                        snap |-> Compared(c, rows[v])]
  BY DEF Cleaning
<1> QED
  BY <1>2, <1>3, <1>4 DEF CleanupState, CleanupPcs

\* One pass goes on, the others stay.
LEMMA CleanupMoves ==
  ASSUME CleanupInv, NEW c \in Cleaners, NEW state \in CleanupState, CleanupAt(c, state),
         state.pc = "deleting" /\ c \notin RowDeleters => state.snap # NoRow
  PROVE  /\ cleanup' \in [Cleaners -> CleanupState] /\ CleanupHeld'
         /\ cleanup'[c] = state /\ \A d \in Cleaners \ {c} : cleanup'[d] = cleanup[d]
<1>1. cleanup' = [cleanup EXCEPT ![c] = state] /\ cleanup \in [Cleaners -> CleanupState]
  BY DEF CleanupAt, CleanupInv
<1>2. cleanup'[c] = state /\ \A d \in Cleaners \ {c} : cleanup'[d] = cleanup[d]
  BY <1>1
<1> QED
  BY <1>1, <1>2 DEF CleanupInv, CleanupHeld

\* What each step of a pass makes of it.
LEMMA CleanupSteps ==
  ASSUME CleanupInv, NEW c \in Cleaners, CleanupNext(c) \/ CleanupDies(c)
  PROVE  /\ cleanup' \in [Cleaners -> CleanupState] /\ CleanupHeld'
         /\ \A d \in Cleaners \ {c} : cleanup'[d] = cleanup[d]
         /\ \/ cleanup'[c].pc = "idle"
            \/ cleanup[c].pc # "idle" /\ cleanup'[c].video = cleanup[c].video
            \/ \E v \in Videos : FindCandidate(c, v) /\ cleanup'[c].video = v
<1>0. /\ TypeOK /\ cleanup[c] \in CleanupState
      /\ cleanup[c].pc = "deleting" /\ c \notin RowDeleters => cleanup[c].snap # NoRow
  BY DEF CleanupInv, CleanupHeld, Inv
<1>1. ASSUME NEW v \in Videos, FindCandidate(c, v)
      PROVE  /\ cleanup' \in [Cleaners -> CleanupState] /\ CleanupHeld'
             /\ \A d \in Cleaners \ {c} : cleanup'[d] = cleanup[d]
             /\ cleanup'[c].video = v
  <2>1. CASE CleanupAt(c, Cleaning(c, v))
    <3>1. /\ Cleaning(c, v) \in CleanupState /\ Cleaning(c, v).video = v
          /\ c \notin RowDeleters => Cleaning(c, v).snap # NoRow
      BY <1>0, <1>1, CleaningType DEF FindCandidate, Cleaning
    <3> QED
      BY <2>1, <3>1, CleanupMoves
  <2>2. CASE CleanupAt(c, [IdleCleanup EXCEPT !.pc = "listed", !.video = v])
    <3> DEFINE state == [IdleCleanup EXCEPT !.pc = "listed", !.video = v]
    <3>1. state \in CleanupState /\ state.video = v /\ state.pc = "listed"
      BY IdleCleanupType DEF CleanupState, CleanupPcs
    <3> HIDE DEF state
    <3>2. CleanupAt(c, state)
      BY <2>2 DEF state
    <3> QED
      BY <3>1, <3>2, CleanupMoves
  <2> QED
    BY <1>1, <2>1, <2>2 DEF FindCandidate
<1>2. CASE LoadListed(c)
  <2>1. PICK v \in Videos : v = cleanup[c].video
    BY <1>0 DEF CleanupState
  <2>2. /\ Cleaning(c, v) \in CleanupState /\ Cleaning(c, v).video = v
        /\ c \notin RowDeleters => Cleaning(c, v).snap # NoRow
    BY <1>0, <1>2, <2>1, CleaningType DEF LoadListed, Cleaning
  <2> QED
    BY <1>2, <2>1, <2>2, CleanupMoves DEF LoadListed
<1>3. CASE DeleteObject(c)
  <2> DEFINE state == [cleanup[c] EXCEPT !.left = Tail(cleanup[c].left)]
  <2>1. Tail(cleanup[c].left) \in Seq(Objects)
    BY <1>0, <1>3 DEF DeleteObject, CleanupState
  <2>2. /\ state \in CleanupState /\ state.video = cleanup[c].video
        /\ state.pc = cleanup[c].pc /\ state.snap = cleanup[c].snap
    BY <1>0, <2>1 DEF CleanupState
  <2> HIDE DEF state
  <2>3. CleanupAt(c, state) /\ cleanup[c].pc = "deleting"
    BY <1>3 DEF DeleteObject, state
  <2> QED
    BY <1>0, <2>2, <2>3, CleanupMoves
<1>4. CASE DeleteFails(c)
  <2> DEFINE state == [IdleCleanup EXCEPT !.pc = "noting", !.video = cleanup[c].video]
  <2>1. state \in CleanupState /\ state.video = cleanup[c].video /\ state.pc = "noting"
    BY <1>0, IdleCleanupType DEF CleanupState, CleanupPcs
  <2> HIDE DEF state
  <2>2. CleanupAt(c, state) /\ cleanup[c].pc = "deleting"
    BY <1>4 DEF DeleteFails, state
  <2> QED
    BY <1>0, <2>1, <2>2, CleanupMoves
<1>5. CASE CleanupAt(c, IdleCleanup)
  <2>1. IdleCleanup.pc = "idle"
    BY DEF IdleCleanup
  <2> QED
    BY <1>5, <2>1, IdleCleanupType, CleanupMoves
<1> QED
  BY <1>1, <1>2, <1>3, <1>4, <1>5
     DEF CleanupNext, CleanupDies, NoteFailure, MarkCleaned, RemoveRow, CleanupVanished, CleanupEnds

LEMMA CleanupInit == CInit => CleanupInv
<1> SUFFICES ASSUME CInit PROVE CleanupInv
  OBVIOUS
<1>1. cleanup = [c \in Cleaners |-> IdleCleanup] /\ Inv
  BY InitInv DEF CInit
<1> QED
  BY <1>1, IdleCleanupType DEF CleanupInv, CleanupHeld, IdleCleanup

\* What a pass and the handlers that find no row do to the rest.
LEMMA CleanupRest ==
  ASSUME CleanupInv, NEW c \in Cleaners, CleanupNext(c) \/ CleanupDies(c)
  PROVE  Inv' /\ UNCHANGED <<queue, upload, worker, retry, recovery>>
<1>0. /\ TypeOK /\ SnapsHeld /\ cleanup[c] \in CleanupState /\ cleanup[c].video \in Videos
      /\ cleanup[c].pc = "deleting" /\ c \notin RowDeleters => cleanup[c].snap \in Row
  BY DEF CleanupInv, CleanupHeld, Inv, CleanupState, MaybeRow
<1>1. UNCHANGED <<queue, upload, worker, retry, recovery>>
  BY DEF CleanupNext, CleanupDies, FindCandidate, LoadListed, DeleteObject, DeleteFails,
         NoteFailure, MarkCleaned, RemoveRow, CleanupVanished, CleanupUnchanged,
         VanishedUnchanged
<1>2. SnapsHeld'
  BY <1>0, <1>1 DEF SnapsHeld
<1>3. spent' \in [{"faults", "retries", "requeues"} -> Nat]
  BY <1>0, SpendType
     DEF CleanupNext, CleanupDies, FindCandidate, LoadListed, DeleteObject, DeleteFails,
         NoteFailure, MarkCleaned, RemoveRow, CleanupVanished, CleanupUnchanged,
         VanishedUnchanged, Fault, TypeOK
<1>4. objects' \in [Videos -> SUBSET Objects]
  BY <1>0
     DEF CleanupNext, CleanupDies, FindCandidate, LoadListed, DeleteObject, DeleteFails,
         NoteFailure, MarkCleaned, RemoveRow, CleanupVanished, VanishedUnchanged, TypeOK
<1>5. rows' \in [Videos -> MaybeRow]
  <2>1. CASE MarkCleaned(c)
    BY <1>0, <2>1, CommitType, CleanedType DEF MarkCleaned, Deleted, TypeOK
  <2>1a. CASE NoteFailure(c)
    <3>1. /\ rows[cleanup[c].video] \in Row
          /\ rows' = [rows EXCEPT ![cleanup[c].video] =
                        [rows[cleanup[c].video] EXCEPT !.updated = "recent"]]
      BY <1>0, <2>1a DEF NoteFailure, TypeOK, MaybeRow
    <3>2. \A row \in Row : [row EXCEPT !.updated = "recent"] \in Row
      BY DEF Row, Times
    <3> QED
      BY <1>0, <3>1, <3>2 DEF TypeOK, MaybeRow
  <2>2. CASE RemoveRow(c)
    BY <1>0, <2>2 DEF RemoveRow, TypeOK, MaybeRow
  <2>3. CASE UNCHANGED rows
    BY <1>0, <2>3 DEF TypeOK
  <2> QED
    BY <2>1, <2>1a, <2>2, <2>3
       DEF CleanupNext, CleanupDies, FindCandidate, LoadListed, DeleteObject, DeleteFails,
           CleanupVanished, VanishedUnchanged
<1> QED
  BY <1>0, <1>1, <1>2, <1>3, <1>4, <1>5 DEF Inv, TypeOK

LEMMA VanishedRest ==
  ASSUME CleanupInv, VanishedNext
  PROVE  Inv' /\ UNCHANGED <<rows, queue, objects, recovery, cleanup>>
<1>0. TypeOK /\ SnapsHeld
  BY DEF CleanupInv, Inv
<1>1. ASSUME NEW v \in Videos, UploadVanished(v)
      PROVE  Inv' /\ UNCHANGED <<rows, queue, objects, recovery, cleanup>>
  BY <1>0, <1>1 DEF UploadVanished, UploadAt, VanishedUnchanged, UploadPcs, Inv, TypeOK, SnapsHeld
<1>2. ASSUME NEW w \in Workers, WorkerVanished(w)
      PROVE  Inv' /\ UNCHANGED <<rows, queue, objects, recovery, cleanup>>
  <2>1. worker' \in [Workers -> WorkerState] /\ SnapsHeld'
    BY <1>0, <1>2, WorkerLoads
       DEF WorkerVanished, WorkerDrops, WorkerPcs, MaybeRow, Holding
  <2> QED
    BY <1>0, <1>2, <2>1 DEF WorkerVanished, VanishedUnchanged, Inv, TypeOK
<1>3. ASSUME NEW a \in Admins, RetryVanished(a)
      PROVE  Inv' /\ UNCHANGED <<rows, queue, objects, recovery, cleanup>>
  <2>1. retry' = [retry EXCEPT ![a] = IdleRetry]
    BY <1>3 DEF RetryVanished
  <2>2. retry' \in [Admins -> [pc : RetryPcs, video : Videos, snap : MaybeRow]]
    BY <1>0, <2>1, IdleTypes DEF TypeOK
  <2>3. SnapsHeld'
    BY <1>0, <1>3, <2>1 DEF RetryVanished, VanishedUnchanged, SnapsHeld, TypeOK, IdleRetry
  <2> QED
    BY <1>0, <1>3, <2>2, <2>3 DEF RetryVanished, VanishedUnchanged, Inv, TypeOK
<1> QED
  BY <1>1, <1>2, <1>3 DEF VanishedNext

LEMMA CleanupStep == CleanupInv /\ [CNext]_cvars => CleanupInv'
<1> SUFFICES ASSUME CleanupInv, [CNext]_cvars
             PROVE  CleanupInv'
  OBVIOUS
<1>1. CASE (Next /\ UNCHANGED cleanup) \/ UNCHANGED cvars
  <2>1. [Next]_vars /\ UNCHANGED cleanup
    BY <1>1 DEF cvars
  <2> QED
    BY <2>1, NextInv DEF CleanupInv, CleanupHeld
<1>2. CASE \E c \in Cleaners : CleanupNext(c) \/ CleanupDies(c)
  BY <1>2, CleanupSteps, CleanupRest DEF CleanupInv
<1>3. CASE VanishedNext
  BY <1>3, VanishedRest DEF CleanupInv, CleanupHeld
<1> QED
  BY <1>1, <1>2, <1>3 DEF CNext

LEMMA CleanupAlways == CSpec => []CleanupInv
BY CleanupInit, CleanupStep, PTL DEF CSpec

\* Every variable keeps its type with any number of cleanup passes next to the
\* uploads, workers, retries and recovery passes: also where a row goes away
\* under the sessions that have loaded it.
THEOREM CleanupTypeCorrect == CSpec => []CleanupTypeOK
<1>1. CleanupInv => CleanupTypeOK
  BY DEF CleanupInv, Inv, CleanupTypeOK, CleanupState
<1> QED
  BY <1>1, CleanupAlways, PTL

-----------------------------------------------------------------------------
(* A raw video in the store is named by its row.                           *)
(*                                                                         *)
(* RawIsNamed is not inductive.  A pass that has nothing left to delete    *)
(* must have deleted the raw object (RawGoesFirst), and nobody may put it  *)
(* back: only the upload stores it, while nobody else has heard of the     *)
(* video (FreshAreAlone).                                                  *)

Fresh == {"none", "storing"}

\* A recovery pass that is going to write to the row it has loaded.
Acting(pass) ==
  pass.pc \in {"refusing", "marking"} \/ (pass.snap # NoRow /\ Recoverable(pass.snap))

Untouched(v) ==
  /\ \A i \in DOMAIN queue : queue[i].video # v
  /\ \A w \in Workers : worker[w].pc # "idle" => worker[w].video # v
  /\ \A a \in Admins : retry[a].pc # "idle" => retry[a].video # v
  /\ \A r \in Recoverers : Acting(recovery[r]) => recovery[r].video # v
  /\ \A c \in Cleaners : cleanup[c].pc # "idle" => cleanup[c].video # v

FreshAreAlone ==
  \A v \in Videos :
    /\ upload[v] = "none" => rows[v] = NoRow
    /\ upload[v] = "storing" => rows[v] # NoRow /\ rows[v].status = "UPLOADED" /\ rows[v].raw
    /\ upload[v] \in Fresh => Untouched(v)

RawGoesFirst ==
  \A c \in Cleaners :
    cleanup[c].pc = "deleting" =>
      \/ "raw" \notin objects[cleanup[c].video]
      \/ \E i \in DOMAIN cleanup[c].left : cleanup[c].left[i] = "raw"

NamedInv == CleanupInv /\ RawIsNamed /\ FreshAreAlone /\ RawGoesFirst

\* A step that is about one video y, which is not fresh after it, and about
\* processes that are at work on y after it, if at all.
LEMMA FreshStays ==
  ASSUME FreshAreAlone, NEW y \in Videos, upload'[y] \notin Fresh,
         \A v \in Videos \ {y} : rows'[v] = rows[v] /\ upload'[v] = upload[v],
         \A i \in DOMAIN queue' : queue'[i].video = y \/ \E j \in DOMAIN queue : queue'[i] = queue[j],
         \A w \in Workers : worker'[w] = worker[w] \/ worker'[w].video = y \/ worker'[w].pc = "idle",
         \A a \in Admins : retry'[a] = retry[a] \/ retry'[a].video = y \/ retry'[a].pc = "idle",
         \A r \in Recoverers :
           recovery'[r] = recovery[r] \/ recovery'[r].video = y \/ ~Acting(recovery'[r]),
         \A c \in Cleaners :
           cleanup'[c] = cleanup[c] \/ cleanup'[c].video = y \/ cleanup'[c].pc = "idle"
  PROVE  FreshAreAlone'
<1> SUFFICES ASSUME NEW v \in Videos
             PROVE  /\ upload'[v] = "none" => rows'[v] = NoRow
                    /\ upload'[v] = "storing"
                         => rows'[v] # NoRow /\ rows'[v].status = "UPLOADED" /\ rows'[v].raw
                    /\ upload'[v] \in Fresh => Untouched(v)'
  BY DEF FreshAreAlone
<1>1. CASE v = y
  BY <1>1 DEF Fresh
<1>2. CASE v # y
  <2>1. rows'[v] = rows[v] /\ upload'[v] = upload[v]
    BY <1>2
  <2>2. upload[v] \in Fresh => Untouched(v)
    BY DEF FreshAreAlone
  <2>3. Untouched(v) => Untouched(v)'
    <3>1. ASSUME Untouched(v), NEW i \in DOMAIN queue' PROVE queue'[i].video # v
      BY <1>2, <3>1 DEF Untouched
    <3>2. ASSUME Untouched(v), NEW w \in Workers, worker'[w].pc # "idle" PROVE worker'[w].video # v
      BY <1>2, <3>2 DEF Untouched
    <3>3. ASSUME Untouched(v), NEW a \in Admins, retry'[a].pc # "idle" PROVE retry'[a].video # v
      BY <1>2, <3>3 DEF Untouched
    <3>4. ASSUME Untouched(v), NEW c \in Cleaners, cleanup'[c].pc # "idle" PROVE cleanup'[c].video # v
      BY <1>2, <3>4 DEF Untouched
    <3>5. ASSUME Untouched(v), NEW r \in Recoverers, Acting(recovery'[r]) PROVE recovery'[r].video # v
      BY <1>2, <3>5 DEF Untouched
    <3> QED
      BY <3>1, <3>2, <3>3, <3>4, <3>5 DEF Untouched
  <2> QED
    BY <2>1, <2>2, <2>3 DEF FreshAreAlone
<1> QED
  BY <1>1, <1>2

\* A message is put on the list for y, or none is.
LEMMA AppendedFor ==
  ASSUME queue \in Seq(Message), NEW y \in Videos, NEW left \in Nat,
         RqRetry(y, left) \/ Enqueue(y) \/ EnqueueRaises(y) \/ UNCHANGED queue
  PROVE  \A i \in DOMAIN queue' : queue'[i].video = y \/ \E j \in DOMAIN queue : queue'[i] = queue[j]
<1>1. ASSUME NEW n \in Nat, queue' = Append(queue, [video |-> y, left |-> n])
      PROVE  \A i \in DOMAIN queue' : queue'[i].video = y \/ \E j \in DOMAIN queue : queue'[i] = queue[j]
  <2>1. [video |-> y, left |-> n] \in Message
    BY DEF Message
  <2>2. \A i \in DOMAIN queue' :
          (i \in DOMAIN queue /\ queue'[i] = queue[i]) \/ queue'[i] = [video |-> y, left |-> n]
    BY <1>1, <2>1, AppendOne
  <2> QED
    BY <2>2
<1>2. CASE UNCHANGED queue
  BY <1>2
<1>3. CASE Enqueue(y)
  <2>1. MaxAttempts - 1 \in Nat
    BY MaxAttemptsAssumption
  <2> QED
    BY <1>1, <1>3, <2>1 DEF Enqueue
<1>4. CASE left > 0 /\ queue' = Append(queue, [video |-> y, left |-> left - 1])
  <2>1. left - 1 \in Nat
    BY <1>4
  <2> QED
    BY <1>1, <1>4, <2>1
<1> QED
  BY <1>2, <1>3, <1>4 DEF RqRetry, EnqueueRaises

\* Rows keep what they say of the raw object, and the raw object is not stored.
RawRowsStay ==
  /\ \A v \in Videos : rows[v] # NoRow => rows'[v] # NoRow /\ rows'[v].raw = rows[v].raw
  /\ \A v \in Videos : "raw" \in objects'[v] => "raw" \in objects[v]

LEMMA NamedStays == RawIsNamed /\ RawRowsStay => RawIsNamed'
BY DEF RawIsNamed, RawRowsStay

LEMMA RawGoesStays ==
  ASSUME CleanupInv, RawGoesFirst, RawRowsStay, UNCHANGED cleanup
  PROVE  RawGoesFirst'
<1>1. \A c \in Cleaners : cleanup[c].video \in Videos
  BY DEF CleanupInv, CleanupState
<1> QED
  BY <1>1 DEF RawGoesFirst, RawRowsStay

\* No handler but cleanup writes the raw key; in object mode the upload has
\* written it from the beginning.
LEMMA AssignedKeepsRaw ==
  ASSUME NEW row \in Row
  PROVE  \A new \in {Enqueued(row), NotAccepted(row), Claimed(row), Completed(row), Failed(row),
                     Retried(row), Requeued(row), GivenUp(row)} : new.raw = row.raw
<1>1. Claimed(row).raw = row.raw
  BY DEF Claimed, Row
<1>2. Failed(row).raw = row.raw
  BY DEF Failed, Row
<1>3. Completed(row).raw = row.raw /\ Retried(row).raw = row.raw
  BY DEF Completed, Retried, Row
<1>4. Enqueued(row).raw = row.raw /\ NotAccepted(row).raw = row.raw
  BY DEF Enqueued, NotAccepted, Row
<1>5. Requeued(row).raw = row.raw /\ GivenUp(row).raw = row.raw
  BY DEF Requeued, GivenUp, Row
<1> QED
  BY <1>1, <1>2, <1>3, <1>4, <1>5

LEMMA CommitKeepsRaw ==
  ASSUME TypeOK, NEW v \in Videos, NEW old \in Row, NEW new \in RowInHand, Commit(v, old, new),
         new.raw = old.raw
  PROVE  \A x \in Videos : rows[x] # NoRow => rows'[x] # NoRow /\ rows'[x].raw = rows[x].raw
<1>1. /\ rows'[v] = Flush(rows[v], old, new) /\ rows'[v] # NoRow
      /\ \A x \in Videos \ {v} : rows'[x] = rows[x]
  BY CommitRow
<1>2. rows'[v].raw = rows[v].raw
  BY <1>1 DEF Flush
<1> QED
  BY <1>1, <1>2

LEMMA UploadNamed ==
  ASSUME NamedInv, StorageBackend = "object", UNCHANGED cleanup,
         NEW v \in Videos, UploadNext(v) \/ UploadDies(v)
  PROVE  RawIsNamed' /\ FreshAreAlone' /\ RawGoesFirst'
<1>0. TypeOK /\ CleanupInv /\ RawIsNamed /\ FreshAreAlone /\ RawGoesFirst /\ queue \in Seq(Message)
  BY DEF NamedInv, CleanupInv, Inv, TypeOK
<1>1. UNCHANGED <<worker, retry, recovery, cleanup>>
  BY DEF UploadNext, UploadUnchanged, InsertRow, StoreRaw, SaveRawPath, StoreRawFails,
         EnqueueUpload, EnqueueUploadFails, MarkNotAccepted, MarkQueued, UploadDies
<1>2. CASE InsertRow(v)
  <2>1. /\ rows'[v] = NewRow /\ upload'[v] = "storing" /\ upload[v] = "none"
        /\ \A x \in Videos \ {v} : rows'[x] = rows[x] /\ upload'[x] = upload[x]
        /\ UNCHANGED <<queue, objects>>
    BY <1>0, <1>2 DEF InsertRow, UploadAt, TypeOK
  <2>2. NewRow # NoRow /\ NewRow.status = "UPLOADED" /\ NewRow.raw
    <3>1. NewRow.status = "UPLOADED" /\ NewRow.raw
      BY DEF NewRow
    <3> QED
      BY <3>1, NewRowType, NoRowAssumption
  <2>3. rows[v] = NoRow
    BY <1>0, <2>1 DEF FreshAreAlone
  <2>4. RawRowsStay
    BY <2>1, <2>3 DEF RawRowsStay
  <2>5. FreshAreAlone'
    BY <1>0, <1>1, <2>1, <2>2 DEF FreshAreAlone, Fresh, Untouched
  <2> QED
    BY <1>0, <1>1, <2>4, <2>5, NamedStays, RawGoesStays
<1>3. CASE StoreRaw(v)
  <2>1. /\ upload[v] = "storing" /\ upload'[v] \notin Fresh /\ UNCHANGED <<rows, queue>>
        /\ \A x \in Videos \ {v} : objects'[x] = objects[x] /\ upload'[x] = upload[x]
    BY <1>0, <1>3 DEF StoreRaw, UploadAt, TypeOK, Fresh
  <2>2. FreshAreAlone'
    BY <1>0, <1>1, <2>1, FreshStays
  <2>3. rows[v] # NoRow /\ rows[v].raw
    BY <1>0, <2>1 DEF FreshAreAlone
  <2>4. RawIsNamed'
    BY <1>0, <2>1, <2>3 DEF RawIsNamed
  <2>5. \A c \in Cleaners : cleanup[c].pc # "idle" => cleanup[c].video # v
    BY <1>0, <2>1 DEF FreshAreAlone, Untouched, Fresh
  <2>6. \A c \in Cleaners : cleanup[c].video \in Videos
    BY <1>0 DEF CleanupInv, CleanupState
  <2>7. RawGoesFirst'
    BY <1>0, <1>1, <2>1, <2>5, <2>6 DEF RawGoesFirst
  <2> QED
    BY <2>2, <2>4, <2>7
<1>4. CASE ~InsertRow(v) /\ ~StoreRaw(v)
  <2>1. upload'[v] \notin Fresh /\ \A x \in Videos \ {v} : upload'[x] = upload[x]
    BY <1>0, <1>4
       DEF UploadNext, SaveRawPath, StoreRawFails, EnqueueUpload, EnqueueUploadFails,
           MarkNotAccepted, MarkQueued, UploadDies, UploadAt, TypeOK, Fresh
  <2>2. UNCHANGED objects
    BY <1>4 DEF UploadNext, SaveRawPath, StoreRawFails, EnqueueUpload, EnqueueUploadFails,
                MarkNotAccepted, MarkQueued, UploadDies
  <2>3. Enqueue(v) \/ EnqueueRaises(v) \/ UNCHANGED queue
    BY <1>4 DEF UploadNext, SaveRawPath, StoreRawFails, EnqueueUpload, EnqueueUploadFails,
                MarkNotAccepted, MarkQueued, UploadDies
  <2>4. \A i \in DOMAIN queue' : queue'[i].video = v \/ \E j \in DOMAIN queue : queue'[i] = queue[j]
    <3>1. 0 \in Nat
      OBVIOUS
    <3> QED
      BY <1>0, <2>3, <3>1, AppendedFor
  <2>5. PICK old \in Row :
          UNCHANGED rows \/ \E new \in RowInHand : Commit(v, old, new) /\ new.raw = old.raw
    <3>1. CASE UNCHANGED rows
      BY <3>1, NewRowType
    <3>2. CASE SaveRawPath(v)
      <4>1. UploadSnap.raw = TRUE /\ NewRow.raw = TRUE
        BY DEF UploadSnap, WithRaw, NewRow
      <4> QED
        BY <3>2, <4>1, NewRowType, UploadSnapType DEF SaveRawPath
    <3>3. CASE StoreRawFails(v)
      BY <3>1, <3>3, NewRowType, AssignedType, AssignedKeepsRaw DEF StoreRawFails
    <3>4. CASE MarkNotAccepted(v) \/ MarkQueued(v)
      BY <3>4, UploadSnapType, AssignedType, AssignedKeepsRaw DEF MarkNotAccepted, MarkQueued
    <3> QED
      BY <1>4, <3>1, <3>2, <3>3, <3>4 DEF UploadNext, EnqueueUpload, EnqueueUploadFails, UploadDies
  <2>6. RawRowsStay /\ \A x \in Videos \ {v} : rows'[x] = rows[x]
    <3>1. CASE UNCHANGED rows
      BY <2>2, <3>1 DEF RawRowsStay
    <3>2. CASE ~UNCHANGED rows
      <4>1. PICK new \in RowInHand : Commit(v, old, new) /\ new.raw = old.raw
        BY <2>5, <3>2
      <4> QED
        BY <1>0, <2>2, <4>1, CommitRow, CommitKeepsRaw DEF RawRowsStay
    <3> QED
      BY <3>1, <3>2
  <2>7. FreshAreAlone'
    BY <1>0, <1>1, <2>1, <2>4, <2>6, FreshStays
  <2> QED
    BY <1>0, <1>1, <2>6, <2>7, NamedStays, RawGoesStays
<1> QED
  BY <1>2, <1>3, <1>4

LEMMA WorkerNamed ==
  ASSUME NamedInv, UNCHANGED cleanup, NEW w \in Workers,
         WorkerNext(w) \/ HandlerRaises(w) \/ WorkerDies(w)
  PROVE  RawIsNamed' /\ FreshAreAlone' /\ RawGoesFirst'
<1>0. /\ TypeOK /\ CleanupInv /\ RawIsNamed /\ FreshAreAlone /\ RawGoesFirst /\ queue \in Seq(Message)
      /\ worker[w] \in WorkerState /\ worker[w].video \in Videos /\ worker[w].left \in Nat
      /\ worker[w].pc \in Holding => worker[w].snap \in Row
  BY DEF NamedInv, CleanupInv, Inv, TypeOK, SnapsHeld, WorkerState, MaybeRow
<1>1. UNCHANGED <<upload, retry, recovery>>
  BY DEF WorkerNext, WorkerDies, WorkerUnchanged, Dequeue, SkipJob, LoadJob, Claim, RefreshJob,
         Transcode, UploadProcessed, UploadThumbnail, StoreOutput, Complete, ProcessingFails,
         ReloadFailed, MarkFailed, RecordSuccess, DecideRetry, HandlerRaises, RaiseToRq, ReturnToRq
<1>2. RawRowsStay
  <2>1. \A x \in Videos : "raw" \in objects'[x] => "raw" \in objects[x]
    BY <1>0, WorkerStores
  <2>2. CASE Claim(w) \/ Complete(w) \/ MarkFailed(w)
    <3>1. worker[w].snap \in Row
      BY <1>0, <2>2 DEF Claim, Complete, MarkFailed, Holding
    <3> QED
      BY <1>0, <2>1, <2>2, <3>1, CommitKeepsRaw, AssignedType, AssignedKeepsRaw
         DEF Claim, Complete, MarkFailed, RawRowsStay
  <2>3. CASE UNCHANGED rows
    BY <2>1, <2>3 DEF RawRowsStay
  <2> QED
    BY <2>2, <2>3 DEF WorkerNext, WorkerDies, Dequeue, SkipJob, LoadJob, RefreshJob, Transcode,
         UploadProcessed, UploadThumbnail, StoreOutput, ProcessingFails, ReloadFailed,
         RecordSuccess, DecideRetry, HandlerRaises, RaiseToRq, ReturnToRq
<1>3. FreshAreAlone'
  <2>1. CASE Dequeue(w)
    <3>1. /\ 1 \in DOMAIN queue /\ Head(queue) = queue[1] /\ queue[1] \in Message
          /\ queue' = Tail(queue) /\ UNCHANGED rows
          /\ \A i \in DOMAIN queue' : i + 1 \in DOMAIN queue /\ queue'[i] = queue[i + 1]
      BY <1>0, <2>1, HeadAndTail DEF Dequeue
    <3>2. PICK y \in Videos : y = queue[1].video
      BY <3>1 DEF Message
    <3>3. upload'[y] \notin Fresh
      BY <1>0, <1>1, <3>1, <3>2 DEF FreshAreAlone, Untouched
    <3>4. worker'[w].video = y /\ \A x \in Workers \ {w} : worker'[x] = worker[x]
      BY <1>0, <2>1, <3>1, <3>2 DEF Dequeue, TypeOK, WorkerState
    <3> QED
      BY <1>0, <1>1, <3>1, <3>3, <3>4, FreshStays
  <2>2. CASE ~Dequeue(w)
    <3>1. PICK y \in Videos : y = worker[w].video
      BY <1>0
    <3>2. worker[w].pc # "idle"
      BY <2>2 DEF WorkerNext, WorkerDies, SkipJob, LoadJob, Claim, RefreshJob, Transcode,
         UploadProcessed, UploadThumbnail, StoreOutput, Complete, ProcessingFails, ReloadFailed,
         MarkFailed, RecordSuccess, DecideRetry, HandlerRaises, RaiseToRq, ReturnToRq, Processing
    <3>3. upload'[y] \notin Fresh
      BY <1>0, <1>1, <3>1, <3>2 DEF FreshAreAlone, Untouched
    <3>4. \A x \in Videos \ {y} : rows'[x] = rows[x]
      BY <1>0, <2>2, <3>1
         DEF WorkerNext, WorkerDies, SkipJob, LoadJob, Claim, RefreshJob, Transcode,
             UploadProcessed, UploadThumbnail, StoreOutput, Complete, ProcessingFails,
             ReloadFailed, MarkFailed, RecordSuccess, DecideRetry, HandlerRaises, RaiseToRq,
             ReturnToRq, Commit, TypeOK
    <3>5. \A i \in DOMAIN queue' : queue'[i].video = y \/ \E j \in DOMAIN queue : queue'[i] = queue[j]
      <4>1. RqRetry(y, worker[w].left) \/ UNCHANGED queue
        BY <2>2, <3>1
           DEF WorkerNext, WorkerDies, SkipJob, LoadJob, Claim, RefreshJob, Transcode,
               UploadProcessed, UploadThumbnail, StoreOutput, Complete, ProcessingFails,
               ReloadFailed, MarkFailed, RecordSuccess, DecideRetry, HandlerRaises, RaiseToRq,
               ReturnToRq
      <4> QED
        BY <1>0, <4>1, AppendedFor
    <3>6. /\ worker'[w].pc = "idle" \/ worker'[w].video = y
          /\ \A x \in Workers \ {w} : worker'[x] = worker[x]
      BY <1>0, <2>2, <3>1, WorkerSteps
    <3> QED
      BY <1>0, <1>1, <3>3, <3>4, <3>5, <3>6, FreshStays
  <2> QED
    BY <2>1, <2>2
<1> QED
  BY <1>0, <1>2, <1>3, NamedStays, RawGoesStays

LEMMA RetryNamed ==
  ASSUME NamedInv, UNCHANGED cleanup, NEW a \in Admins, RetryNext(a) \/ RetryDies(a)
  PROVE  RawIsNamed' /\ FreshAreAlone' /\ RawGoesFirst'
<1>0. /\ TypeOK /\ CleanupInv /\ RawIsNamed /\ FreshAreAlone /\ RawGoesFirst /\ queue \in Seq(Message)
      /\ retry[a].video \in Videos
      /\ retry[a].pc # "idle" => retry[a].snap \in Row
      /\ retry \in [Admins -> [pc : RetryPcs, video : Videos, snap : MaybeRow]]
  BY DEF NamedInv, CleanupInv, Inv, TypeOK, SnapsHeld, MaybeRow
<1>1. UNCHANGED <<objects, upload, worker, recovery>>
  BY DEF RetryNext, RetryDies, LoadRetry, EnqueueRetry, EnqueueRetryFails, ResetRetried,
         RetryUnchanged
<1>2. CASE \E v \in Videos : LoadRetry(a, v)
  <2>1. PICK y \in Videos : LoadRetry(a, y)
    BY <1>2
  <2>2. upload'[y] \notin Fresh
    BY <1>0, <1>1, <2>1 DEF FreshAreAlone, Fresh, LoadRetry, Retryable
  <2>3. /\ retry'[a].video = y /\ \A b \in Admins \ {a} : retry'[b] = retry[b]
        /\ UNCHANGED <<rows, queue>>
    BY <1>0, <2>1 DEF LoadRetry
  <2>4. FreshAreAlone'
    BY <1>0, <1>1, <2>2, <2>3, FreshStays
  <2>5. RawRowsStay
    BY <1>1, <2>3 DEF RawRowsStay
  <2> QED
    BY <1>0, <2>4, <2>5, NamedStays, RawGoesStays
<1>3. CASE EnqueueRetry(a) \/ EnqueueRetryFails(a) \/ ResetRetried(a) \/ RetryDies(a)
  <2>1. PICK y \in Videos : y = retry[a].video
    BY <1>0
  <2>2. upload'[y] \notin Fresh /\ retry[a].pc # "idle"
    BY <1>0, <1>1, <1>3, <2>1
       DEF FreshAreAlone, Untouched, EnqueueRetry, EnqueueRetryFails, ResetRetried, RetryDies
  <2>3. /\ \A b \in Admins \ {a} : retry'[b] = retry[b]
        /\ retry'[a].video = y \/ retry'[a].pc = "idle"
    <3>1. CASE EnqueueRetry(a)
      BY <1>0, <2>1, <3>1 DEF EnqueueRetry
    <3>2. CASE retry' = [retry EXCEPT ![a] = IdleRetry]
      BY <1>0, <3>2 DEF IdleRetry
    <3> QED
      BY <1>3, <3>1, <3>2 DEF EnqueueRetryFails, ResetRetried, RetryDies
  <2>4. \A i \in DOMAIN queue' : queue'[i].video = y \/ \E j \in DOMAIN queue : queue'[i] = queue[j]
    <3>1. 0 \in Nat /\ (Enqueue(y) \/ EnqueueRaises(y) \/ UNCHANGED queue)
      BY <1>3, <2>1 DEF EnqueueRetry, EnqueueRetryFails, ResetRetried, RetryDies
    <3> QED
      BY <1>0, <3>1, AppendedFor
  <2>5. RawRowsStay /\ \A x \in Videos \ {y} : rows'[x] = rows[x]
    <3>1. CASE ResetRetried(a)
      <4>1. Commit(y, retry[a].snap, Retried(retry[a].snap)) /\ retry[a].snap \in Row
        BY <1>0, <2>1, <2>2, <3>1 DEF ResetRetried
      <4>2. Retried(retry[a].snap) \in RowInHand /\ Retried(retry[a].snap).raw = retry[a].snap.raw
        BY <4>1, AssignedType, AssignedKeepsRaw
      <4> QED
        BY <1>0, <1>1, <4>1, <4>2, CommitRow, CommitKeepsRaw DEF RawRowsStay
    <3>2. CASE UNCHANGED rows
      BY <1>1, <3>2 DEF RawRowsStay
    <3> QED
      BY <1>3, <3>1, <3>2 DEF EnqueueRetry, EnqueueRetryFails, RetryDies
  <2>6. FreshAreAlone'
    BY <1>0, <1>1, <2>2, <2>3, <2>4, <2>5, FreshStays
  <2> QED
    BY <1>0, <2>5, <2>6, NamedStays, RawGoesStays
<1> QED
  BY <1>2, <1>3 DEF RetryNext

LEMMA RecoveryNamed ==
  ASSUME NamedInv, UNCHANGED cleanup, NEW r \in Recoverers, RecoveryNext(r) \/ RecoveryDies(r)
  PROVE  RawIsNamed' /\ FreshAreAlone' /\ RawGoesFirst'
<1>0. /\ TypeOK /\ CleanupInv /\ RawIsNamed /\ FreshAreAlone /\ RawGoesFirst /\ queue \in Seq(Message)
      /\ recovery[r].video \in Videos /\ recovery[r].snap \in MaybeRow
      /\ recovery[r].pc \in {"refusing", "marking"} => recovery[r].snap # NoRow
      /\ recovery \in [Recoverers -> [pc : RecoveryPcs, todo : SUBSET Videos,
                                      video : Videos, snap : MaybeRow]]
  BY DEF NamedInv, CleanupInv, Inv, TypeOK, SnapsHeld
<1>1. UNCHANGED <<objects, upload, worker, retry>>
  BY DEF RecoveryNext, RecoveryDies, FindStuck, LoadStuck, SkipStuck, GiveUpStuck,
         EnqueueStuck, EnqueueStuckFails, GiveUpUnqueued, RequeueStuck, RecoveryUnchanged
<1>2. Acting(recovery[r]) => upload[recovery[r].video] \notin Fresh
  BY <1>0 DEF FreshAreAlone, Untouched
<1>3. CASE \E v \in Videos : LoadStuck(r, v)
  <2>1. PICK v \in Videos : LoadStuck(r, v)
    BY <1>3
  <2>2. /\ recovery'[r].video = v /\ recovery'[r].snap = rows[v] /\ recovery'[r].pc = "deciding"
        /\ \A q \in Recoverers \ {r} : recovery'[q] = recovery[q]
        /\ UNCHANGED <<rows, queue>>
    BY <1>0, <2>1 DEF LoadStuck
  <2>3. Acting(recovery'[r]) => upload'[v] \notin Fresh
    BY <1>0, <1>1, <2>2 DEF Acting, Recoverable, FreshAreAlone, Fresh
  <2>4. FreshAreAlone'
    BY <1>0, <1>1, <2>2, <2>3 DEF FreshAreAlone, Untouched
  <2>5. RawRowsStay
    BY <1>1, <2>2 DEF RawRowsStay
  <2> QED
    BY <1>0, <2>4, <2>5, NamedStays, RawGoesStays
\* The other steps go on with the row in hand, or with none.
<1>4. CASE ~\E v \in Videos : LoadStuck(r, v)
  <2>1. PICK y \in Videos : y = recovery[r].video
    BY <1>0
  <2>2. /\ \A q \in Recoverers \ {r} : recovery'[q] = recovery[q]
        /\ \/ recovery'[r].video = y /\ (Acting(recovery'[r]) => Acting(recovery[r]))
           \/ ~Acting(recovery'[r])
    <3>1. CASE FindStuck(r)
      BY <1>0, <2>1, <3>1 DEF FindStuck, Acting
    <3>2. CASE EnqueueStuck(r) \/ EnqueueStuckFails(r)
      BY <1>0, <2>1, <3>2 DEF EnqueueStuck, EnqueueStuckFails, RecoveryAt, Acting
    <3>3. CASE NextStuck(r) \/ RecoveryDies(r)
      <4>1. PICK next \in {IdleRecovery,
                            [IdleRecovery EXCEPT !.pc = "scanning", !.todo = recovery[r].todo]} :
              recovery' = [recovery EXCEPT ![r] = next]
        BY <3>3 DEF NextStuck, RecoveryDies
      <4>2. next.snap = NoRow /\ next.pc \in {"idle", "scanning"}
        <5>1. IdleRecovery.snap = NoRow /\ IdleRecovery.pc = "idle"
          BY DEF IdleRecovery
        <5>2. /\ [IdleRecovery EXCEPT !.pc = "scanning", !.todo = recovery[r].todo].snap = NoRow
              /\ [IdleRecovery EXCEPT !.pc = "scanning", !.todo = recovery[r].todo].pc = "scanning"
          BY DEF IdleRecovery
        <5> QED
          BY <4>1, <5>1, <5>2
      <4>3. recovery'[r] = next /\ \A q \in Recoverers \ {r} : recovery'[q] = recovery[q]
        BY <1>0, <4>1
      <4> QED
        BY <4>2, <4>3 DEF Acting
    <3> QED
      BY <1>4, <3>1, <3>2, <3>3
         DEF RecoveryNext, SkipStuck, GiveUpStuck, GiveUpUnqueued, RequeueStuck
  <2>3. CASE GiveUpStuck(r) \/ GiveUpUnqueued(r) \/ RequeueStuck(r)
    <3>1. /\ Acting(recovery[r]) /\ recovery[r].snap \in Row /\ UNCHANGED queue
          /\ \E new \in {GivenUp(recovery[r].snap), Requeued(recovery[r].snap)} :
               Commit(y, recovery[r].snap, new)
      BY <1>0, <2>1, <2>3 DEF GiveUpStuck, GiveUpUnqueued, RequeueStuck, Acting, MaybeRow
    <3>2. PICK new \in RowInHand : Commit(y, recovery[r].snap, new) /\ new.raw = recovery[r].snap.raw
      BY <3>1, AssignedType, AssignedKeepsRaw
    <3>3. RawRowsStay /\ \A x \in Videos \ {y} : rows'[x] = rows[x]
      BY <1>0, <1>1, <3>1, <3>2, CommitRow, CommitKeepsRaw DEF RawRowsStay
    <3>4. FreshAreAlone'
      BY <1>0, <1>1, <1>2, <2>1, <2>2, <3>1, <3>3, FreshStays
    <3> QED
      BY <1>0, <3>3, <3>4, NamedStays, RawGoesStays
  <2>4. CASE EnqueueStuck(r) \/ EnqueueStuckFails(r)
    <3>1. Acting(recovery[r]) /\ UNCHANGED rows /\ (Enqueue(y) \/ EnqueueRaises(y))
      BY <2>1, <2>4 DEF EnqueueStuck, EnqueueStuckFails, Acting
    <3>2. \A i \in DOMAIN queue' : queue'[i].video = y \/ \E j \in DOMAIN queue : queue'[i] = queue[j]
      <4>1. 0 \in Nat
        OBVIOUS
      <4> QED
        BY <1>0, <3>1, <4>1, AppendedFor
    <3>3. FreshAreAlone'
      BY <1>0, <1>1, <1>2, <2>1, <2>2, <3>1, <3>2, FreshStays
    <3>4. RawRowsStay
      BY <1>1, <3>1 DEF RawRowsStay
    <3> QED
      BY <1>0, <3>3, <3>4, NamedStays, RawGoesStays
  <2>5. CASE FindStuck(r) \/ SkipStuck(r) \/ RecoveryDies(r)
    <3>1. UNCHANGED <<rows, queue>>
      BY <2>5 DEF FindStuck, SkipStuck, RecoveryDies
    <3>2. FreshAreAlone'
      BY <1>0, <1>1, <1>2, <2>1, <2>2, <3>1 DEF FreshAreAlone, Untouched
    <3>3. RawRowsStay
      BY <1>1, <3>1 DEF RawRowsStay
    <3> QED
      BY <1>0, <3>2, <3>3, NamedStays, RawGoesStays
  <2> QED
    BY <1>4, <2>3, <2>4, <2>5 DEF RecoveryNext
<1> QED
  BY <1>3, <1>4

\* Only a row that the upload has queued grows old.
LEMMA AgeNamed ==
  ASSUME NamedInv, UNCHANGED cleanup, NEW v \in Videos, Age(v)
  PROVE  RawIsNamed' /\ FreshAreAlone' /\ RawGoesFirst'
<1>0. /\ TypeOK /\ CleanupInv /\ RawIsNamed /\ FreshAreAlone /\ RawGoesFirst
      /\ UNCHANGED <<queue, objects, upload, worker, retry, recovery>>
  BY DEF NamedInv, CleanupInv, Inv, Age
<1>1. /\ rows[v] \in Row /\ rows[v] # NoRow /\ rows[v].status \in {"PROCESSING", "QUEUED"}
      /\ \/ rows' = [rows EXCEPT ![v] = [rows[v] EXCEPT !.started = "stale"]]
         \/ rows' = [rows EXCEPT ![v] = [rows[v] EXCEPT !.updated = "stale"]]
  BY <1>0 DEF Age, TypeOK, MaybeRow
<1>2. \A row \in Row : /\ [row EXCEPT !.started = "stale"] \in Row
                       /\ [row EXCEPT !.updated = "stale"] \in Row
                       /\ [row EXCEPT !.started = "stale"].raw = row.raw
                       /\ [row EXCEPT !.updated = "stale"].raw = row.raw
  BY DEF Row, Times
<1>3. /\ rows'[v] # NoRow /\ rows'[v].raw = rows[v].raw
      /\ \A x \in Videos \ {v} : rows'[x] = rows[x]
  <2>1. PICK new \in Row : rows' = [rows EXCEPT ![v] = new] /\ new.raw = rows[v].raw
    BY <1>1, <1>2
  <2>2. rows \in [Videos -> MaybeRow]
    BY <1>0 DEF TypeOK
  <2>3. rows'[v] = new /\ \A x \in Videos \ {v} : rows'[x] = rows[x]
    BY <2>1, <2>2
  <2> QED
    BY <2>1, <2>3, NoRowAssumption
<1>4. RawRowsStay
  BY <1>0, <1>3 DEF RawRowsStay
<1>5. upload'[v] \notin Fresh
  BY <1>0, <1>1 DEF FreshAreAlone, Fresh
<1>6. FreshAreAlone'
  BY <1>0, <1>3, <1>5, FreshStays
<1> QED
  BY <1>0, <1>4, <1>6, NamedStays, RawGoesStays

\* A pass takes the key from the row, or the row from the table, only when it
\* has deleted the raw object.
LEMMA CleanupNamed ==
  ASSUME NamedInv, StorageBackend = "object",
         NEW c \in Cleaners, CleanupNext(c) \/ CleanupDies(c)
  PROVE  RawIsNamed' /\ FreshAreAlone' /\ RawGoesFirst'
<1>0. /\ TypeOK /\ CleanupInv /\ RawIsNamed /\ FreshAreAlone /\ RawGoesFirst
      /\ cleanup[c] \in CleanupState /\ cleanup[c].video \in Videos
      /\ cleanup[c].left \in Seq(Objects)
      /\ cleanup \in [Cleaners -> CleanupState]
  BY DEF NamedInv, CleanupInv, CleanupHeld, Inv, CleanupState, MaybeRow
<1>1. UNCHANGED <<queue, upload, worker, retry, recovery>>
  BY <1>0, CleanupRest
\* The video that the step is about.
<1>2. PICK y \in Videos :
        /\ upload[y] \notin Fresh
        /\ cleanup'[c].pc = "idle" \/ cleanup'[c].video = y
        /\ cleanup[c].pc = "idle" \/ cleanup[c].video = y
        /\ cleanup[c].pc = "idle" => FindCandidate(c, y)
  <2>1. CASE cleanup[c].pc = "idle"
    <3>1. PICK y \in Videos : FindCandidate(c, y) /\ (cleanup'[c].pc = "idle" \/ cleanup'[c].video = y)
      BY <1>0, <2>1, CleanupSteps
         DEF CleanupNext, CleanupDies, LoadListed, DeleteObject, DeleteFails, NoteFailure,
             MarkCleaned, RemoveRow, Deleted, CleanupVanished
    <3>2. upload[y] \notin Fresh
      BY <1>0, <3>1 DEF FreshAreAlone, Fresh, FindCandidate, Candidate
    <3> QED
      BY <2>1, <3>1, <3>2
  <2>2. CASE cleanup[c].pc # "idle"
    <3>1. cleanup'[c].pc = "idle" \/ cleanup'[c].video = cleanup[c].video
      BY <1>0, <2>2, CleanupSteps DEF FindCandidate
    <3>2. upload[cleanup[c].video] \notin Fresh
      BY <1>0, <2>2 DEF FreshAreAlone, Untouched
    <3> QED
      BY <1>0, <2>2, <3>1, <3>2
  <2> QED
    BY <2>1, <2>2
<1>3. \A d \in Cleaners \ {c} : cleanup'[d] = cleanup[d]
  BY <1>0, CleanupSteps
<1>4. \A x \in Videos \ {y} : rows'[x] = rows[x]
  BY <1>0, <1>2
     DEF CleanupNext, CleanupDies, FindCandidate, LoadListed, DeleteObject, DeleteFails,
         NoteFailure, MarkCleaned, RemoveRow, Deleted, CleanupVanished, VanishedUnchanged,
         Commit, TypeOK
<1>5. FreshAreAlone'
  BY <1>0, <1>1, <1>2, <1>3, <1>4, FreshStays
<1>6. \A x \in Videos : "raw" \in objects'[x] => "raw" \in objects[x]
  BY <1>0
     DEF CleanupNext, CleanupDies, FindCandidate, LoadListed, DeleteObject, DeleteFails,
         NoteFailure, MarkCleaned, RemoveRow, CleanupVanished, VanishedUnchanged, TypeOK
<1>7. RawIsNamed'
  <2>1. CASE MarkCleaned(c) \/ RemoveRow(c)
    <3>1. "raw" \notin objects[y]
      BY <1>0, <1>2, <2>1 DEF MarkCleaned, RemoveRow, Deleted, RawGoesFirst
    <3> QED
      BY <1>0, <1>4, <1>6, <3>1 DEF RawIsNamed
  <2>2. CASE NoteFailure(c)
    <3>1. /\ rows[y] \in Row /\ rows[y] # NoRow
          /\ rows' = [rows EXCEPT ![y] = [rows[y] EXCEPT !.updated = "recent"]]
      BY <1>0, <1>2, <2>2 DEF NoteFailure, TypeOK, MaybeRow
    <3>2. \A row \in Row : [row EXCEPT !.updated = "recent"] \in Row
                          /\ [row EXCEPT !.updated = "recent"].raw = row.raw
      BY DEF Row, Times
    <3>3. rows'[y] # NoRow /\ rows'[y].raw = rows[y].raw
      BY <1>0, <3>1, <3>2, NoRowAssumption DEF TypeOK
    <3> QED
      BY <1>0, <1>4, <1>6, <3>3, NamedStays DEF RawRowsStay
  <2>3. CASE UNCHANGED rows
    BY <1>0, <1>6, <2>3, NamedStays DEF RawRowsStay
  <2> QED
    BY <2>1, <2>2, <2>3
       DEF CleanupNext, CleanupDies, FindCandidate, LoadListed, DeleteObject, DeleteFails,
           CleanupVanished, VanishedUnchanged
<1>8. cleanup'[c].pc = "deleting" =>
        "raw" \notin objects'[cleanup'[c].video]
          \/ \E i \in DOMAIN cleanup'[c].left : cleanup'[c].left[i] = "raw"
  <2>1. ASSUME NEW v \in Videos, rows[v] # NoRow, UNCHANGED objects, cleanup'[c] = Cleaning(c, v)
        PROVE  "raw" \notin objects'[cleanup'[c].video]
                 \/ \E i \in DOMAIN cleanup'[c].left : cleanup'[c].left[i] = "raw"
    <3>1. cleanup'[c].video = v /\ cleanup'[c].left = References(rows[v]) /\ rows[v] \in Row
      BY <1>0, <2>1 DEF Cleaning, TypeOK, MaybeRow
    <3>2. CASE rows[v].raw
      BY <3>1, <3>2, ReferencesType
    <3>3. CASE ~rows[v].raw
      BY <1>0, <2>1, <3>1, <3>3 DEF RawIsNamed
    <3> QED
      BY <3>2, <3>3
  <2>2. CASE FindCandidate(c, y)
    <3>1. CASE CleanupAt(c, Cleaning(c, y))
      BY <1>0, <2>1, <2>2, <3>1 DEF FindCandidate, CleanupAt
    <3>2. CASE CleanupAt(c, [IdleCleanup EXCEPT !.pc = "listed", !.video = y])
      <4>1. cleanup'[c] = [IdleCleanup EXCEPT !.pc = "listed", !.video = y]
        BY <1>0, <3>2 DEF CleanupAt
      <4>2. cleanup'[c].pc = "listed"
        BY <4>1 DEF IdleCleanup
      <4> QED
        BY <4>2
    <3> QED
      BY <2>2, <3>1, <3>2 DEF FindCandidate
  <2>3. CASE LoadListed(c)
    <3>1. cleanup'[c] = Cleaning(c, cleanup[c].video) /\ UNCHANGED objects
      BY <1>0, <2>3 DEF LoadListed, CleanupAt
    <3> QED
      BY <1>0, <2>1, <2>3, <3>1 DEF LoadListed
  <2>4. CASE DeleteObject(c)
    <3>1. /\ cleanup'[c].video = cleanup[c].video /\ cleanup'[c].left = Tail(cleanup[c].left)
          /\ cleanup[c].pc = "deleting" /\ cleanup[c].left # <<>>
          /\ objects'[cleanup[c].video] = objects[cleanup[c].video] \ {Head(cleanup[c].left)}
      BY <1>0, <2>4 DEF DeleteObject, CleanupAt, CleanupState, TypeOK
    <3>2. CASE Head(cleanup[c].left) = "raw"
      BY <3>1, <3>2
    <3>3. CASE Head(cleanup[c].left) # "raw"
      <4>1. ASSUME NEW s \in Seq(Objects), s # <<>>, Head(s) # "raw", NEW i \in DOMAIN s, s[i] = "raw"
            PROVE  \E j \in DOMAIN Tail(s) : Tail(s)[j] = "raw"
        <5>1. i # 1 /\ i - 1 \in DOMAIN Tail(s) /\ Tail(s)[i - 1] = s[i]
          BY <4>1
        <5> QED
          BY <4>1, <5>1
      <4> QED
        BY <1>0, <3>1, <3>3, <4>1 DEF RawGoesFirst
    <3> QED
      BY <3>2, <3>3
  <2>5. CASE DeleteFails(c)
    <3>1. cleanup'[c].pc = "noting"
      BY <1>0, <2>5 DEF DeleteFails, CleanupAt, CleanupState
    <3> QED
      BY <3>1
  <2>6. CASE CleanupAt(c, IdleCleanup)
    <3>1. cleanup'[c].pc = "idle"
      BY <1>0, <2>6 DEF CleanupAt, IdleCleanup
    <3> QED
      BY <3>1
  <2>7. cleanup[c].pc = "idle" => FindCandidate(c, y)
    BY <1>2
  <2> QED
    BY <2>2, <2>3, <2>4, <2>5, <2>6, <2>7
       DEF CleanupNext, CleanupDies, FindCandidate, NoteFailure, MarkCleaned, RemoveRow,
           CleanupVanished, CleanupEnds
<1>9. RawGoesFirst'
  <2>1. \A d \in Cleaners : cleanup[d].video \in Videos
    BY <1>0 DEF CleanupState
  <2> QED
    BY <1>0, <1>3, <1>6, <1>8, <2>1 DEF RawGoesFirst
<1> QED
  BY <1>5, <1>7, <1>9

LEMMA VanishedNamed ==
  ASSUME NamedInv, VanishedNext
  PROVE  RawIsNamed' /\ FreshAreAlone' /\ RawGoesFirst'
<1>0. /\ TypeOK /\ CleanupInv /\ RawIsNamed /\ FreshAreAlone /\ RawGoesFirst
      /\ UNCHANGED <<rows, queue, objects, recovery, cleanup>>
  BY VanishedRest DEF NamedInv, CleanupInv, Inv
<1>1. RawIsNamed' /\ RawGoesFirst'
  BY <1>0, NamedStays, RawGoesStays DEF RawRowsStay
<1>2. ASSUME NEW v \in Videos, UploadVanished(v)
      PROVE  FreshAreAlone'
  <2>1. /\ upload'[v] \notin Fresh /\ \A x \in Videos \ {v} : upload'[x] = upload[x]
        /\ UNCHANGED <<worker, retry, recovery>>
    BY <1>0, <1>2 DEF UploadVanished, UploadAt, Fresh, TypeOK
  <2> QED
    BY <1>0, <2>1, FreshStays
<1>3. ASSUME NEW w \in Workers, WorkerVanished(w)
      PROVE  FreshAreAlone'
  <2>1. PICK y \in Videos : y = worker[w].video
    BY <1>0 DEF TypeOK, WorkerState
  <2>2. /\ upload'[y] \notin Fresh /\ UNCHANGED <<upload, retry>>
    BY <1>0, <1>3, <2>1 DEF WorkerVanished, FreshAreAlone, Untouched
  <2>3. worker'[w].video = y /\ \A x \in Workers \ {w} : worker'[x] = worker[x]
    BY <1>0, <1>3, <2>1 DEF WorkerVanished, WorkerDrops, TypeOK, WorkerState
  <2> QED
    BY <1>0, <2>2, <2>3, FreshStays
<1>4. ASSUME NEW a \in Admins, RetryVanished(a)
      PROVE  FreshAreAlone'
  <2>1. PICK y \in Videos : y = retry[a].video
    BY <1>0 DEF TypeOK
  <2>2. /\ upload'[y] \notin Fresh /\ UNCHANGED <<upload, worker>>
    BY <1>0, <1>4, <2>1 DEF RetryVanished, FreshAreAlone, Untouched
  <2>3. retry' = [retry EXCEPT ![a] = IdleRetry]
    BY <1>4 DEF RetryVanished
  <2>4. retry'[a].pc = "idle" /\ \A x \in Admins \ {a} : retry'[x] = retry[x]
    BY <1>0, <2>3 DEF IdleRetry, TypeOK
  <2> QED
    BY <1>0, <2>2, <2>4, FreshStays
<1> QED
  BY <1>1, <1>2, <1>3, <1>4 DEF VanishedNext

LEMMA InitNamed == CInit => NamedInv
<1> SUFFICES ASSUME CInit PROVE RawIsNamed /\ FreshAreAlone /\ RawGoesFirst
  BY CleanupInit DEF NamedInv
<1> QED
  BY DEF CInit, Init, RawIsNamed, FreshAreAlone, RawGoesFirst, Untouched, IdleWorker, IdleRetry,
         IdleRecovery, Acting, IdleCleanup, Fresh

LEMMA NextNamed ==
  ASSUME StorageBackend = "object"
  PROVE  NamedInv /\ [CNext]_cvars => NamedInv'
<1> SUFFICES ASSUME NamedInv, [CNext]_cvars
             PROVE  RawIsNamed' /\ FreshAreAlone' /\ RawGoesFirst'
  BY CleanupStep DEF NamedInv
<1>1. CASE UNCHANGED cvars
  BY <1>1 DEF cvars, vars, NamedInv, RawIsNamed, FreshAreAlone, RawGoesFirst, Untouched
<1>2. CASE Next /\ UNCHANGED cleanup
  BY <1>2, UploadNamed, AgeNamed, WorkerNamed, RetryNamed, RecoveryNamed DEF Next
<1>3. CASE \E c \in Cleaners : CleanupNext(c) \/ CleanupDies(c)
  BY <1>3, CleanupNamed
<1>4. CASE VanishedNext
  BY <1>4, VanishedNamed
<1> QED
  BY <1>1, <1>2, <1>3, <1>4 DEF CNext

\* A raw video in the store is named by its row, for any number of passes with
\* and without delete_db_rows, whatever deletions fail, whoever dies and however
\* retries, requeues and late commits overlap with a pass: no raw object is left
\* behind that nothing could ever delete.
THEOREM RawAlwaysNamed ==
  ASSUME StorageBackend = "object"
  PROVE  CSpec => []RawIsNamed
<1>1. NamedInv => RawIsNamed
  BY DEF NamedInv
<1> QED
  BY <1>1, InitNamed, NextNamed, PTL DEF CSpec
=============================================================================
