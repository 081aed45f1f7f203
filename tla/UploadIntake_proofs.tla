-------------------------- MODULE UploadIntake_proofs --------------------------
(***************************************************************************)
(* Proofs about UploadIntake, for every finite set of requests, every way  *)
(* they share idempotency keys, and every threshold and bound.             *)
(***************************************************************************)
EXTENDS UploadIntake, FiniteSetTheorems, TLAPS

-----------------------------------------------------------------------------
(* SameJob is not inductive: a later row must not take an old answer's key *)
(* from it, which needs that a key has one row and that an answer has the  *)
(* key of its request.  Only an insertion may add a row: a request whose   *)
(* file cannot be stored still has the row it inserted.                    *)

OneJobPerKey ==
  \A i, j \in Requests :
    KeyOf[i] = KeyOf[j] /\ KeyOf[i] # NoKey /\ job[i] # "none" /\ job[j] # "none" => i = j

AnswerHasKey ==
  \A r \in Requests :
    KeyOf[r] # NoKey /\ answer[r] \in Requests => KeyOf[answer[r]] = KeyOf[r]

\* Before a request has enqueued, no message of it is in the list.
Unsent == \A r \in Requests : pc[r] \in (Pcs \ {"refusing", "marking", "answered", "dead"})
                                => r \notin waiting

StoringHasRow == \A r \in Requests : pc[r] = "storing" => job[r] = "UPLOADED"

KeyInv == TypeOK /\ OneJobPerKey /\ AnswerHasKey /\ Unsent /\ StoringHasRow

-----------------------------------------------------------------------------
(* Type correctness.                                                       *)

LEMMA AdmittedFinite ==
  /\ IsFiniteSet(Admitted) /\ Cardinality(Admitted) \in Nat
  /\ \A S \in SUBSET Requests : IsFiniteSet(S) /\ Cardinality(S) \in Nat
<1>1. Admitted \subseteq Requests
  BY DEF Admitted
<1> QED
  BY <1>1, RequestsAssumption, FS_Subset, FS_CardinalityType

LEMMA TypeInit == Init => TypeOK
BY IntakeBounds DEF Init, TypeOK, Pcs, JobStatuses

LEMMA TypeNext == TypeOK /\ [Next]_vars => TypeOK'
<1> SUFFICES ASSUME TypeOK, [Next]_vars
             PROVE  TypeOK'
  OBVIOUS
<1> USE IntakeBounds DEF TypeOK
<1>1. CASE UNCHANGED vars
  BY <1>1 DEF vars
<1>2. ASSUME NEW r \in Requests, RequestNext(r)
      PROVE  TypeOK'
  <2> USE DEF GoesTo, Answers, SetJob, QueueUnchanged, Pcs, JobStatuses
  <2>1. CASE CheckRate(r) \/ RefuseKey(r) \/ FindNone(r) \/ NotAdmitted(r) \/ Receive(r)
    BY <2>1 DEF CheckRate, RefuseKey, FindNone, NotAdmitted, Receive
  <2>2. CASE FindExisting(r) \/ AnswerRaced(r)
    BY <2>2 DEF FindExisting, AnswerRaced, SameKey
  <2>3. CASE Admit(r)
    <3>1. peak' \in Nat
      BY <2>3, AdmittedFinite DEF Admit
    <3> QED
      BY <2>3, <3>1 DEF Admit
  <2>4. CASE Insert(r) \/ Store(r) \/ StoreFails(r)
    BY <2>4 DEF Insert, Store, StoreFails
  <2>5. CASE Enqueue(r) \/ EnqueueFails(r)
    BY <2>5 DEF Enqueue, EnqueueFails
  <2>6. CASE MarkUnqueued(r) \/ MarkQueued(r)
    BY <2>6 DEF MarkUnqueued, MarkQueued
  <2> QED
    BY <1>2, <2>1, <2>2, <2>3, <2>4, <2>5, <2>6 DEF RequestNext
<1>3. ASSUME NEW r \in Requests, Die(r)
      PROVE  TypeOK'
  BY <1>3 DEF Die, GoesTo, Pcs
<1>4. ASSUME NEW r \in Requests, Process(r) \/ RemoveRow(r)
      PROVE  TypeOK'
  BY <1>4 DEF Process, RemoveRow, SetJob, JobStatuses
<1>5. CASE QueueChanges
  BY <1>5 DEF QueueChanges
<1> QED
  BY <1>1, <1>2, <1>3, <1>4, <1>5 DEF Next

-----------------------------------------------------------------------------
(* One job per key.                                                        *)

\* What a step may do to the rows: take some away, or add one to a free key.
LEMMA RowsKept ==
  ASSUME OneJobPerKey, \A j \in Requests : job'[j] # "none" => job[j] # "none"
  PROVE  OneJobPerKey'
BY DEF OneJobPerKey

\* What a step may do to the answers: give one to a request, with its key.
LEMMA AnswersKept ==
  ASSUME TypeOK, AnswerHasKey, NEW r \in Requests,
         \/ UNCHANGED answer
         \/ \E a : /\ answer' = [answer EXCEPT ![r] = a]
                   /\ KeyOf[r] # NoKey /\ a \in Requests => KeyOf[a] = KeyOf[r]
  PROVE  AnswerHasKey'
BY DEF AnswerHasKey, TypeOK

LEMMA KeyRequest ==
  ASSUME KeyInv, NEW r \in Requests, RequestNext(r)
  PROVE  OneJobPerKey' /\ AnswerHasKey' /\ Unsent' /\ StoringHasRow'
<1> USE AnswersAssumption DEF KeyInv, GoesTo, Answers, IsAt, QueueUnchanged
<1>1. CASE CheckRate(r) \/ RefuseKey(r) \/ FindNone(r) \/ NotAdmitted(r) \/ Receive(r) \/ Admit(r)
  <2>1. /\ UNCHANGED <<job, waiting>>
        /\ UNCHANGED answer \/ answer' = [answer EXCEPT ![r] = Refused]
        /\ \E s \in {"looking", "admitting", "receiving", "inserting", "answered"} :
             pc' = [pc EXCEPT ![r] = s]
        /\ pc[r] \in {"new", "looking", "admitting", "receiving"}
    BY <1>1 DEF CheckRate, RefuseKey, FindNone, NotAdmitted, Receive, Admit
  <2>2. AnswerHasKey' /\ OneJobPerKey'
    BY <2>1, AnswersKept, RowsKept
  <2>3. Unsent' /\ StoringHasRow'
    BY <2>1 DEF TypeOK, Unsent, StoringHasRow, Pcs
  <2> QED
    BY <2>2, <2>3
<1>2. CASE FindExisting(r) \/ AnswerRaced(r)
  <2>1. /\ UNCHANGED <<job, waiting>>
        /\ pc' = [pc EXCEPT ![r] = "answered"]
        /\ \E a \in SameKey(r) \cup {Refused} : answer' = [answer EXCEPT ![r] = a]
    BY <1>2 DEF FindExisting, AnswerRaced
  <2>2. \A a \in SameKey(r) : KeyOf[a] = KeyOf[r]
    BY DEF SameKey
  <2>3. AnswerHasKey' /\ OneJobPerKey'
    BY <2>1, <2>2, AnswersKept, RowsKept
  <2>4. Unsent' /\ StoringHasRow'
    BY <2>1 DEF TypeOK, Unsent, StoringHasRow, Pcs
  <2> QED
    BY <2>3, <2>4
<1>3. CASE Insert(r)
  <2>1. UNCHANGED <<answer, waiting>> /\ pc[r] = "inserting"
    BY <1>3 DEF Insert
  <2>2. CASE SameKey(r) = {} /\ SetJob(r, "UPLOADED") /\ pc' = [pc EXCEPT ![r] = "storing"]
    <3>1. \A j \in Requests : KeyOf[r] # NoKey /\ KeyOf[j] = KeyOf[r] => job[j] = "none"
      BY <2>2 DEF SameKey
    <3>2. job' = [job EXCEPT ![r] = "UPLOADED"]
      BY <2>2 DEF SetJob
    <3>3. OneJobPerKey'
      BY <3>1, <3>2 DEF OneJobPerKey, TypeOK
    <3>4. Unsent' /\ StoringHasRow'
      BY <2>1, <2>2, <3>2 DEF TypeOK, Unsent, StoringHasRow, Pcs
    <3> QED
      BY <2>1, <3>3, <3>4, AnswersKept
  <2>3. CASE UNCHANGED job /\ pc' = [pc EXCEPT ![r] = "raced"]
    <3>1. Unsent' /\ StoringHasRow'
      BY <2>1, <2>3 DEF TypeOK, Unsent, StoringHasRow, Pcs
    <3> QED
      BY <2>1, <2>3, <3>1, AnswersKept, RowsKept
  <2> QED
    BY <1>3, <2>2, <2>3 DEF Insert
<1>4. CASE Store(r) \/ StoreFails(r)
  <2>1. /\ UNCHANGED waiting
        /\ pc[r] = "storing" /\ job[r] = "UPLOADED"
        /\ UNCHANGED job \/ job' = [job EXCEPT ![r] = "FAILED"]
        /\ \E s \in {"enqueuing", "answered"} : pc' = [pc EXCEPT ![r] = s]
        /\ UNCHANGED answer \/ \E a \in {r, Refused} : answer' = [answer EXCEPT ![r] = a]
    BY <1>4 DEF Store, StoreFails, SetJob, StoringHasRow
  <2>2. OneJobPerKey'
    BY <2>1, RowsKept DEF TypeOK
  <2>3. AnswerHasKey'
    BY <2>1, AnswersKept
  <2>4. Unsent' /\ StoringHasRow'
    BY <2>1 DEF TypeOK, Unsent, StoringHasRow, Pcs
  <2> QED
    BY <2>2, <2>3, <2>4
<1>5. CASE Enqueue(r) \/ EnqueueFails(r)
  <2>1. /\ UNCHANGED <<job, answer>> /\ waiting' \in {waiting, waiting \cup {r}}
        /\ \E s \in {"marking", "refusing"} : pc' = [pc EXCEPT ![r] = s]
    BY <1>5 DEF Enqueue, EnqueueFails
  <2>2. Unsent' /\ StoringHasRow'
    BY <2>1 DEF TypeOK, Unsent, StoringHasRow, Pcs
  <2> QED
    BY <2>1, <2>2, AnswersKept, RowsKept
<1>6. CASE MarkUnqueued(r) \/ MarkQueued(r)
  <2>1. /\ UNCHANGED waiting /\ pc[r] \in {"refusing", "marking"}
        /\ \/ UNCHANGED job
           \/ job[r] # "none" /\ \E s \in {"unqueued", "QUEUED"} : job' = [job EXCEPT ![r] = s]
        /\ pc' = [pc EXCEPT ![r] = "answered"]
        /\ \E a \in {r, Refused} : answer' = [answer EXCEPT ![r] = a]
    BY <1>6 DEF MarkUnqueued, MarkQueued, SetJob
  <2>2. OneJobPerKey'
    BY <2>1, RowsKept DEF TypeOK
  <2>3. AnswerHasKey'
    BY <2>1, AnswersKept
  <2>4. Unsent' /\ StoringHasRow'
    BY <2>1 DEF TypeOK, Unsent, StoringHasRow, Pcs
  <2> QED
    BY <2>2, <2>3, <2>4
<1> QED
  BY <1>1, <1>2, <1>3, <1>4, <1>5, <1>6 DEF RequestNext

LEMMA KeyNext == KeyInv /\ [Next]_vars => KeyInv'
<1> SUFFICES ASSUME KeyInv, [Next]_vars
             PROVE  OneJobPerKey' /\ AnswerHasKey' /\ Unsent' /\ StoringHasRow'
  BY TypeNext DEF KeyInv
<1>1. CASE UNCHANGED vars \/ QueueChanges
  BY <1>1 DEF vars, QueueChanges, KeyInv, OneJobPerKey, AnswerHasKey, Unsent, StoringHasRow
<1>2. ASSUME NEW r \in Requests, Die(r)
      PROVE  OneJobPerKey' /\ AnswerHasKey' /\ Unsent' /\ StoringHasRow'
  BY <1>2 DEF Die, GoesTo, KeyInv, TypeOK, OneJobPerKey, AnswerHasKey, Unsent, StoringHasRow
<1>3. ASSUME NEW j \in Requests, Process(j)
      PROVE  OneJobPerKey' /\ AnswerHasKey' /\ Unsent' /\ StoringHasRow'
  <2>1. /\ UNCHANGED <<pc, answer>> /\ j \in waiting /\ waiting' = waiting \ {j}
        /\ \E s : job' = [job EXCEPT ![j] = s] /\ (job[j] = "none" => s = "none")
    BY <1>3 DEF Process, SetJob
  <2>2. pc[j] # "storing"
    BY <2>1 DEF KeyInv, Unsent, Pcs
  <2>3. OneJobPerKey'
    BY <2>1, RowsKept DEF KeyInv, TypeOK
  <2> QED
    BY <2>1, <2>2, <2>3 DEF KeyInv, TypeOK, AnswerHasKey, Unsent, StoringHasRow
<1>4. ASSUME NEW j \in Requests, RemoveRow(j)
      PROVE  OneJobPerKey' /\ AnswerHasKey' /\ Unsent' /\ StoringHasRow'
  <2>1. /\ UNCHANGED <<pc, answer, waiting>>
        /\ job[j] # "UPLOADED" /\ job' = [job EXCEPT ![j] = "none"]
    BY <1>4 DEF RemoveRow, SetJob, Final
  <2>2. OneJobPerKey'
    BY <2>1, RowsKept DEF KeyInv, TypeOK
  <2> QED
    BY <2>1, <2>2 DEF KeyInv, TypeOK, AnswerHasKey, Unsent, StoringHasRow
<1> QED
  BY <1>1, <1>2, <1>3, <1>4, KeyRequest DEF Next

LEMMA KeyInit == Init => KeyInv
BY TypeInit, AnswersAssumption
   DEF Init, KeyInv, OneJobPerKey, AnswerHasKey, Unsent, StoringHasRow

LEMMA KeyAlways == Spec => []KeyInv
BY KeyInit, KeyNext, PTL DEF Spec

-----------------------------------------------------------------------------
(* The backlog.  A request is counted among the admitted until it has sent *)
(* its message, and nothing but an admission adds to the two counts.       *)

\* Messages are taken away, or requests come off the way.
LEMMA BacklogShrinks ==
  ASSUME TypeOK, TypeOK', BacklogBounded, Admitted' \subseteq Admitted,
         waiting' \subseteq waiting, UNCHANGED peak
  PROVE  BacklogBounded'
<1>1. Admitted \subseteq Requests /\ waiting \subseteq Requests
  BY DEF Admitted, TypeOK
<1>2. IsFiniteSet(Admitted) /\ IsFiniteSet(waiting)
  BY <1>1, RequestsAssumption, FS_Subset
<1>3. /\ Cardinality(Admitted') <= Cardinality(Admitted)
      /\ Cardinality(waiting') <= Cardinality(waiting)
  BY <1>2, FS_Subset
<1>4. /\ Cardinality(Admitted) \in Nat /\ Cardinality(waiting) \in Nat
      /\ Cardinality(Admitted') \in Nat /\ Cardinality(waiting') \in Nat
  BY <1>2, FS_Subset, FS_CardinalityType
<1> QED
  BY <1>3, <1>4, DepthAssumption DEF BacklogBounded, TypeOK

LEMMA BacklogAdmit ==
  ASSUME TypeOK, BacklogBounded, NEW r \in Requests, Admit(r)
  PROVE  BacklogBounded'
<1>1. pc[r] = "admitting" /\ pc' = [pc EXCEPT ![r] = "receiving"] /\ UNCHANGED waiting
  BY DEF Admit, IsAt, GoesTo, QueueUnchanged
<1>2. r \notin Admitted /\ Admitted' = Admitted \cup {r}
  BY <1>1 DEF Admitted, TypeOK
<1>3. Cardinality(Admitted') = Cardinality(Admitted) + 1
  BY <1>2, AdmittedFinite, FS_AddElement
<1>4. peak' \in Nat /\ peak' >= Cardinality(Admitted) + 1
  BY AdmittedFinite DEF Admit, TypeOK
<1>5. Cardinality(waiting) \in Nat /\ Cardinality(waiting) < MaxQueueDepth
  BY AdmittedFinite, DepthAssumption DEF Admit, Admits, Depth, TypeOK
<1> QED
  BY <1>1, <1>3, <1>4, <1>5, AdmittedFinite, DepthAssumption DEF BacklogBounded

\* The message takes the place of its request.
LEMMA BacklogEnqueue ==
  ASSUME TypeOK, TypeOK', BacklogBounded, NEW r \in Requests, Enqueue(r) \/ EnqueueFails(r)
  PROVE  BacklogBounded'
<1>1. /\ pc[r] = "enqueuing" /\ UNCHANGED peak
      /\ waiting' \in {waiting, waiting \cup {r}}
      /\ \E s \in {"marking", "refusing"} : pc' = [pc EXCEPT ![r] = s]
  BY DEF Enqueue, EnqueueFails, IsAt, GoesTo
<1>2. r \in Admitted /\ Admitted' = Admitted \ {r}
  BY <1>1 DEF Admitted, TypeOK
<1>3. Cardinality(Admitted') = Cardinality(Admitted) - 1
  BY <1>2, AdmittedFinite, FS_RemoveElement
<1>4. IsFiniteSet(waiting) /\ Cardinality(waiting) \in Nat /\ Cardinality(waiting') \in Nat
  BY AdmittedFinite DEF TypeOK
<1>5. Cardinality(waiting') <= Cardinality(waiting) + 1
  <2>1. CASE waiting' = waiting
    BY <1>4, <2>1
  <2>2. CASE waiting' = waiting \cup {r}
    <3>1. Cardinality(waiting \cup {r}) = IF r \in waiting THEN Cardinality(waiting)
                                           ELSE Cardinality(waiting) + 1
      BY <1>4, FS_AddElement
    <3>2. Cardinality(waiting') = IF r \in waiting THEN Cardinality(waiting)
                                  ELSE Cardinality(waiting) + 1
      BY <2>2, <3>1
    <3> QED
      BY <1>4, <3>2
  <2> QED
    BY <1>1, <2>1, <2>2
<1> QED
  BY <1>1, <1>3, <1>4, <1>5, AdmittedFinite, DepthAssumption DEF BacklogBounded, TypeOK

LEMMA BacklogNext == KeyInv /\ KeyInv' /\ BacklogBounded /\ [Next]_vars => BacklogBounded'
<1> SUFFICES ASSUME TypeOK, TypeOK', BacklogBounded, [Next]_vars
             PROVE  BacklogBounded'
  BY DEF KeyInv
<1>1. CASE UNCHANGED vars \/ QueueChanges
  BY <1>1 DEF vars, QueueChanges, BacklogBounded, Admitted
<1>2. ASSUME NEW r \in Requests, Die(r) \/ Process(r) \/ RemoveRow(r)
      PROVE  BacklogBounded'
  <2>1. waiting' \subseteq waiting /\ UNCHANGED peak
    BY <1>2 DEF Die, Process, RemoveRow
  <2>2. Admitted' \subseteq Admitted
    BY <1>2 DEF Die, Process, RemoveRow, GoesTo, Admitted, TypeOK
  <2> QED
    BY <2>1, <2>2, BacklogShrinks
<1>3. ASSUME NEW r \in Requests, RequestNext(r), ~Admit(r), ~Enqueue(r), ~EnqueueFails(r)
      PROVE  BacklogBounded'
  <2> USE DEF IsAt, GoesTo, Answers, QueueUnchanged, Admitted, TypeOK
  <2>1. waiting' = waiting /\ peak' = peak
    BY <1>3 DEF RequestNext, CheckRate, RefuseKey, FindExisting, FindNone, NotAdmitted, Receive,
         Insert, AnswerRaced, Store, StoreFails, MarkUnqueued, MarkQueued
  <2>2. \E s \in Pcs : /\ pc' = [pc EXCEPT ![r] = s]
                       /\ s \in {"receiving", "inserting", "storing", "enqueuing"} => r \in Admitted
    <3>1. CASE CheckRate(r) \/ RefuseKey(r) \/ FindExisting(r) \/ FindNone(r) \/ NotAdmitted(r)
      BY <3>1 DEF CheckRate, RefuseKey, FindExisting, FindNone, NotAdmitted, Pcs
    <3>2. CASE Receive(r) \/ Insert(r) \/ Store(r)
      BY <3>2 DEF Receive, Insert, Store, Pcs
    <3>3. CASE AnswerRaced(r) \/ StoreFails(r) \/ MarkUnqueued(r) \/ MarkQueued(r)
      BY <3>3 DEF AnswerRaced, StoreFails, MarkUnqueued, MarkQueued, Pcs
    <3> QED
      BY <1>3, <3>1, <3>2, <3>3 DEF RequestNext
  <2>3. Admitted' \subseteq Admitted
    BY <2>2
  <2> QED
    BY <2>1, <2>3, BacklogShrinks
<1> QED
  BY <1>1, <1>2, <1>3, BacklogAdmit, BacklogEnqueue DEF Next

LEMMA BacklogInit == Init => BacklogBounded
<1> SUFFICES ASSUME Init
             PROVE  BacklogBounded
  OBVIOUS
<1>1. Admitted = {} /\ waiting = {} /\ peak = 0
  BY DEF Init, Admitted
<1> QED
  BY <1>1, FS_EmptySet, DepthAssumption DEF BacklogBounded

-----------------------------------------------------------------------------
(* The theorems.                                                           *)

\* Requests with one idempotency key are answered with one job, for any number
\* of requests that race from the lookup to the unique index.
THEOREM SameJobAlways == Spec => []SameJob
<1>1. KeyInv => SameJob
  <2> SUFFICES ASSUME KeyInv, NEW r \in Requests, NEW s \in Requests,
                      KeyOf[r] = KeyOf[s], KeyOf[r] # NoKey,
                      NEW i \in Requests, NEW j \in Requests,
                      answer[r] = i, answer[s] = j, job[i] # "none", job[j] # "none"
               PROVE  i = j
    BY DEF SameJob
  <2>1. KeyOf[i] = KeyOf[r] /\ KeyOf[j] = KeyOf[r]
    BY DEF KeyInv, AnswerHasKey
  <2> QED
    BY <2>1 DEF KeyInv, OneJobPerKey
<1> QED
  BY <1>1, KeyAlways, PTL

\* The messages of uploads in the list exceed its limit by less than the requests
\* that were between admission and enqueueing together, for any limit, and
\* whatever else comes and goes in the list.  The list as a whole may be longer,
\* by the messages that retries and recovery have sent without asking.
THEOREM BacklogAlwaysBounded == Spec => []BacklogBounded
<1>1. KeyInv /\ KeyInv' /\ BacklogBounded /\ [Next]_vars => BacklogBounded'
  BY BacklogNext
<1> QED
  BY <1>1, BacklogInit, KeyAlways, PTL DEF Spec

\* The intake's state has its types.
THEOREM IntakeTypeCorrect == Spec => []TypeOK
BY TypeInit, TypeNext, PTL DEF Spec
=============================================================================
