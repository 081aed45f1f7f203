--------------------------- MODULE CleanupBatches ---------------------------
(***************************************************************************)
(* Lifecycle cleanup (POST /jobs/cleanup) as a pass over many jobs: which  *)
(* rows it reads, which of them are candidates, and what one failure does  *)
(* to the others.  JobCleanup has several passes and one candidate, next   *)
(* to all other processes; here these are one step each.                   *)
(*                                                                         *)
(* The query takes the BatchSize rows that were updated longest ago before *)
(* their age and retry_exhausted are looked at, so that rows which are not *)
(* candidates, or cannot be cleaned, take up room in the batch.            *)
(***************************************************************************)
EXTENDS Naturals, Sequences, FiniteSets, SequencesExt

CONSTANTS
  Jobs,          \* the jobs, all in object storage
  BatchSize,     \* the limit of a call, cleanup_batch_size by default
  Undeletable,   \* jobs of which the store always refuses to delete an object
  MaxFaults,     \* bound: other failed deletions, and passes that die
  MaxRetries     \* bound: manual retries

ASSUME JobsAssumption == IsFiniteSet(Jobs)
ASSUME BatchSizeAssumption == BatchSize \in Nat \ {0}
ASSUME UndeletableAssumption == Undeletable \subseteq Jobs
ASSUME BatchBounds == {MaxFaults, MaxRetries} \subseteq Nat

VARIABLES
  status,    \* of each job: "limbo" is FAILED without retry_exhausted
  old,       \* jobs that finished longer ago than the retention of their status
  cleaned,   \* jobs whose cleaned_up_at is set
  noted,     \* jobs with a cleanup_error_message
  order,     \* COMPLETED and FAILED rows that are not cleaned, by updated_at
  objects,   \* what the store holds for each job
  pass,      \* the cleanup pass
  raced,     \* history: jobs retried while the pass had them on its list
  spent      \* how much of each bound has been used

vars == <<status, old, cleaned, noted, order, objects, pass, raced, spent>>

Statuses == {"active", "COMPLETED", "exhausted", "limbo", "removed"}
Objects  == {"raw", "outputs"}

\* todo is what is left of the list, the job in hand first; rows is
\* delete_db_rows; left is what is to be deleted of the job in hand.
Pass == [pc : {"idle", "choosing", "deleting", "noting"}, todo : Seq(Jobs),
         rows : BOOLEAN, left : Seq(Objects)]

Finished == {j \in Jobs : status[j] \in {"COMPLETED", "exhausted", "limbo"}}

TypeOK ==
  /\ status \in [Jobs -> Statuses]
  /\ old \subseteq Jobs /\ cleaned \subseteq Jobs /\ noted \subseteq Jobs
  /\ IsInjective(order) /\ ToSet(order) = Finished \ cleaned
  /\ objects \in [Jobs -> SUBSET Objects]
  /\ pass \in Pass /\ raced \subseteq Jobs
  /\ spent \in [{"faults", "retries"} -> Nat]

IdlePass == [pc |-> "idle", todo |-> <<>>, rows |-> FALSE, left |-> <<>>]

Init ==
  /\ status = [j \in Jobs |-> "active"]
  /\ old = {} /\ cleaned = {} /\ noted = {}
  /\ order = <<>>
  /\ objects = [j \in Jobs |-> {"raw"}]
  /\ pass = IdlePass /\ raced = {}
  /\ spent = [bound \in {"faults", "retries"} |-> 0]

Spend(bound, limit) ==
  /\ spent[bound] < limit
  /\ spent' = [spent EXCEPT ![bound] = @ + 1]

-----------------------------------------------------------------------------
(* The life of a job as far as cleanup can see it.                         *)

\* Variant: the row keeps its old place as well.
TouchAgain(j) == Append(order, j)

\* An UPDATE sets updated_at: the row is the last by that order.
Touch(j) == Append(RemoveFirst(order, j), j)

Finish(j) ==
  /\ status[j] = "active"
  /\ \E s \in {"COMPLETED", "exhausted", "limbo"} :
       /\ s = "COMPLETED" => "raw" \in objects[j]
       /\ status' = [status EXCEPT ![j] = s]
       /\ objects' = IF s = "COMPLETED" THEN [objects EXCEPT ![j] = Objects] ELSE objects
  /\ order' = IF j \in cleaned THEN order ELSE Touch(j)
  /\ UNCHANGED <<old, cleaned, noted, pass, raced, spent>>

GrowOld(j) ==
  /\ j \in Finished \ old
  /\ old' = old \cup {j}
  /\ UNCHANGED <<status, cleaned, noted, order, objects, pass, raced, spent>>

\* Manual retry of a FAILED job; its failed_at is reset.
Retry(j) ==
  /\ status[j] \in {"exhausted", "limbo"}
  /\ Spend("retries", MaxRetries)
  /\ status' = [status EXCEPT ![j] = "active"]
  /\ old' = old \ {j}
  /\ order' = RemoveFirst(order, j)
  /\ raced' = IF j \in ToSet(pass.todo) THEN raced \cup {j} ELSE raced
  /\ UNCHANGED <<cleaned, noted, objects, pass>>

-----------------------------------------------------------------------------
(* The pass.                                                               *)

\* Variant: one row less is read.
BatchOneShort == SubSeq(order, 1, Min({BatchSize - 1, Len(order)}))

\* _candidate_jobs: the rows the query returns.
Batch == SubSeq(order, 1, Min({BatchSize, Len(order)}))

\* Variant: the retention is not looked at.
CandidateAnyAge(j) == status[j] \in {"COMPLETED", "exhausted"}

\* is_cleanup_candidate, of a row the query returned.
IsCandidate(j) == status[j] \in {"COMPLETED", "exhausted"} /\ j \in old

\* The keys that the row names: completion records those of the outputs.
Keys(j) ==
  IF j \in cleaned THEN <<>>
  ELSE IF status[j] = "COMPLETED" THEN <<"raw", "outputs">> ELSE <<"raw">>

PassUnchanged == UNCHANGED <<status, old, cleaned, noted, order, objects, raced, spent>>

InHand == Head(pass.todo)
NextInList ==
  pass' = IF Len(pass.todo) = 1 THEN IdlePass
          ELSE [pass EXCEPT !.pc = "choosing", !.todo = Tail(@), !.left = <<>>]

Before(j, k) == \E m, n \in DOMAIN order : m < n /\ order[m] = j /\ order[n] = k

\* The candidates of the batch, in its order.
IsCandidateList(list) == \A i, k \in DOMAIN list : i < k => Before(list[i], list[k])

\* The list is made, and the first job on it is taken as it was read.
Begin ==
  /\ pass.pc = "idle"
  /\ \E candidates \in SetToSeqs({j \in ToSet(Batch) : IsCandidate(j)}), delete \in BOOLEAN :
       /\ candidates # <<>> /\ IsCandidateList(candidates)
       /\ pass' = [pc |-> "deleting", todo |-> candidates, rows |-> delete,
                   left |-> Keys(Head(candidates))]
  /\ raced' = {}
  /\ UNCHANGED <<status, old, cleaned, noted, order, objects, spent>>

\* A later job is loaded anew; nothing of it is checked again.
Choose ==
  /\ pass.pc = "choosing"
  /\ pass' = [pass EXCEPT !.pc = "deleting", !.left = Keys(InHand)]
  /\ PassUnchanged

DeleteObject ==
  /\ pass.pc = "deleting" /\ pass.left # <<>>
  /\ InHand \notin Undeletable
  /\ objects' = [objects EXCEPT ![InHand] = @ \ {Head(pass.left)}]
  /\ pass' = [pass EXCEPT !.left = Tail(@)]
  /\ UNCHANGED <<status, old, cleaned, noted, order, raced, spent>>

\* The rest of the job's objects are left alone.
DeleteFails ==
  /\ pass.pc = "deleting" /\ pass.left # <<>>
  /\ IF InHand \in Undeletable THEN UNCHANGED spent ELSE Spend("faults", MaxFaults)
  /\ pass' = [pass EXCEPT !.pc = "noting"]
  /\ UNCHANGED <<status, old, cleaned, noted, order, objects, raced>>

\* The message is committed, and the loop goes on.  A message equal to the one
\* the row has is no UPDATE: the row keeps its place in the order.
NoteFailure ==
  /\ pass.pc = "noting"
  /\ \/ InHand \in noted /\ UNCHANGED order
     \/ order' = IF InHand \in ToSet(order) THEN Touch(InHand) ELSE order
  /\ noted' = noted \cup {InHand}
  /\ NextInList
  /\ UNCHANGED <<status, old, cleaned, objects, raced, spent>>

\* The row is marked cleaned, or deleted; whatever it has become, no longer
\* one for the query.
CleanRow ==
  /\ pass.pc = "deleting" /\ pass.left = <<>>
  /\ IF pass.rows
     THEN status' = [status EXCEPT ![InHand] = "removed"] /\ UNCHANGED cleaned
     ELSE cleaned' = cleaned \cup {InHand} /\ UNCHANGED status
  /\ order' = RemoveFirst(order, InHand)
  /\ noted' = noted \ {InHand}
  /\ NextInList
  /\ UNCHANGED <<old, objects, raced, spent>>

PassDies ==
  /\ pass.pc # "idle"
  /\ Spend("faults", MaxFaults)
  /\ pass' = IdlePass
  /\ UNCHANGED <<status, old, cleaned, noted, order, objects, raced>>

-----------------------------------------------------------------------------

PassNext ==
  Begin \/ Choose \/ DeleteObject \/ DeleteFails \/ NoteFailure \/ CleanRow

Next ==
  \/ \E j \in Jobs : Finish(j) \/ GrowOld(j) \/ Retry(j)
  \/ PassNext \/ PassDies

Spec == Init /\ [][Next]_vars

\* Somebody calls the cleanup again and again, and the clock runs.
Fairness == WF_vars(PassNext) /\ \A j \in Jobs : WF_vars(GrowOld(j))
FairSpec == Spec /\ Fairness

-----------------------------------------------------------------------------
(* Properties.                                                             *)

\* Objects are deleted only of a job past its retention, or of one that an
\* administrator retried while the pass had it on its list.
RetentionKept ==
  [][\A j \in Jobs : objects[j] \ objects'[j] # {} => j \in old \cup raced]_vars

\* Rows that stay in the order for good: the query reads them every time.
Blockers ==
  {j \in Finished \ cleaned : status[j] = "limbo" \/ j \in Undeletable}

\* As long as the batch is larger than the number of blockers, it reaches every
\* job that is due, however many rows were updated before it and although the
\* limit is applied before the retention is looked at.
Due(j) == j \in old \ cleaned /\ status[j] \in {"COMPLETED", "exhausted"}
BatchReaches ==
  [](Cardinality(Blockers) < BatchSize) =>
    \A j \in Jobs \ Undeletable : Due(j) ~> ~Due(j)
=============================================================================
