------------------------------- MODULE JobLife -------------------------------
(***************************************************************************)
(* What a caller may rely on about a job that is uploaded and processed,   *)
(* as long as nobody retries or recovers it: abstract, without queue,      *)
(* store and sessions.  VideoJobs implements it, Dashboard watches it.     *)
(*                                                                         *)
(* Runs of a job do not overlap and are at most MaxAttempts.  Only a run   *)
(* completes a job.  A handler that raised fails the job, even one that is *)
(* COMPLETED, but never under a run that is at work.  The upload has one   *)
(* verdict to give, and it may come late, on top of what a run has said.   *)
(***************************************************************************)
EXTENDS Naturals

CONSTANTS
  Videos,        \* the jobs
  MaxAttempts    \* VideoJob.max_attempts

ASSUME LifeAttemptsAssumption == MaxAttempts \in Nat \ {0}

VARIABLES
  status,    \* of each job, "none" before its upload
  tries,     \* runs that were begun
  running,   \* jobs with a run at work
  open       \* jobs whose upload has not given its verdict

lifeVars == <<status, tries, running, open>>

LifeStatuses == {"none", "UPLOADED", "QUEUED", "PROCESSING", "COMPLETED", "FAILED"}

LifeTypeOK ==
  /\ status \in [Videos -> LifeStatuses]
  /\ tries \in [Videos -> 0..MaxAttempts]
  /\ running \subseteq Videos /\ open \subseteq Videos

LifeInit ==
  /\ status = [v \in Videos |-> "none"]
  /\ tries = [v \in Videos |-> 0]
  /\ running = {} /\ open = {}

Becomes(v, s) == status' = [status EXCEPT ![v] = s]

Accept(v) ==
  /\ status[v] = "none"
  /\ Becomes(v, "UPLOADED") /\ open' = open \cup {v}
  /\ UNCHANGED <<tries, running>>

\* The verdict of the upload: queued, or not accepted.
Mark(v) ==
  /\ v \in open
  /\ Becomes(v, "QUEUED") \/ Becomes(v, "FAILED")
  /\ open' = open \ {v}
  /\ UNCHANGED <<tries, running>>

\* The upload ends without a verdict.
Abandon(v) ==
  /\ v \in open
  /\ open' = open \ {v}
  /\ UNCHANGED <<status, tries, running>>

\* The job is PROCESSING, unless it was from a run that died and the upload has
\* said QUEUED or FAILED just now.
Begin(v) ==
  /\ v \notin running
  /\ status[v] \in {"UPLOADED", "QUEUED", "PROCESSING", "FAILED"}
  /\ tries[v] < MaxAttempts
  /\ \/ Becomes(v, "PROCESSING")
     \/ status[v] \in {"QUEUED", "FAILED"} /\ UNCHANGED status
  /\ tries' = [tries EXCEPT ![v] = @ + 1]
  /\ running' = running \cup {v}
  /\ UNCHANGED open

Complete(v) ==
  /\ v \in running
  /\ Becomes(v, "COMPLETED")
  /\ running' = running \ {v}
  /\ UNCHANGED <<tries, open>>

\* The run raises, or its process dies.
Lose(v) ==
  /\ v \in running
  /\ running' = running \ {v}
  /\ UNCHANGED <<status, tries, open>>

\* The handler that raised, in its work, before it or after it had completed the
\* job, gives its verdict.
Fail(v) ==
  /\ v \notin running /\ status[v] # "none"
  /\ Becomes(v, "FAILED")
  /\ UNCHANGED <<tries, running, open>>

LifeNext ==
  \E v \in Videos :
    \/ Accept(v) \/ Mark(v) \/ Abandon(v)
    \/ Begin(v) \/ Complete(v) \/ Lose(v) \/ Fail(v)

LifeSpec == LifeInit /\ [][LifeNext]_lifeVars
=============================================================================
