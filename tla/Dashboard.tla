----------------------------- MODULE Dashboard -----------------------------
(***************************************************************************)
(* The page of the dashboard (app/page.tsx) that uploads a video and polls *)
(* the status of its job, next to jobs that live as JobLife says and are   *)
(* retried from the page.                                                  *)
(*                                                                         *)
(* The page asks every two seconds whether or not it has the last answer,  *)
(* and answers arrive in any order.  React runs the effects some time      *)
(* after the state has changed; only a submit, being a click, runs them at *)
(* once.  An effect belongs to the values it was started with (deps); when *)
(* they change it is cancelled, and what it asked for is dropped.          *)
(***************************************************************************)
EXTENDS JobLife

CONSTANTS
  None,       \* null
  Sent,       \* an upload request without its answer
  Failed,     \* the answer to a request that failed
  Polls,      \* bound: status requests in flight, each a slot
  MaxErrors   \* bound: requests that fail

ASSUME DashboardBounds == MaxErrors \in Nat

VARIABLES
  submit,    \* the upload request: None, Sent, or its answer
  upload,    \* state upload: the job, or None
  shown,     \* state status: job and status, or None
  assets,    \* state assets: the job they are of, or None
  polls,     \* the status request in each slot: None, the job asked for, or its answer
  loading,   \* the assets request: None, the job asked for, or its answer
  deps,      \* what the two effects were last run with
  errors     \* failed requests so far

pageVars == <<submit, upload, shown, assets, polls, loading, deps, errors>>
dashboardVars == <<lifeVars, pageVars>>

\* What the API answers about a job, and what the page shows.
Answer == [video : Videos, status : LifeStatuses \ {"none"}]

ASSUME ValuesAssumption ==
  /\ None # Sent /\ None # Failed /\ Sent # Failed
  /\ {None, Sent, Failed} \cap (Videos \cup Answer) = {}
  /\ Videos \cap Answer = {}

\* Variant: a job that is not being processed is done.
TerminalUnlessProcessing(s) == s # None /\ s.status # "PROCESSING"

Terminal(s) == s # None /\ s.status \in {"COMPLETED", "FAILED"}

\* The dependencies of the polling effect and of the assets effect.
Deps(u, s) == [upload |-> u, terminal |-> Terminal(s), status |-> s]

PageTypeOK ==
  /\ LifeTypeOK
  /\ submit \in Answer \cup {None, Sent, Failed}
  /\ upload \in Videos \cup {None}
  /\ shown \in Answer \cup {None}
  /\ assets \in Videos \cup {None}
  /\ polls \in [Polls -> Videos \cup Answer \cup {None, Failed}]
  /\ loading \in Videos \cup Answer \cup {None, Failed}
  /\ deps \in [upload : Videos \cup {None}, terminal : BOOLEAN, status : Answer \cup {None}]
  /\ errors \in 0..MaxErrors

Init ==
  /\ LifeInit
  /\ submit = None /\ upload = None /\ shown = None /\ assets = None
  /\ polls = [p \in Polls |-> None] /\ loading = None
  /\ deps = Deps(None, None) /\ errors = 0

-----------------------------------------------------------------------------
(* The API, as the page meets it.                                          *)

Jobs == {v \in Videos : status[v] # "none"}
Says(v) == [video |-> v, status |-> status[v]]

\* A refusal, an error of the network, 404 or 409.
Fails == errors < MaxErrors /\ errors' = errors + 1

\* POST /videos/upload: a new job, or the one that has the idempotency key.
AnswerSubmit ==
  /\ submit = Sent
  /\ \/ \E v \in Jobs : submit' = Says(v) /\ UNCHANGED errors
     \/ Fails /\ submit' = Failed
  /\ UNCHANGED <<lifeVars, upload, shown, assets, polls, loading, deps>>

\* GET /videos/{id}/status
AnswerPoll(p) ==
  /\ polls[p] \in Videos
  /\ \/ polls' = [polls EXCEPT ![p] = Says(polls[p])] /\ UNCHANGED errors
     \/ Fails /\ polls' = [polls EXCEPT ![p] = Failed]
  /\ UNCHANGED <<lifeVars, submit, upload, shown, assets, loading, deps>>

\* GET /videos/{id}/assets: 409 unless the job is COMPLETED.
AnswerAssets ==
  /\ loading \in Videos
  /\ \/ status[loading] = "COMPLETED" /\ loading' = Says(loading) /\ UNCHANGED errors
     \/ status[loading] # "COMPLETED" /\ loading' = Failed /\ UNCHANGED errors
     \/ Fails /\ loading' = Failed
  /\ UNCHANGED <<lifeVars, submit, upload, shown, assets, polls, deps>>

-----------------------------------------------------------------------------
(* The page.                                                               *)

\* Variant: cancelled is not looked at.
CancelNothing(requests) == requests

\* The answers to a cancelled effect change nothing, whenever they come.
Cancel(requests) == [p \in Polls |-> None]

Polling == deps.upload # None /\ ~deps.terminal

Submit ==
  /\ submit = None
  /\ submit' = Sent
  /\ upload' = None /\ shown' = None /\ assets' = None
  /\ deps' = Deps(None, None) /\ polls' = Cancel(polls) /\ loading' = None
  /\ UNCHANGED <<lifeVars, errors>>

\* setUpload and setStatus with the same body, or setUploadError.
Submitted ==
  /\ submit \in Answer \cup {Failed}
  /\ IF submit \in Answer THEN upload' = submit.video /\ shown' = submit
     ELSE UNCHANGED <<upload, shown>>
  /\ submit' = None
  /\ UNCHANGED <<lifeVars, assets, polls, loading, deps, errors>>

\* Both effects, each if its dependencies have changed.
RunEffects ==
  LET new == Deps(upload, shown)
  IN /\ deps # new
     /\ deps' = new
     /\ polls' = IF <<deps.upload, deps.terminal>> = <<new.upload, new.terminal>>
                 THEN polls ELSE Cancel(polls)
     /\ loading' = IF deps.status = new.status THEN loading
                   ELSE IF new.status # None /\ new.status.status = "COMPLETED"
                        THEN new.status.video ELSE None
     /\ UNCHANGED <<lifeVars, submit, upload, shown, assets, errors>>

\* loadStatus: at once, and by the timer.
Ask(p) ==
  /\ Polling /\ polls[p] = None
  /\ polls' = [polls EXCEPT ![p] = deps.upload]
  /\ UNCHANGED <<lifeVars, submit, upload, shown, assets, loading, deps, errors>>

\* Variant: response.ok is not looked at.
AnsweredUnchecked(p) ==
  /\ polls[p] \in Answer \cup {Failed}
  /\ shown' = polls[p]
  /\ polls' = [polls EXCEPT ![p] = None]
  /\ UNCHANGED <<lifeVars, submit, upload, assets, loading, deps, errors>>

\* setStatus, or setStatusError and another try by the timer.
Answered(p) ==
  /\ polls[p] \in Answer \cup {Failed}
  /\ shown' = IF polls[p] \in Answer THEN polls[p] ELSE shown
  /\ polls' = [polls EXCEPT ![p] = None]
  /\ UNCHANGED <<lifeVars, submit, upload, assets, loading, deps, errors>>

\* setAssets, or setAssetsError; nobody asks again.
AssetsAnswered ==
  /\ loading \in Answer \cup {Failed}
  /\ assets' = IF loading \in Answer THEN loading.video ELSE assets
  /\ loading' = None
  /\ UNCHANGED <<lifeVars, submit, upload, shown, polls, deps, errors>>

\* The page's button for a failed job: it tells the API, and nothing on the
\* page but the list of failed jobs is loaded again.  Left to VideoJobs is a
\* retry of a job that a run or its upload still has in hand.
RetryJob(v) ==
  /\ status[v] = "FAILED" /\ v \notin open \cup running
  /\ Becomes(v, "QUEUED") /\ tries' = [tries EXCEPT ![v] = 0]
  /\ UNCHANGED <<running, open, pageVars>>

-----------------------------------------------------------------------------

ApiNext == AnswerSubmit \/ AnswerAssets \/ \E p \in Polls : AnswerPoll(p)

Next ==
  \/ LifeNext /\ UNCHANGED pageVars
  \/ ApiNext
  \/ Submit \/ Submitted \/ RunEffects \/ AssetsAnswered
  \/ \E p \in Polls : Ask(p) \/ Answered(p)
  \/ \E v \in Videos : RetryJob(v)

Spec == Init /\ [][Next]_dashboardVars

\* Requests are answered, effects run and the timer fires.
Fairness ==
  /\ WF_dashboardVars(AnswerSubmit) /\ WF_dashboardVars(Submitted)
  /\ WF_dashboardVars(AnswerAssets) /\ WF_dashboardVars(AssetsAnswered)
  /\ WF_dashboardVars(RunEffects)
  /\ \A p \in Polls :
       WF_dashboardVars(Ask(p)) /\ WF_dashboardVars(AnswerPoll(p)) /\ WF_dashboardVars(Answered(p))

FairSpec == Spec /\ Fairness

-----------------------------------------------------------------------------
(* Properties.                                                             *)

\* The page shows the status and the assets of the job it uploaded last, and of
\* no job before, in whatever order the answers to its requests arrive.
OwnJobShown ==
  /\ shown # None => shown.video = upload
  /\ assets # None => assets = upload

\* Once the effects of a final status have run, no late answer takes it away.
StoppedIsStill ==
  [][deps.terminal /\ deps = Deps(upload, shown) =>
       shown' = shown \/ (submit = None /\ submit' = Sent)]_dashboardVars

\* A job that is COMPLETED, and that the page is showing, is shown COMPLETED in
\* the end, or else the page has stopped at a FAILED that was not the last word:
\* RQ runs a failed job again, and the page does not ask again (page.tsx:203).
ShownFinal == shown \in [video : Videos, status : {"COMPLETED", "FAILED"}]
PageSettles ==
  \A v \in Videos :
    (upload = v /\ status[v] = "COMPLETED")
      ~> (ShownFinal \/ upload # v \/ status[v] # "COMPLETED")
=============================================================================
