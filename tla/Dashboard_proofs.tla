--------------------------- MODULE Dashboard_proofs ---------------------------
(***************************************************************************)
(* Proofs about Dashboard, for every set of jobs, every number of status   *)
(* requests in flight and every number of failed requests.                 *)
(***************************************************************************)
EXTENDS Dashboard, TLAPS

-----------------------------------------------------------------------------
(* What the page has asked for, and what it shows, is of one job.          *)

\* A submit empties the page and cancels both effects, and until its answer
\* is there nothing else happens on the page.
SubmitIsAlone ==
  submit # None => /\ upload = None /\ shown = None /\ assets = None
                   /\ deps = Deps(None, None)
                   /\ polls = Cancel(polls) /\ loading = None

\* What is in flight was asked by the effect that is in force, for the job
\* that was uploaded last; without such an effect nothing is.
PollsAreOwn ==
  \A p \in Polls :
    /\ polls[p] # None => Polling
    /\ polls[p] \in Videos => polls[p] = deps.upload
    /\ polls[p] \in Answer => polls[p].video = deps.upload

LoadingIsOwn ==
  /\ loading \in Videos => loading = upload
  /\ loading \in Answer => loading.video = upload

\* An effect may not have run yet, but it has not run for another job.
EffectIsOwn == deps.upload \in {None, upload}

\* The API has answered with jobs only, and a job does not go away.
UploadExists ==
  /\ upload # None => status[upload] # "none"
  /\ submit \in Answer => status[submit.video] # "none"

PageInv ==
  /\ PageTypeOK /\ OwnJobShown
  /\ SubmitIsAlone /\ PollsAreOwn /\ LoadingIsOwn /\ EffectIsOwn /\ UploadExists

-----------------------------------------------------------------------------
(* The jobs.                                                               *)

LEMMA LifeType ==
  ASSUME LifeTypeOK, LifeNext \/ UNCHANGED lifeVars
  PROVE  LifeTypeOK'
<1>1. CASE UNCHANGED lifeVars
  BY <1>1 DEF lifeVars, LifeTypeOK
<1>2. ASSUME NEW v \in Videos,
             Accept(v) \/ Mark(v) \/ Abandon(v) \/ Begin(v) \/ Complete(v) \/ Lose(v) \/ Fail(v)
      PROVE  LifeTypeOK'
  <2> USE LifeAttemptsAssumption DEF LifeTypeOK, LifeStatuses, Becomes
  <2>1. CASE Accept(v) \/ Mark(v) \/ Abandon(v)
    BY <2>1 DEF Accept, Mark, Abandon
  <2>2. CASE Begin(v)
    BY <2>2 DEF Begin
  <2>3. CASE Complete(v) \/ Lose(v) \/ Fail(v)
    BY <2>3 DEF Complete, Lose, Fail
  <2> QED
    BY <1>2, <2>1, <2>2, <2>3
<1> QED
  BY <1>1, <1>2 DEF LifeNext

LEMMA RetryJobType ==
  ASSUME LifeTypeOK, NEW v \in Videos, RetryJob(v)
  PROVE  LifeTypeOK'
BY LifeAttemptsAssumption DEF RetryJob, Becomes, LifeTypeOK, LifeStatuses

\* What the API says about a job is an answer about that job.
LEMMA SaysType ==
  ASSUME LifeTypeOK, NEW v \in Videos, status[v] # "none"
  PROVE  Says(v) \in Answer /\ Says(v).video = v
BY DEF Says, Answer, LifeTypeOK

LEMMA DepsType ==
  ASSUME NEW u \in Videos \cup {None}, NEW s \in Answer \cup {None}
  PROVE  Deps(u, s) \in [upload : Videos \cup {None}, terminal : BOOLEAN,
                         status : Answer \cup {None}]
<1>1. Terminal(s) \in BOOLEAN
  BY DEF Terminal
<1> QED
  BY <1>1 DEF Deps

\* A job does not go away.
LEMMA JobsStay ==
  ASSUME LifeTypeOK, NEW v \in Videos, status[v] # "none",
         LifeNext \/ (\E x \in Videos : RetryJob(x)) \/ UNCHANGED status
  PROVE  status'[v] # "none"
<1>1. CASE LifeNext
  <2>1. ASSUME NEW x \in Videos,
               Accept(x) \/ Mark(x) \/ Abandon(x) \/ Begin(x) \/ Complete(x) \/ Lose(x) \/ Fail(x)
        PROVE  status'[v] # "none"
    BY <2>1 DEF Accept, Mark, Abandon, Begin, Complete, Lose, Fail, Becomes, LifeTypeOK
  <2> QED
    BY <1>1, <2>1 DEF LifeNext
<1>2. CASE \E x \in Videos : RetryJob(x)
  BY <1>2 DEF RetryJob, Becomes, LifeTypeOK
<1> QED
  BY <1>1, <1>2

-----------------------------------------------------------------------------
(* One lemma per kind of step.                                             *)

\* The jobs go on, and the page does not see it.
LEMMA JobsStep ==
  ASSUME PageInv, (LifeNext /\ UNCHANGED pageVars) \/ (\E v \in Videos : RetryJob(v))
  PROVE  PageInv'
<1>1. UNCHANGED pageVars
  BY DEF RetryJob
<1>2. LifeTypeOK /\ LifeTypeOK'
  BY LifeType, RetryJobType DEF PageInv, PageTypeOK
<1>3. PageTypeOK'
  BY <1>1, <1>2 DEF PageInv, PageTypeOK, pageVars
<1>4. OwnJobShown' /\ SubmitIsAlone' /\ PollsAreOwn' /\ LoadingIsOwn' /\ EffectIsOwn'
  BY <1>1 DEF PageInv, pageVars, OwnJobShown, SubmitIsAlone, PollsAreOwn, LoadingIsOwn,
              EffectIsOwn, Polling, Cancel
<1>5. UploadExists'
  <2>1. upload # None => upload \in Videos
    BY DEF PageInv, PageTypeOK
  <2>2. submit \in Answer => submit.video \in Videos
    BY DEF Answer
  <2> QED
    BY <1>1, <1>2, <2>1, <2>2, JobsStay DEF PageInv, pageVars, UploadExists
<1> QED
  BY <1>3, <1>4, <1>5 DEF PageInv

LEMMA AnswerStep ==
  ASSUME PageInv, ApiNext
  PROVE  PageInv'
<1> USE ValuesAssumption, DashboardBounds
<1>0. PageTypeOK /\ LifeTypeOK
  BY DEF PageInv, PageTypeOK
<1>1. /\ UNCHANGED <<lifeVars, upload, shown, assets, deps>>
      /\ LifeTypeOK' /\ errors' \in 0..MaxErrors
  BY <1>0 DEF ApiNext, AnswerSubmit, AnswerPoll, AnswerAssets, Fails, PageTypeOK, LifeTypeOK,
              lifeVars
<1>2. OwnJobShown' /\ EffectIsOwn'
  BY <1>1 DEF PageInv, OwnJobShown, EffectIsOwn
<1>3. CASE AnswerSubmit
  <2>1. UNCHANGED <<polls, loading>> /\ submit = Sent
    BY <1>3 DEF AnswerSubmit
  <2>2. submit' = Failed \/ \E v \in Jobs : submit' = Says(v)
    BY <1>3 DEF AnswerSubmit
  <2>3. /\ submit' \in Answer \cup {Failed}
        /\ submit' \in Answer => status[submit'.video] # "none"
    BY <1>0, <2>2, SaysType DEF Jobs
  <2>4. PageTypeOK'
    BY <1>0, <1>1, <2>1, <2>3 DEF PageTypeOK, lifeVars
  <2>5. SubmitIsAlone' /\ PollsAreOwn' /\ LoadingIsOwn'
    BY <1>1, <2>1 DEF PageInv, SubmitIsAlone, PollsAreOwn, LoadingIsOwn, Polling, Cancel
  <2>6. UploadExists'
    BY <1>1, <2>3 DEF PageInv, UploadExists, lifeVars
  <2> QED
    BY <1>2, <2>4, <2>5, <2>6 DEF PageInv
<1>4. ASSUME NEW p \in Polls, AnswerPoll(p)
      PROVE  PageInv'
  <2>1. /\ UNCHANGED <<submit, loading>> /\ polls[p] \in Videos
        /\ polls[p] = deps.upload /\ Polling
    BY <1>4 DEF AnswerPoll, PageInv, PollsAreOwn
  <2>2. deps.upload = upload /\ status[upload] # "none" /\ submit = None
    BY <2>1 DEF PageInv, EffectIsOwn, UploadExists, SubmitIsAlone, Deps
  <2>3. \E a \in Answer \cup {Failed} :
          /\ polls' = [polls EXCEPT ![p] = a]
          /\ a \in Answer => a.video = deps.upload
    BY <1>0, <1>4, <2>1, <2>2, SaysType DEF AnswerPoll
  <2>4. PageTypeOK'
    BY <1>0, <1>1, <2>1, <2>3 DEF PageTypeOK, lifeVars
  <2>5. PollsAreOwn'
    BY <1>0, <1>1, <2>1, <2>3 DEF PageInv, PollsAreOwn, Polling, PageTypeOK
  <2>6. SubmitIsAlone' /\ LoadingIsOwn' /\ UploadExists'
    BY <1>1, <2>1, <2>2 DEF PageInv, SubmitIsAlone, LoadingIsOwn, UploadExists, lifeVars
  <2> QED
    BY <1>2, <2>4, <2>5, <2>6 DEF PageInv
<1>5. CASE AnswerAssets
  <2>1. UNCHANGED <<submit, polls>> /\ loading \in Videos
    BY <1>5 DEF AnswerAssets
  <2>2. submit = None /\ loading = upload
    BY <2>1 DEF PageInv, SubmitIsAlone, LoadingIsOwn
  <2>3. /\ loading' \in Answer \cup {Failed}
        /\ loading' \in Answer => loading'.video = upload
    BY <1>0, <1>5, <2>1, <2>2, SaysType DEF AnswerAssets
  <2>4. PageTypeOK'
    BY <1>0, <1>1, <2>1, <2>3 DEF PageTypeOK, lifeVars
  <2>5. LoadingIsOwn'
    BY <1>1, <2>3 DEF LoadingIsOwn
  <2>6. SubmitIsAlone' /\ PollsAreOwn' /\ UploadExists'
    BY <1>1, <2>1, <2>2 DEF PageInv, SubmitIsAlone, PollsAreOwn, Polling, UploadExists,
                            lifeVars
  <2> QED
    BY <1>2, <2>4, <2>5, <2>6 DEF PageInv
<1> QED
  BY <1>3, <1>4, <1>5 DEF ApiNext

LEMMA SubmitStep ==
  ASSUME PageInv, Submit \/ Submitted
  PROVE  PageInv'
<1> USE ValuesAssumption, DashboardBounds
<1>0. PageTypeOK /\ UNCHANGED <<status, tries, running, open, errors>>
  BY DEF PageInv, PageTypeOK, Submit, Submitted, lifeVars
<1>1. Polling = FALSE \/ submit = None
  BY DEF PageInv, SubmitIsAlone, Polling, Deps
<1>2. CASE Submit
  <2>1. Deps(None, None) = deps' /\ deps'.upload = None
    BY <1>2 DEF Submit, Deps
  <2>2. PageTypeOK'
    BY <1>0, <1>2, <2>1, DepsType DEF Submit, PageTypeOK, LifeTypeOK, Cancel
  <2>3. PollsAreOwn'
    BY <1>2 DEF Submit, PollsAreOwn, Cancel
  <2> QED
    BY <1>0, <1>2, <2>1, <2>2, <2>3
       DEF Submit, PageInv, OwnJobShown, SubmitIsAlone, LoadingIsOwn, EffectIsOwn,
           UploadExists, Cancel
<1>3. CASE Submitted
  <2>1. /\ submit # None /\ UNCHANGED <<assets, polls, loading, deps>> /\ submit' = None
        /\ upload = None /\ shown = None /\ assets = None /\ deps.upload = None
        /\ polls = Cancel(polls) /\ loading = None
    BY <1>3 DEF Submitted, PageInv, SubmitIsAlone, Deps
  <2>2. \/ upload' = upload /\ shown' = shown
        \/ submit \in Answer /\ upload' = submit.video /\ shown' = submit
    BY <1>3 DEF Submitted
  <2>3. PageTypeOK'
    BY <1>0, <2>1, <2>2 DEF PageTypeOK, LifeTypeOK, Answer
  <2>4. \A p \in Polls : polls'[p] = None
    BY <2>1 DEF Cancel
  <2>5. OwnJobShown' /\ EffectIsOwn' /\ UploadExists'
    BY <1>0, <2>1, <2>2 DEF PageInv, OwnJobShown, EffectIsOwn, UploadExists
  <2>6. SubmitIsAlone' /\ PollsAreOwn' /\ LoadingIsOwn'
    BY <2>1, <2>4 DEF SubmitIsAlone, PollsAreOwn, LoadingIsOwn
  <2> QED
    BY <2>3, <2>5, <2>6 DEF PageInv
<1> QED
  BY <1>2, <1>3

LEMMA EffectsStep ==
  ASSUME PageInv, RunEffects
  PROVE  PageInv'
<1> USE ValuesAssumption, DashboardBounds
<1>1. /\ PageTypeOK /\ UNCHANGED <<lifeVars, submit, upload, shown, assets, errors>>
      /\ deps # Deps(upload, shown) /\ deps' = Deps(upload, shown)
  BY DEF PageInv, RunEffects
<1>2. submit = None
  BY <1>1 DEF PageInv, SubmitIsAlone
<1>3. /\ deps' \in [upload : Videos \cup {None}, terminal : BOOLEAN, status : Answer \cup {None}]
      /\ deps'.upload = upload
  BY <1>1, DepsType DEF PageTypeOK, Deps
<1>4. \/ polls' = Cancel(polls)
      \/ polls' = polls /\ deps'.upload = deps.upload /\ deps'.terminal = deps.terminal
  BY <1>1 DEF RunEffects
<1>5. \/ loading' = loading
      \/ loading' = None
      \/ shown # None /\ loading' = shown.video
  BY DEF RunEffects, Deps
<1>6. loading' = loading \/ loading' = None \/ (loading' \in Videos /\ loading' = upload)
  BY <1>1, <1>5 DEF PageInv, OwnJobShown, PageTypeOK, Answer
<1>7. PageTypeOK'
  BY <1>1, <1>3, <1>4, <1>6 DEF PageTypeOK, LifeTypeOK, lifeVars, Cancel
<1>8. PollsAreOwn'
  BY <1>4 DEF PageInv, PollsAreOwn, Polling, Cancel
<1>9. LoadingIsOwn'
  BY <1>1, <1>6 DEF PageInv, LoadingIsOwn
<1>10. OwnJobShown' /\ SubmitIsAlone' /\ EffectIsOwn' /\ UploadExists'
  BY <1>1, <1>2, <1>3 DEF PageInv, OwnJobShown, SubmitIsAlone, EffectIsOwn, UploadExists,
                          lifeVars
<1> QED
  BY <1>7, <1>8, <1>9, <1>10 DEF PageInv

LEMMA PageStep ==
  ASSUME PageInv, AssetsAnswered \/ (\E p \in Polls : Ask(p) \/ Answered(p))
  PROVE  PageInv'
<1> USE ValuesAssumption, DashboardBounds
<1>0. /\ PageTypeOK /\ UNCHANGED <<lifeVars, submit, upload, deps, errors>>
  BY DEF PageInv, AssetsAnswered, Ask, Answered
<1>1. EffectIsOwn' /\ UploadExists'
  BY <1>0 DEF PageInv, EffectIsOwn, UploadExists, lifeVars
<1>2. CASE AssetsAnswered
  <2>1. /\ UNCHANGED <<shown, polls>> /\ loading # None /\ loading' = None
        /\ assets' = assets \/ (loading \in Answer /\ assets' = loading.video)
    BY <1>2 DEF AssetsAnswered
  <2>2. submit = None
    BY <2>1 DEF PageInv, SubmitIsAlone
  <2>3. PageTypeOK'
    BY <1>0, <2>1 DEF PageTypeOK, LifeTypeOK, lifeVars, Answer
  <2>4. OwnJobShown'
    BY <1>0, <2>1 DEF PageInv, OwnJobShown, LoadingIsOwn
  <2> QED
    BY <1>0, <1>1, <2>1, <2>2, <2>3, <2>4
       DEF PageInv, SubmitIsAlone, PollsAreOwn, Polling, LoadingIsOwn
<1>3. ASSUME NEW p \in Polls, Ask(p)
      PROVE  PageInv'
  <2>1. /\ UNCHANGED <<shown, assets, loading>>
        /\ deps.upload # None /\ Polling
        /\ polls' = [polls EXCEPT ![p] = deps.upload]
    BY <1>3 DEF Ask, Polling
  <2>2. submit = None /\ deps.upload \in Videos
    BY <1>0, <2>1 DEF PageInv, SubmitIsAlone, Deps, PageTypeOK
  <2>3. PageTypeOK'
    BY <1>0, <2>1, <2>2 DEF PageTypeOK, LifeTypeOK, lifeVars
  <2>4. PollsAreOwn'
    BY <1>0, <2>1, <2>2 DEF PageInv, PollsAreOwn, Polling, PageTypeOK
  <2> QED
    BY <1>0, <1>1, <2>1, <2>2, <2>3, <2>4
       DEF PageInv, OwnJobShown, SubmitIsAlone, LoadingIsOwn
<1>4. ASSUME NEW p \in Polls, Answered(p)
      PROVE  PageInv'
  <2>1. /\ UNCHANGED <<assets, loading>>
        /\ polls[p] # None /\ polls' = [polls EXCEPT ![p] = None]
        /\ shown' = shown \/ (polls[p] \in Answer /\ shown' = polls[p])
    BY <1>4 DEF Answered
  <2>2. Polling /\ deps.upload = upload
    BY <2>1 DEF PageInv, PollsAreOwn, Polling, EffectIsOwn
  <2>3. submit = None
    BY <2>1, <2>2 DEF PageInv, SubmitIsAlone, Polling, Deps
  <2>4. PageTypeOK'
    BY <1>0, <2>1 DEF PageTypeOK, LifeTypeOK, lifeVars
  <2>5. OwnJobShown'
    BY <1>0, <2>1, <2>2 DEF PageInv, OwnJobShown, PollsAreOwn
  <2>6. PollsAreOwn'
    BY <1>0, <2>1 DEF PageInv, PollsAreOwn, Polling, PageTypeOK
  <2> QED
    BY <1>0, <1>1, <2>1, <2>3, <2>4, <2>5, <2>6 DEF PageInv, SubmitIsAlone, LoadingIsOwn
<1> QED
  BY <1>2, <1>3, <1>4

LEMMA InitPage == Init => PageInv
<1> SUFFICES ASSUME Init
             PROVE  PageInv
  OBVIOUS
<1> USE ValuesAssumption, DashboardBounds, LifeAttemptsAssumption
<1>1. LifeTypeOK
  BY DEF Init, LifeInit, LifeTypeOK, LifeStatuses
<1>2. deps \in [upload : Videos \cup {None}, terminal : BOOLEAN, status : Answer \cup {None}]
  BY DepsType DEF Init
<1>3. PageTypeOK
  BY <1>1, <1>2 DEF Init, PageTypeOK
<1>4. deps.upload = None
  BY DEF Init, Deps
<1> QED
  BY <1>3, <1>4 DEF Init, PageInv, OwnJobShown, SubmitIsAlone, PollsAreOwn, LoadingIsOwn,
                    EffectIsOwn, UploadExists

LEMMA NextPage == PageInv /\ [Next]_dashboardVars => PageInv'
<1> SUFFICES ASSUME PageInv, [Next]_dashboardVars
             PROVE  PageInv'
  OBVIOUS
<1>1. CASE UNCHANGED dashboardVars
  BY <1>1 DEF dashboardVars, lifeVars, pageVars, PageInv, PageTypeOK, LifeTypeOK, OwnJobShown,
              SubmitIsAlone, PollsAreOwn, LoadingIsOwn, EffectIsOwn, UploadExists, Polling,
              Cancel
<1> QED
  BY <1>1, JobsStep, AnswerStep, SubmitStep, EffectsStep, PageStep DEF Next

-----------------------------------------------------------------------------
(* The theorems.                                                           *)

LEMMA PageAlways == Spec => []PageInv
BY InitPage, NextPage, PTL DEF Spec

\* The page shows the status and the assets of the job it uploaded last, in
\* whatever order any number of answers arrive.
THEOREM OwnJobAlwaysShown == Spec => []OwnJobShown
<1>1. PageInv => OwnJobShown
  BY DEF PageInv
<1> QED
  BY <1>1, PageAlways, PTL

\* A final status that the effects have seen stays until the next upload: there
\* is no effect in force whose answer could change it, nor an answer to an
\* upload under way.
THEOREM StoppedStaysStill == Spec => StoppedIsStill
<1> DEFINE Stays == deps.terminal /\ deps = Deps(upload, shown) =>
                      shown' = shown \/ (submit = None /\ submit' = Sent)
<1>1. PageInv /\ [Next]_dashboardVars => [Stays]_dashboardVars
  <2> SUFFICES ASSUME PageInv, Next, deps.terminal, shown' # shown,
                      ~(submit = None /\ submit' = Sent)
               PROVE  FALSE
    OBVIOUS
  <2>1. ~Polling
    BY DEF Polling
  <2>2. submit = None
    <3>1. Terminal(None) = FALSE
      BY DEF Terminal
    <3>2. Deps(None, None).terminal = FALSE
      BY <3>1 DEF Deps
    <3> QED
      BY <3>2 DEF PageInv, SubmitIsAlone
  <2>3. \A p \in Polls : polls[p] = None
    BY <2>1 DEF PageInv, PollsAreOwn
  <2>4. ~Submit /\ ~Submitted
    BY <2>2, ValuesAssumption DEF Submit, Submitted
  <2>5. \A p \in Polls : ~Answered(p)
    BY <2>3, ValuesAssumption DEF Answered
  <2> QED
    BY <2>4, <2>5 DEF Next, pageVars, ApiNext, AnswerSubmit, AnswerPoll, AnswerAssets,
                      RunEffects, AssetsAnswered, Ask, RetryJob
<1> QED
  BY <1>1, PageAlways, PTL DEF Spec, StoppedIsStill

\* The page's state has its types.
THEOREM PageTypeCorrect == Spec => []PageTypeOK
<1>1. PageInv => PageTypeOK
  BY DEF PageInv
<1> QED
  BY <1>1, PageAlways, PTL
=============================================================================
