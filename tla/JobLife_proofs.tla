---------------------------- MODULE JobLife_proofs ----------------------------
(***************************************************************************)
(* VideoJobs implements JobLife: proofs about jobs that nobody retries or  *)
(* recovers, for every set of videos and workers, every max_attempts and   *)
(* any number of deaths, of exceptions before a claim or after a           *)
(* completion, and of lost answers.                                        *)
(*                                                                         *)
(* No row is ever locked: the argument is that a video has one message or  *)
(* one handler at a time (OneRun), so that only the upload request commits *)
(* under a handler's snapshot, once, and only the status (Agrees).  The    *)
(* invariant says so of rows, messages and handlers one by one, and holds  *)
(* until the first manual retry.                                           *)
(***************************************************************************)
EXTENDS VideoJobs_proofs, FiniteSetTheorems

-----------------------------------------------------------------------------
(* The invariant.                                                          *)

Busy(w) == worker[w].pc # "idle"
Clean   == spent["faults"] = 0

\* Before the claim that counts the run, and from there to the commit that ends it.
Unclaimed == {"loading", "claiming"}
AtWork    == Processing \cup {"failing", "marking"}

\* A video has at most one message, at most one handler, and not both.
OneRun ==
  /\ \A i, j \in DOMAIN queue : queue[i].video = queue[j].video => i = j
  /\ \A w, x \in Workers : Busy(w) /\ Busy(x) /\ worker[w].video = worker[x].video => w = x
  /\ \A i \in DOMAIN queue, w \in Workers : Busy(w) => queue[i].video # worker[w].video

\* The attempts counted and those still owed: as many as are due, or fewer when
\* a fault has taken some.
Fits(n, due, clean) == n <= due /\ (clean => n = due)

MessageFits(row, message, clean) ==
  row # NoRow /\ Fits(row.attempts + message.left + 1, MaxAttempts, clean)

\* A snapshot is the row, but for the status that the upload has written since.
Agrees(row, snap, up) ==
  /\ snap.attempts = row.attempts /\ snap.exhausted = row.exhausted
  /\ snap.status = row.status \/ (up = "done" /\ row.status \in {"QUEUED", "FAILED"})

\* A handler h at its video's row; up is where the upload is.
HandlerFits(row, h, up, clean) ==
  /\ row # NoRow
  /\ Fits(row.attempts + h.left,
          IF h.pc \in Unclaimed THEN MaxAttempts - 1 ELSE MaxAttempts, clean)
  /\ h.pc \in Holding => Agrees(row, h.snap, up)
  /\ h.pc \in Processing \cup {"claiming"} => row.status # "COMPLETED"
  /\ h.pc \in Processing \cap Holding => h.snap.status # "COMPLETED"
  /\ h.pc = "deciding" => row.exhausted = (row.attempts >= MaxAttempts)
  /\ h.pc = "raising" => row.attempts < MaxAttempts
  /\ clean /\ h.pc \in {"completed", "returning"} /\ row.status = "FAILED" => row.exhausted

\* The upload has sent no message: none could be lost either.
NotSent(up, clean) ==
  up \in {"none", "storing", "saving", "enqueuing"} \/ (clean /\ up = "refusing")

UploadFits(row, up, clean) ==
  /\ row = NoRow <=> up = "none"
  /\ row # NoRow => row.attempts <= MaxAttempts
  /\ row # NoRow /\ NotSent(up, clean) => row.status = "UPLOADED" /\ row.attempts = 0

NoneSent(v) ==
  /\ \A i \in DOMAIN queue : queue[i].video # v
  /\ \A w \in Workers : Busy(w) => worker[w].video # v

\* A failed job that has attempts left.
Unfinished(row) == row.status = "FAILED" /\ row.attempts > 0 /\ ~row.exhausted

FailedGoesOn ==
  Clean => \A v \in Videos :
             rows[v] # NoRow /\ Unfinished(rows[v]) => ~NoneSent(v)

Runs ==
  /\ OneRun
  /\ \A i \in DOMAIN queue : MessageFits(rows[queue[i].video], queue[i], Clean)
  /\ \A w \in Workers :
       Busy(w) => HandlerFits(rows[worker[w].video], worker[w], upload[worker[w].video], Clean)
  /\ \A v \in Videos : UploadFits(rows[v], upload[v], Clean)
  /\ \A v \in Videos : NotSent(upload[v], Clean) => NoneSent(v)
  /\ FailedGoesOn

Unretried == spent["retries"] = 0

RunsInv ==
  /\ Inv
  /\ Unretried => Runs /\ \A a \in Admins : retry[a].pc = "idle"

-----------------------------------------------------------------------------
(* What a handler's steps do to its own row and state.                     *)

LEMMA LoadFits ==
  ASSUME NEW row \in Row, NEW h \in WorkerState, NEW g \in WorkerState, NEW up, NEW clean \in BOOLEAN,
         row # NoRow, HandlerFits(row, h, up, clean), h.pc = "loading", ~Skips(row),
         g.pc = "claiming", g.snap = row, g.left = h.left
  PROVE  HandlerFits(row, g, up, clean)
BY DEF HandlerFits, Fits, Agrees, Unclaimed, Holding, AtWork, Processing, Skips

\* A load after the claim, and the steps that keep the row or drop it.
LEMMA ReloadFits ==
  ASSUME NEW row \in Row, NEW h \in WorkerState, NEW g \in WorkerState, NEW up, NEW clean \in BOOLEAN,
         row # NoRow, HandlerFits(row, h, up, clean), h.pc \in AtWork,
         g.pc \in AtWork, g.pc \in Processing => h.pc \in Processing, g.left = h.left,
         \/ g.snap = row
         \/ g.pc \notin Holding
         \/ g.snap = h.snap /\ h.pc \in Holding /\ g.pc # "marking"
  PROVE  HandlerFits(row, g, up, clean)
BY DEF HandlerFits, Fits, Agrees, Unclaimed, Holding, AtWork, Processing

\* What a commit of a handler at work makes of the row.
LEMMA ClaimWrites ==
  ASSUME NEW row \in Row, NEW snap \in Row, NEW up, Agrees(row, snap, up), row.status # "COMPLETED"
  PROVE  LET new == Flush(row, snap, Claimed(snap))
         IN /\ new.attempts = row.attempts + 1 /\ new.exhausted = row.exhausted
            /\ \/ new.status = "PROCESSING"
               \/ new.status = row.status /\ up = "done" /\ row.status \in {"QUEUED", "FAILED"}
<1>1. Claimed(snap).attempts = snap.attempts + 1 /\ Claimed(snap).status = "PROCESSING"
      /\ Claimed(snap).exhausted = snap.exhausted
  BY DEF Claimed, Row
<1>2. snap.attempts + 1 # snap.attempts /\ snap.attempts = row.attempts
  BY DEF Row, Agrees
<1> HIDE DEF Claimed
<1> QED
  BY <1>1, <1>2 DEF Flush, Agrees, Row

LEMMA CompleteWrites ==
  ASSUME NEW row \in Row, NEW snap \in Row, NEW up, Agrees(row, snap, up), snap.status # "COMPLETED"
  PROVE  LET new == Flush(row, snap, Completed(snap))
         IN new.attempts = row.attempts /\ new.status = "COMPLETED"
<1>1. /\ Completed(snap).attempts = snap.attempts /\ Completed(snap).status = "COMPLETED"
  BY DEF Completed, Row
<1> HIDE DEF Completed
<1> QED
  BY <1>1 DEF Flush, Agrees, Row

LEMMA FailWrites ==
  ASSUME NEW row \in Row, NEW snap \in Row, NEW up, Agrees(row, snap, up)
  PROVE  LET new == Flush(row, snap, Failed(snap))
         IN /\ new.attempts = row.attempts /\ new.status \in {"FAILED", row.status}
            /\ new.exhausted = (row.attempts >= MaxAttempts)
<1>1. /\ Failed(snap).attempts = snap.attempts /\ Failed(snap).status = "FAILED"
      /\ Failed(snap).exhausted = (snap.attempts >= MaxAttempts)
  BY DEF Failed, Row
<1> HIDE DEF Failed
<1> QED
  BY <1>1 DEF Flush, Agrees, Row

\* The upload's own commits change the status and nothing else counted here.
LEMMA MarkWrites ==
  ASSUME NEW row \in Row
  PROVE  /\ LET new == Flush(row, UploadSnap, Enqueued(UploadSnap))
            IN /\ new.status = "QUEUED"
               /\ new.attempts = row.attempts /\ new.exhausted = row.exhausted
         /\ LET new == Flush(row, UploadSnap, NotAccepted(UploadSnap))
            IN /\ new.status = "FAILED"
               /\ new.attempts = row.attempts /\ new.exhausted = row.exhausted
         /\ LET new == Flush(row, NewRow, NotAccepted(NewRow))
            IN /\ new.status = "FAILED"
               /\ new.attempts = row.attempts /\ new.exhausted = row.exhausted
         /\ LET new == Flush(row, NewRow, UploadSnap)
            IN /\ new.status = row.status
               /\ new.attempts = row.attempts /\ new.exhausted = row.exhausted
BY DEF Flush, UploadSnap, WithRaw, Enqueued, NotAccepted, NewRow, Row

LEMMA ClaimFits ==
  ASSUME NEW row \in Row, NEW new \in Row, NEW h \in WorkerState, NEW g \in WorkerState,
         NEW up, NEW clean \in BOOLEAN,
         HandlerFits(row, h, up, clean), h.pc = "claiming", h.snap \in Row, h.snap # NoRow,
         new = Flush(row, h.snap, Claimed(h.snap)), new # NoRow,
         g.pc = "refreshing", g.left = h.left
  PROVE  HandlerFits(new, g, up, clean) /\ row.attempts < MaxAttempts /\ new.attempts <= MaxAttempts
<1>1. /\ Agrees(row, h.snap, up) /\ row.status # "COMPLETED"
      /\ Fits(row.attempts + h.left, MaxAttempts - 1, clean)
  BY DEF HandlerFits, Holding, Unclaimed, AtWork
<1>2. /\ new.attempts = row.attempts + 1
      /\ \/ new.status = "PROCESSING"
         \/ up = "done" /\ new.status \in {"QUEUED", "FAILED"}
  BY <1>1, ClaimWrites
<1>3. row.attempts \in Nat /\ h.left \in Nat /\ MaxAttempts \in Nat
  BY MaxAttemptsAssumption DEF Row, WorkerState
<1>4. Fits(new.attempts + g.left, MaxAttempts, clean) /\ row.attempts < MaxAttempts
  BY <1>1, <1>2, <1>3 DEF Fits
<1>5. HandlerFits(new, g, up, clean)
  BY <1>2, <1>4 DEF HandlerFits, Holding, Unclaimed, AtWork, Processing
<1> QED
  BY <1>2, <1>3, <1>4, <1>5

LEMMA CompleteFits ==
  ASSUME NEW row \in Row, NEW new \in Row, NEW h \in WorkerState, NEW g \in WorkerState,
         NEW up, NEW clean \in BOOLEAN,
         HandlerFits(row, h, up, clean), h.pc = "completing", h.snap \in Row, h.snap # NoRow,
         new = Flush(row, h.snap, Completed(h.snap)), new # NoRow,
         g.pc = "completed", g.left = h.left
  PROVE  HandlerFits(new, g, up, clean) /\ new.attempts = row.attempts /\ new.status = "COMPLETED"
<1>1. /\ Agrees(row, h.snap, up) /\ Fits(row.attempts + h.left, MaxAttempts, clean)
      /\ h.snap.status # "COMPLETED"
  BY DEF HandlerFits, Holding, Unclaimed, Processing
<1>2. new.attempts = row.attempts /\ new.status = "COMPLETED"
  BY <1>1, CompleteWrites
<1> QED
  BY <1>1, <1>2 DEF HandlerFits, Holding, Unclaimed, AtWork, Processing

LEMMA FailFits ==
  ASSUME NEW row \in Row, NEW new \in Row, NEW h \in WorkerState, NEW g \in WorkerState,
         NEW up, NEW clean \in BOOLEAN,
         HandlerFits(row, h, up, clean), h.pc = "marking", h.snap \in Row, h.snap # NoRow,
         new = Flush(row, h.snap, Failed(h.snap)), new # NoRow,
         g.pc = "deciding", g.left = h.left
  PROVE  /\ HandlerFits(new, g, up, clean)
         /\ new.attempts = row.attempts /\ new.status \in {"FAILED", row.status}
<1>1. /\ Agrees(row, h.snap, up) /\ Fits(row.attempts + h.left, MaxAttempts, clean)
  BY DEF HandlerFits, Holding, Unclaimed
<1>2. /\ new.attempts = row.attempts /\ new.status \in {"FAILED", row.status}
      /\ new.exhausted = (row.attempts >= MaxAttempts)
  BY <1>1, FailWrites
<1> QED
  BY <1>1, <1>2 DEF HandlerFits, Holding, Unclaimed, Processing

\* What the handler goes on to do when the row is loaded after its commit.
LEMMA DecideFits ==
  ASSUME NEW row \in Row, NEW h \in WorkerState, NEW g \in WorkerState,
         NEW up, NEW clean \in BOOLEAN,
         HandlerFits(row, h, up, clean), g.left = h.left,
         \/ h.pc = "completed" /\ g.pc = "returning"
         \/ h.pc = "deciding" /\ g.pc = IF Reraises(row) THEN "raising" ELSE "returning"
  PROVE  HandlerFits(row, g, up, clean)
<1>1. row # NoRow /\ Fits(row.attempts + h.left, MaxAttempts, clean)
  BY DEF HandlerFits, Unclaimed
<1>2. g.pc = "raising" => row.attempts < MaxAttempts
  BY DEF Reraises
<1>3. ASSUME clean, g.pc = "returning", row.status = "FAILED"
      PROVE  row.exhausted
  <2>1. CASE h.pc = "completed"
    BY <1>3, <2>1 DEF HandlerFits
  <2>2. CASE h.pc = "deciding"
    <3>1. ~(row.attempts < MaxAttempts)
      BY <1>3, <2>2 DEF Reraises
    <3>2. row.attempts >= MaxAttempts
      BY <3>1, MaxAttemptsAssumption DEF Row
    <3> QED
      BY <2>2, <3>2 DEF HandlerFits
  <2> QED
    BY <2>1, <2>2
<1> QED
  BY <1>1, <1>2, <1>3 DEF HandlerFits, Holding, Unclaimed, Processing

\* A fault in a handler that is not processing sends it to its except clause.
LEMMA RaisedFits ==
  ASSUME NEW row \in Row, NEW h \in WorkerState, NEW g \in WorkerState, NEW up, NEW clean \in BOOLEAN,
         HandlerFits(row, h, up, clean), g.pc = "failing", g.left = h.left
  PROVE  HandlerFits(row, g, up, FALSE)
<1>1. row # NoRow /\ row.attempts \in Nat /\ h.left \in Nat /\ MaxAttempts \in Nat
  BY MaxAttemptsAssumption DEF HandlerFits, Row, WorkerState
<1>2. row.attempts + h.left <= MaxAttempts
  BY <1>1 DEF HandlerFits, Fits
<1> QED
  BY <1>1, <1>2 DEF HandlerFits, Fits, Holding, Unclaimed, Processing

\* The verdict of the upload comes over the handler's work.
LEMMA MarkedFits ==
  ASSUME NEW row \in Row, NEW new \in Row, NEW h \in WorkerState, NEW up, NEW clean \in BOOLEAN,
         HandlerFits(row, h, up, clean), up # "done", new # NoRow,
         new.status \in {"QUEUED", "FAILED"},
         new.attempts = row.attempts, new.exhausted = row.exhausted,
         clean => new.status = "QUEUED"
  PROVE  HandlerFits(new, h, "done", clean)
BY DEF HandlerFits, Agrees, Fits, Holding, AtWork, Processing

\* A fault loosens what is asked.
LEMMA FaultFits ==
  ASSUME NEW row, NEW h, NEW up, NEW clean \in BOOLEAN
  PROVE  /\ HandlerFits(row, h, up, clean) => HandlerFits(row, h, up, FALSE)
         /\ MessageFits(row, h, clean) => MessageFits(row, h, FALSE)
         /\ UploadFits(row, up, clean) => UploadFits(row, up, FALSE)
         /\ NotSent(up, FALSE) => NotSent(up, clean)
BY DEF HandlerFits, MessageFits, UploadFits, NotSent, Fits

-----------------------------------------------------------------------------
(* Steps of the queue and of one handler.                                  *)

\* Handler w goes on with its message, from pc and with another snapshot.
GoesOn(w, pc, snap) ==
  /\ worker'[w] \in WorkerState
  /\ worker'[w].pc = pc /\ worker'[w].snap = snap
  /\ worker'[w].video = worker[w].video /\ worker'[w].left = worker[w].left
  /\ \A x \in Workers \ {w} : worker'[x] = worker[x]

LEMMA HandlerMoves ==
  ASSUME TypeOK, NEW w \in Workers, NEW pc \in WorkerPcs, NEW snap \in MaybeRow,
         worker' = [worker EXCEPT ![w].pc = pc, ![w].snap = snap]
  PROVE  GoesOn(w, pc, snap)
<1> DEFINE moved == [worker[w] EXCEPT !.pc = pc, !.snap = snap]
<1>1. worker \in [Workers -> WorkerState] /\ worker[w] \in WorkerState
  BY DEF TypeOK
<1>2. worker' = [worker EXCEPT ![w] = moved]
  BY <1>1
<1>3. moved \in WorkerState
  BY <1>1, WorkerMoves
<1>4. /\ moved.pc = pc /\ moved.snap = snap
      /\ moved.video = worker[w].video /\ moved.left = worker[w].left
  BY <1>1 DEF WorkerState
<1> HIDE DEF moved
<1> QED
  BY <1>1, <1>2, <1>3, <1>4 DEF GoesOn

LEMMA HandlerKeeps ==
  ASSUME TypeOK, NEW w \in Workers, NEW pc \in WorkerPcs, WorkerAt(w, pc)
  PROVE  GoesOn(w, pc, worker[w].snap)
<1> DEFINE moved == [worker[w] EXCEPT !.pc = pc]
<1>1. worker \in [Workers -> WorkerState] /\ worker[w] \in WorkerState
  BY DEF TypeOK
<1>2. worker' = [worker EXCEPT ![w] = moved]
  BY <1>1 DEF WorkerAt
<1>3. /\ moved \in WorkerState
      /\ moved.pc = pc /\ moved.snap = worker[w].snap
      /\ moved.video = worker[w].video /\ moved.left = worker[w].left
  BY <1>1 DEF WorkerState
<1> HIDE DEF moved
<1> QED
  BY <1>1, <1>2, <1>3 DEF GoesOn

\* A handler goes on, and changes no row but its video's.
LEMMA HandlerStep ==
  ASSUME TypeOK, Runs, NEW w \in Workers, Busy(w), NEW pc, NEW snap, pc # "idle",
         GoesOn(w, pc, snap), UNCHANGED <<queue, upload>>, Clean' => Clean,
         \A x \in Videos \ {worker[w].video} : rows'[x] = rows[x],
         HandlerFits(rows'[worker[w].video], worker'[w], upload[worker[w].video], Clean'),
         UploadFits(rows'[worker[w].video], upload[worker[w].video], Clean)
  PROVE  Runs'
<1> DEFINE v == worker[w].video
<1>1. v \in Videos /\ \A x \in Workers : worker[x].video \in Videos
  BY DEF TypeOK, WorkerState
<1>2. \A i \in DOMAIN queue : queue[i] \in Message /\ queue[i].video \in Videos /\ queue[i].video # v
  <2>1. \A i \in DOMAIN queue : queue[i] \in Message
    BY DEF TypeOK
  <2> QED
    BY <2>1 DEF Message, Runs, OneRun
<1>3. \A x \in Workers : Busy(x)' <=> Busy(x)
  BY DEF GoesOn, Busy
<1>4. \A x \in Workers : worker'[x].video = worker[x].video
  BY DEF GoesOn
<1>4a. /\ \A row, h, up : HandlerFits(row, h, up, Clean) => HandlerFits(row, h, up, Clean')
       /\ \A row, m : MessageFits(row, m, Clean) => MessageFits(row, m, Clean')
       /\ \A row, up : UploadFits(row, up, Clean) => UploadFits(row, up, Clean')
       /\ \A up : NotSent(up, Clean') => NotSent(up, Clean)
  <2>1. Clean \in BOOLEAN /\ Clean' \in BOOLEAN
    BY DEF Clean
  <2> QED
    BY <2>1, FaultFits
<1>5. OneRun'
  BY <1>3, <1>4 DEF Runs, OneRun
<1>6. (\A i \in DOMAIN queue : MessageFits(rows[queue[i].video], queue[i], Clean))'
  BY <1>2, <1>4a DEF Runs
<1>7. ASSUME NEW x \in Workers, Busy(x)'
      PROVE  HandlerFits(rows[worker[x].video], worker[x], upload[worker[x].video], Clean)'
  <2>1. CASE x = w
    BY <2>1, <1>4
  <2>2. CASE x # w
    <3>1. worker[x].video # v /\ Busy(x) /\ worker'[x] = worker[x]
      BY <2>2, <1>3, <1>7 DEF Runs, OneRun, GoesOn
    <3> QED
      BY <1>1, <1>4a, <3>1 DEF Runs
  <2> QED
    BY <2>1, <2>2
<1>8. (\A x \in Videos : UploadFits(rows[x], upload[x], Clean))'
  BY <1>4a DEF Runs
<1>9. \A x \in Videos : NoneSent(x)' <=> NoneSent(x)
  BY <1>3, <1>4 DEF NoneSent
<1>10. (\A x \in Videos : NotSent(upload[x], Clean) => NoneSent(x))'
  BY <1>4a, <1>9 DEF Runs
<1>11. FailedGoesOn'
  <2>1. ~NoneSent(v)
    BY DEF NoneSent
  <2> QED
    BY <1>9, <2>1 DEF Runs, FailedGoesOn
<1> QED
  BY <1>5, <1>6, <1>7, <1>8, <1>10, <1>11 DEF Runs

\* A worker takes the first message.
LEMMA TakeStep ==
  ASSUME TypeOK, Runs, NEW w \in Workers, Dequeue(w)
  PROVE  Runs'
<1> DEFINE message == Head(queue)
           v == message.video
<1>1. /\ worker \in [Workers -> WorkerState] /\ worker[w] \in WorkerState
      /\ queue \in Seq(Message) /\ queue # <<>> /\ queue' = Tail(queue) /\ ~Busy(w)
      /\ UNCHANGED <<rows, upload, spent>>
  BY DEF TypeOK, Dequeue, WorkerUnchanged, Busy
<1>2. /\ 1 \in DOMAIN queue /\ message = queue[1] /\ message \in Message
      /\ \A i \in DOMAIN queue' : i + 1 \in DOMAIN queue /\ i + 1 # 1 /\ queue'[i] = queue[i + 1]
      /\ \A i, j \in DOMAIN queue' : i + 1 = j + 1 => i = j
  BY <1>1, HeadAndTail
<1>3. v \in Videos /\ message.left \in Nat
  BY <1>2 DEF Message
<1>4. /\ worker'[w].pc = "loading" /\ worker'[w].video = v /\ worker'[w].left = message.left
      /\ \A x \in Workers \ {w} : worker'[x] = worker[x]
  <2> DEFINE taken == [worker[w] EXCEPT !.pc = "loading", !.video = v, !.left = message.left]
  <2> HIDE DEF message
  <2>1. worker' = [worker EXCEPT ![w] = taken]
    BY <1>1 DEF Dequeue, message
  <2>2. taken.pc = "loading" /\ taken.video = v /\ taken.left = message.left
    BY <1>1 DEF WorkerState
  <2> HIDE DEF taken
  <2> QED
    BY <1>1, <2>1, <2>2
<1> HIDE DEF message
<1>5. /\ Busy(w)'
      /\ \A x \in Workers \ {w} : Busy(x)' <=> Busy(x)
  BY <1>4 DEF Busy
<1>6. /\ \A x \in Workers : Busy(x) => worker[x].video # v
      /\ \A i \in DOMAIN queue' : queue'[i].video # v
  BY <1>2 DEF Runs, OneRun
<1>7. OneRun'
  <2>1. \A i, j \in DOMAIN queue' : queue'[i].video = queue'[j].video => i = j
    BY <1>2 DEF Runs, OneRun
  <2>2. \A x, y \in Workers : Busy(x)' /\ Busy(y)' /\ worker'[x].video = worker'[y].video => x = y
    BY <1>4, <1>5, <1>6 DEF Runs, OneRun
  <2>3. \A i \in DOMAIN queue', x \in Workers : Busy(x)' => queue'[i].video # worker'[x].video
    BY <1>2, <1>4, <1>5, <1>6 DEF Runs, OneRun
  <2> QED
    BY <2>1, <2>2, <2>3 DEF OneRun
<1>8. (\A i \in DOMAIN queue : MessageFits(rows[queue[i].video], queue[i], Clean))'
  BY <1>1, <1>2 DEF Runs, Clean
<1>9. HandlerFits(rows[v], worker'[w], upload[v], Clean)
  <2>1. MessageFits(rows[v], message, Clean)
    BY <1>2 DEF Runs
  <2>2. rows[v] \in Row /\ rows[v] # NoRow
    BY <1>3, <2>1 DEF MessageFits, TypeOK, MaybeRow
  <2>3. Fits(rows[v].attempts + message.left, MaxAttempts - 1, Clean)
    <3>1. rows[v].attempts \in Nat /\ Fits(rows[v].attempts + message.left + 1, MaxAttempts, Clean)
      BY <2>1, <2>2 DEF MessageFits, Row
    <3> QED
      BY <1>3, <3>1, MaxAttemptsAssumption DEF Fits
  <2> QED
    BY <1>4, <2>2, <2>3 DEF HandlerFits, Unclaimed, Holding, AtWork, Processing
<1>10. ASSUME NEW x \in Workers, Busy(x)'
       PROVE  HandlerFits(rows[worker[x].video], worker[x], upload[worker[x].video], Clean)'
  <2>1. CASE x = w
    BY <1>1, <1>4, <1>9, <2>1 DEF Clean
  <2>2. CASE x # w
    BY <1>1, <1>4, <1>5, <1>10, <2>2 DEF Runs, Clean
  <2> QED
    BY <2>1, <2>2
<1>11. (\A x \in Videos : UploadFits(rows[x], upload[x], Clean))'
  BY <1>1 DEF Runs, Clean
<1>12. \A x \in Videos : NoneSent(x)' <=> NoneSent(x)
  <2>1. \A x \in Videos : NoneSent(x) => NoneSent(x)'
    BY <1>2, <1>4, <1>5 DEF NoneSent
  <2>2. ASSUME NEW x \in Videos, NoneSent(x)'
        PROVE  NoneSent(x)
    <3>1. x # v
      BY <1>4, <1>5, <2>2 DEF NoneSent
    <3>2. \A i \in DOMAIN queue : i = 1 \/ (i - 1 \in DOMAIN queue' /\ queue'[i - 1] = queue[i])
      BY <1>1
    <3>3. /\ \A i \in DOMAIN queue' : queue'[i].video # x
          /\ \A y \in Workers : Busy(y)' => worker'[y].video # x
      BY <2>2 DEF NoneSent
    <3>4. \A i \in DOMAIN queue : queue[i].video # x
      BY <1>2, <3>1, <3>2, <3>3
    <3>5. \A y \in Workers : Busy(y) => worker[y].video # x
      BY <1>1, <1>4, <1>5, <3>3
    <3> QED
      BY <3>4, <3>5 DEF NoneSent
  <2> QED
    BY <2>1, <2>2
<1>13. (\A x \in Videos : NotSent(upload[x], Clean) => NoneSent(x))'
  BY <1>1, <1>12 DEF Runs, Clean
<1>14. FailedGoesOn'
  BY <1>1, <1>12 DEF Runs, FailedGoesOn, Clean
<1> QED
  BY <1>7, <1>8, <1>10, <1>11, <1>13, <1>14 DEF Runs

\* A handler is over: its message is gone, or goes back to the list.
LEMMA OverStep ==
  ASSUME TypeOK, Runs, NEW w \in Workers, Busy(w),
         NEW v, v = worker[w].video,
         worker' = [worker EXCEPT ![w] = IdleWorker], UNCHANGED <<rows, upload>>,
         Clean' => Clean,
         \/ /\ UNCHANGED queue
            /\ Clean' => rows[v] = NoRow \/ ~Unfinished(rows[v])
         \/ \E n \in Nat :
              LET message == [video |-> v, left |-> n]
              IN /\ queue' = Append(queue, message)
                 /\ MessageFits(rows[v], message, Clean')
  PROVE  Runs'
<1>1. /\ worker \in [Workers -> WorkerState] /\ v \in Videos /\ queue \in Seq(Message)
      /\ Clean \in BOOLEAN /\ Clean' \in BOOLEAN
  BY DEF TypeOK, WorkerState, Clean
<1>2. /\ ~Busy(w)'
      /\ \A x \in Workers \ {w} : worker'[x] = worker[x] /\ (Busy(x)' <=> Busy(x))
  BY <1>1 DEF Busy, IdleWorker
<1>3. /\ \A x \in Workers \ {w} : Busy(x) => worker[x].video # v
      /\ \A i \in DOMAIN queue : queue[i].video # v
  BY DEF Runs, OneRun
<1>4. /\ \A row, h, up : HandlerFits(row, h, up, Clean) => HandlerFits(row, h, up, Clean')
      /\ \A row, m : MessageFits(row, m, Clean) => MessageFits(row, m, Clean')
      /\ \A row, up : UploadFits(row, up, Clean) => UploadFits(row, up, Clean')
      /\ \A up : NotSent(up, Clean') => NotSent(up, Clean)
  BY <1>1, FaultFits
<1>5. ASSUME NEW x \in Workers, Busy(x)'
      PROVE  HandlerFits(rows[worker[x].video], worker[x], upload[worker[x].video], Clean)'
  <2>1. x # w /\ Busy(x) /\ worker'[x] = worker[x]
    BY <1>2, <1>5
  <2>2. HandlerFits(rows[worker[x].video], worker[x], upload[worker[x].video], Clean)
    BY <2>1 DEF Runs
  <2> QED
    BY <1>4, <2>1, <2>2
<1>6. (\A x \in Videos : UploadFits(rows[x], upload[x], Clean))'
  BY <1>4 DEF Runs
<1>7. CASE UNCHANGED queue /\ (Clean' => rows[v] = NoRow \/ ~Unfinished(rows[v]))
  <2>1. OneRun'
    BY <1>2, <1>7 DEF Runs, OneRun
  <2>2. (\A i \in DOMAIN queue : MessageFits(rows[queue[i].video], queue[i], Clean))'
    BY <1>4, <1>7 DEF Runs
  <2>3. \A x \in Videos : /\ NoneSent(x) => NoneSent(x)'
                          /\ x # v /\ NoneSent(x)' => NoneSent(x)
    BY <1>2, <1>7 DEF NoneSent
  <2>4. (\A x \in Videos : NotSent(upload[x], Clean) => NoneSent(x))'
    BY <1>4, <2>3 DEF Runs
  <2>5. FailedGoesOn'
    BY <1>7, <2>3 DEF Runs, FailedGoesOn
  <2> QED
    BY <1>5, <1>6, <2>1, <2>2, <2>4, <2>5 DEF Runs
<1>8. ASSUME NEW n \in Nat, NEW message, message = [video |-> v, left |-> n],
             queue' = Append(queue, message), MessageFits(rows[v], message, Clean')
      PROVE  Runs'
  <2>1. message \in Message /\ message.video = v
    BY <1>1, <1>8 DEF Message
  <2>2. /\ \A i \in DOMAIN queue : i \in DOMAIN queue' /\ queue'[i] = queue[i]
        /\ \A i \in DOMAIN queue' : \/ i \in DOMAIN queue /\ queue'[i] = queue[i]
                                    \/ i = Len(queue) + 1 /\ queue'[i] = message
        /\ Len(queue) + 1 \in DOMAIN queue' /\ queue'[Len(queue) + 1] = message
    BY <1>1, <1>8, <2>1, AppendOne
  <2>3. OneRun'
    <3>1. \A i, j \in DOMAIN queue' : queue'[i].video = queue'[j].video => i = j
      BY <1>3, <2>1, <2>2 DEF Runs, OneRun
    <3>2. \A x, y \in Workers : Busy(x)' /\ Busy(y)' /\ worker'[x].video = worker'[y].video => x = y
      BY <1>2 DEF Runs, OneRun
    <3>3. \A i \in DOMAIN queue', x \in Workers : Busy(x)' => queue'[i].video # worker'[x].video
      BY <1>2, <1>3, <2>1, <2>2 DEF Runs, OneRun
    <3> QED
      BY <3>1, <3>2, <3>3 DEF OneRun
  <2>4. (\A i \in DOMAIN queue : MessageFits(rows[queue[i].video], queue[i], Clean))'
    BY <1>4, <1>8, <2>1, <2>2 DEF Runs
  <2>5. \A x \in Videos : NoneSent(x)' <=> NoneSent(x)
    <3>1. ~NoneSent(v) /\ ~NoneSent(v)'
      BY <2>1, <2>2 DEF NoneSent
    <3>2. \A x \in Videos : x # v => (NoneSent(x)' <=> NoneSent(x))
      BY <1>2, <2>1, <2>2 DEF NoneSent
    <3> QED
      BY <3>1, <3>2
  <2>6. (\A x \in Videos : NotSent(upload[x], Clean) => NoneSent(x))'
    BY <1>4, <2>5 DEF Runs
  <2>7. FailedGoesOn'
    BY <2>5 DEF Runs, FailedGoesOn
  <2> QED
    BY <1>5, <1>6, <2>3, <2>4, <2>6, <2>7 DEF Runs
<1> QED
  BY <1>7, <1>8

-----------------------------------------------------------------------------
(* Every action of a worker and of its parent.                             *)

LEMMA FaultSpent ==
  ASSUME TypeOK, Fault
  PROVE  /\ ~Clean' /\ spent'["retries"] = spent["retries"]
         /\ spent' \in [{"faults", "retries", "requeues"} -> Nat]
<1>1. /\ spent \in [{"faults", "retries", "requeues"} -> Nat]
      /\ spent' = [spent EXCEPT !["faults"] = spent["faults"] + 1]
  BY DEF TypeOK, Fault, Spend
<1>2. spent'["faults"] = spent["faults"] + 1 /\ spent["faults"] \in Nat
  BY <1>1
<1> QED
  BY <1>1, <1>2 DEF Clean

\* The message RQ puts back, one retry shorter.
LEMMA RetryMessageFits ==
  ASSUME NEW row \in Row, NEW h \in WorkerState, NEW up, NEW clean \in BOOLEAN,
         NEW stillClean \in BOOLEAN, HandlerFits(row, h, up, clean), h.left > 0,
         stillClean => clean /\ h.pc \notin Unclaimed, NEW v
  PROVE  h.left - 1 \in Nat /\ MessageFits(row, [video |-> v, left |-> h.left - 1], stillClean)
<1>1. row # NoRow /\ row.attempts \in Nat /\ h.left \in Nat /\ MaxAttempts \in Nat
  BY MaxAttemptsAssumption DEF HandlerFits, Row, WorkerState
<1>2. Fits(row.attempts + h.left,
           IF h.pc \in Unclaimed THEN MaxAttempts - 1 ELSE MaxAttempts, clean)
  BY DEF HandlerFits
<1>3. Fits(row.attempts + (h.left - 1) + 1, MaxAttempts, stillClean)
  BY <1>1, <1>2 DEF Fits
<1>4. [video |-> v, left |-> h.left - 1].left = h.left - 1
  OBVIOUS
<1> QED
  BY <1>1, <1>3, <1>4 DEF MessageFits

LEMMA WorkerRuns ==
  ASSUME Inv, Runs, NEW w \in Workers, WorkerNext(w) \/ HandlerRaises(w) \/ WorkerDies(w)
  PROVE  Runs'
<1> DEFINE h == worker[w]
<1>0. PICK v \in Videos : v = worker[w].video
  BY DEF Inv, TypeOK, WorkerState
<1>1. /\ TypeOK /\ worker[w] \in WorkerState /\ Clean \in BOOLEAN /\ NoRow \in MaybeRow
      /\ h.left \in Nat
      /\ h.pc \in Holding => h.snap \in Row /\ h.snap # NoRow
      /\ rows[v] \in MaybeRow
  BY <1>0 DEF Inv, TypeOK, SnapsHeld, WorkerState, MaybeRow, Clean
<1>2. h.pc # "idle" => /\ Busy(w) /\ HandlerFits(rows[v], h, upload[v], Clean)
                       /\ rows[v] \in Row /\ rows[v] # NoRow
                       /\ UploadFits(rows[v], upload[v], Clean)
  <2>1. h.pc # "idle" => Busy(w) /\ HandlerFits(rows[v], h, upload[v], Clean)
    BY <1>0 DEF Runs, Busy
  <2>2. h.pc # "idle" => rows[v] # NoRow
    BY <2>1 DEF HandlerFits
  <2> QED
    BY <1>1, <2>1, <2>2 DEF Runs, MaybeRow
<1> USE DEF WorkerUnchanged
<1>3. CASE Dequeue(w)
  BY <1>1, <1>3, TakeStep
<1>4. CASE SkipJob(w)
  <2>1. Clean => ~Unfinished(rows[v])
    <3>1. Fits(rows[v].attempts + h.left, MaxAttempts - 1, Clean) /\ Skips(rows[v])
      BY <1>0, <1>2, <1>4 DEF SkipJob, HandlerFits, Unclaimed
    <3>2. Clean => rows[v].attempts < MaxAttempts
      BY <1>1, <1>2, <1>4, <3>1, MaxAttemptsAssumption DEF Fits, Row, SkipJob
    <3> QED
      BY <1>2, <1>4, <3>1, <3>2, MaxAttemptsAssumption DEF Skips, Unfinished, SkipJob, Row
  <2>2. UNCHANGED <<rows, upload, queue, spent>> /\ worker' = [worker EXCEPT ![w] = IdleWorker]
    BY <1>4 DEF SkipJob
  <2> QED
    BY <1>0, <1>1, <1>2, <1>4, <2>1, <2>2, OverStep DEF SkipJob, Clean
<1>5. CASE LoadJob(w)
  <2>1. GoesOn(w, "claiming", rows[v]) /\ UNCHANGED <<rows, queue, upload, spent>>
    BY <1>0, <1>1, <1>5, HandlerMoves DEF LoadJob, Load, WorkerPcs
  <2>2. HandlerFits(rows[v], worker'[w], upload[v], Clean)
    BY <1>0, <1>1, <1>2, <1>5, <2>1, LoadFits DEF LoadJob, GoesOn
  <2> QED
    BY <1>0, <1>1, <1>2, <1>5, <2>1, <2>2, HandlerStep DEF LoadJob, Clean
<1>6. CASE Claim(w)
  <2>1. GoesOn(w, "refreshing", NoRow) /\ UNCHANGED <<queue, upload, spent>>
    BY <1>1, <1>6, HandlerMoves DEF Claim, WorkerDrops, WorkerPcs
  <2>2. /\ rows'[v] = Flush(rows[v], h.snap, Claimed(h.snap))
        /\ rows'[v] \in Row /\ rows'[v] # NoRow
        /\ \A x \in Videos \ {v} : rows'[x] = rows[x]
    BY <1>0, <1>1, <1>6, CommitRow, AssignedType DEF Claim, Holding
  <2>3. HandlerFits(rows'[v], worker'[w], upload[v], Clean) /\ rows'[v].attempts <= MaxAttempts
    BY <1>1, <1>2, <1>6, <2>1, <2>2, ClaimFits DEF Claim, GoesOn, Holding
  <2>4. UploadFits(rows'[v], upload[v], Clean)
    BY <1>0, <1>2, <1>6, <2>2, <2>3 DEF UploadFits, Runs, NoneSent, Claim
  <2> QED
    BY <1>0, <1>1, <1>2, <1>6, <2>1, <2>2, <2>3, <2>4, HandlerStep DEF Claim, Clean
<1>7. CASE RefreshJob(w) \/ ReloadFailed(w)
  <2>1. PICK pc \in {"downloading", "marking"} :
          /\ GoesOn(w, pc, rows[v])
          /\ h.pc = IF pc = "downloading" THEN "refreshing" ELSE "failing"
    BY <1>0, <1>1, <1>7, HandlerMoves DEF RefreshJob, ReloadFailed, Load, WorkerPcs
  <2>2. UNCHANGED <<rows, queue, upload, spent>>
    BY <1>7 DEF RefreshJob, ReloadFailed
  <2>3. HandlerFits(rows[v], worker'[w], upload[v], Clean)
    BY <1>1, <1>2, <2>1, <2>2, ReloadFits DEF GoesOn, AtWork, Processing, Holding
  <2> QED
    BY <1>0, <1>1, <1>2, <2>1, <2>2, <2>3, HandlerStep DEF Clean
<1>8. CASE Transcode(w) \/ UploadProcessed(w) \/ UploadThumbnail(w)
  <2>1. PICK pc \in {"processed", "thumbnail", "completing"} : GoesOn(w, pc, h.snap)
    BY <1>1, <1>8, HandlerKeeps
       DEF Transcode, UploadProcessed, UploadThumbnail, StoreOutput, WorkerPcs
  <2>2. UNCHANGED <<rows, queue, upload, spent>> /\ h.pc \in {"downloading", "processed", "thumbnail"}
    BY <1>8 DEF Transcode, UploadProcessed, UploadThumbnail, StoreOutput
  <2>3. HandlerFits(rows[v], worker'[w], upload[v], Clean)
    BY <1>1, <1>2, <2>1, <2>2, ReloadFits DEF GoesOn, AtWork, Processing, Holding
  <2> QED
    BY <1>0, <1>1, <1>2, <2>1, <2>2, <2>3, HandlerStep DEF Clean
<1>9. CASE ProcessingFails(w)
  <2>1. GoesOn(w, "failing", NoRow) /\ UNCHANGED <<rows, queue, upload, spent>>
    BY <1>1, <1>9, HandlerMoves DEF ProcessingFails, WorkerDrops, WorkerPcs
  <2>2. h.pc \in AtWork /\ h.pc # "idle"
    BY <1>9 DEF ProcessingFails, AtWork, Processing
  <2>3. HandlerFits(rows[v], worker'[w], upload[v], Clean)
    BY <1>1, <1>2, <2>1, <2>2, ReloadFits DEF GoesOn, AtWork, Processing, Holding
  <2> QED
    BY <1>0, <1>1, <1>2, <2>1, <2>2, <2>3, HandlerStep DEF Clean
<1>10. CASE Complete(w)
  <2>1. GoesOn(w, "completed", NoRow) /\ UNCHANGED <<queue, upload, spent>>
    BY <1>1, <1>10, HandlerMoves DEF Complete, WorkerDrops, WorkerPcs
  <2>2. /\ rows'[v] = Flush(rows[v], h.snap, Completed(h.snap))
        /\ rows'[v] \in Row /\ rows'[v] # NoRow
        /\ \A x \in Videos \ {v} : rows'[x] = rows[x]
    BY <1>0, <1>1, <1>10, CommitRow, AssignedType DEF Complete, Holding
  <2>3. HandlerFits(rows'[v], worker'[w], upload[v], Clean) /\ rows'[v].attempts = rows[v].attempts
    BY <1>1, <1>2, <1>10, <2>1, <2>2, CompleteFits DEF Complete, GoesOn, Holding
  <2>4. UploadFits(rows'[v], upload[v], Clean)
    BY <1>0, <1>2, <1>10, <2>2, <2>3 DEF UploadFits, Runs, NoneSent, Complete
  <2> QED
    BY <1>0, <1>1, <1>2, <1>10, <2>1, <2>2, <2>3, <2>4, HandlerStep DEF Complete, Clean
<1>11. CASE MarkFailed(w)
  <2>1. GoesOn(w, "deciding", NoRow) /\ UNCHANGED <<queue, upload, spent>>
    BY <1>1, <1>11, HandlerMoves DEF MarkFailed, WorkerDrops, WorkerPcs
  <2>2. /\ rows'[v] = Flush(rows[v], h.snap, Failed(h.snap))
        /\ rows'[v] \in Row /\ rows'[v] # NoRow
        /\ \A x \in Videos \ {v} : rows'[x] = rows[x]
    BY <1>0, <1>1, <1>11, CommitRow, AssignedType DEF MarkFailed, Holding
  <2>3. HandlerFits(rows'[v], worker'[w], upload[v], Clean) /\ rows'[v].attempts = rows[v].attempts
    BY <1>1, <1>2, <1>11, <2>1, <2>2, FailFits DEF MarkFailed, GoesOn, Holding
  <2>4. UploadFits(rows'[v], upload[v], Clean)
    BY <1>0, <1>2, <1>11, <2>2, <2>3 DEF UploadFits, Runs, NoneSent, MarkFailed
  <2> QED
    BY <1>0, <1>1, <1>2, <1>11, <2>1, <2>2, <2>3, <2>4, HandlerStep DEF MarkFailed, Clean
<1>12. CASE RaiseToRq(w)
  <2>1. UNCHANGED <<rows, upload, spent>> /\ worker' = [worker EXCEPT ![w] = IdleWorker]
    BY <1>12 DEF RaiseToRq
  <2>2. h.left = 0 => ~Clean
    <3>1. Fits(rows[v].attempts + h.left, MaxAttempts, Clean) /\ rows[v].attempts < MaxAttempts
      BY <1>2, <1>12 DEF HandlerFits, RaiseToRq, Unclaimed
    <3>2. rows[v].attempts \in Nat
      BY <1>2, <1>12 DEF RaiseToRq, Row
    <3> QED
      BY <1>1, <3>1, <3>2, MaxAttemptsAssumption DEF Fits
  <2>3. CASE h.left > 0
    <3>1. /\ h.left - 1 \in Nat
          /\ MessageFits(rows[v], [video |-> v, left |-> h.left - 1], Clean)
      BY <1>1, <1>2, <1>12, <2>3, RetryMessageFits DEF RaiseToRq, Unclaimed
    <3>2. queue' = Append(queue, [video |-> v, left |-> h.left - 1])
      BY <1>0, <1>1, <1>12, <2>3 DEF RaiseToRq, RqRetry
    <3> QED
      BY <1>0, <1>1, <1>2, <1>12, <2>1, <3>1, <3>2, OverStep DEF RaiseToRq, Clean
  <2>4. CASE h.left = 0
    <3>1. UNCHANGED queue
      BY <1>12, <2>4 DEF RaiseToRq, RqRetry
    <3> QED
      BY <1>0, <1>1, <1>2, <1>12, <2>1, <2>2, <2>4, <3>1, OverStep DEF RaiseToRq, Clean
  <2> QED
    BY <1>12, <2>3, <2>4 DEF RaiseToRq, RqRetry
<1>13. CASE ReturnToRq(w)
  <2>1. /\ UNCHANGED <<rows, queue, upload, spent>> /\ worker' = [worker EXCEPT ![w] = IdleWorker]
        /\ h.pc = "returning"
    BY <1>13 DEF ReturnToRq
  <2>2. Clean => ~Unfinished(rows[v])
    BY <1>2, <2>1 DEF HandlerFits, Unfinished
  <2> QED
    BY <1>0, <1>1, <1>2, <2>1, <2>2, OverStep DEF Clean
<1>14. CASE WorkerDies(w)
  <2>1. /\ UNCHANGED <<rows, upload>> /\ worker' = [worker EXCEPT ![w] = IdleWorker]
        /\ h.pc # "idle" /\ ~Clean'
    BY <1>1, <1>14, FaultSpent DEF WorkerDies
  <2>2. CASE UNCHANGED queue
    BY <1>0, <1>1, <1>2, <2>1, <2>2, OverStep
  <2>3. CASE h.left > 0 /\ queue' = Append(queue, [video |-> v, left |-> h.left - 1])
    <3>1. /\ h.left - 1 \in Nat
          /\ MessageFits(rows[v], [video |-> v, left |-> h.left - 1], FALSE)
      BY <1>1, <1>2, <2>1, <2>3, RetryMessageFits
    <3>2. Clean' = FALSE
      BY <2>1 DEF Clean
    <3> QED
      BY <1>0, <1>1, <1>2, <2>1, <2>3, <3>1, <3>2, OverStep
  <2> QED
    BY <1>0, <1>14, <2>2, <2>3 DEF WorkerDies, RqRetry
<1>15. CASE RecordSuccess(w) \/ DecideRetry(w)
  <2>1. PICK pc \in {"raising", "returning"} :
          /\ GoesOn(w, pc, h.snap) /\ UNCHANGED <<rows, queue, upload, spent>>
          /\ \/ h.pc = "completed" /\ pc = "returning"
             \/ h.pc = "deciding" /\ pc = IF Reraises(rows[v]) THEN "raising" ELSE "returning"
    <3>1. CASE RecordSuccess(w)
      BY <1>1, <3>1, HandlerKeeps DEF RecordSuccess, WorkerPcs
    <3>2. CASE DecideRetry(w)
      BY <1>0, <1>1, <3>2, HandlerKeeps DEF DecideRetry, WorkerPcs
    <3> QED
      BY <1>15, <3>1, <3>2
  <2>2. HandlerFits(rows[v], worker'[w], upload[v], Clean)
    BY <1>1, <1>2, <2>1, DecideFits DEF GoesOn
  <2> QED
    BY <1>0, <1>1, <1>2, <2>1, <2>2, HandlerStep DEF Clean
<1>16. CASE HandlerRaises(w)
  <2>1. /\ GoesOn(w, "failing", NoRow) /\ UNCHANGED <<rows, queue, upload>>
        /\ h.pc # "idle" /\ ~Clean'
    BY <1>1, <1>16, HandlerMoves, FaultSpent DEF HandlerRaises, WorkerDrops, WorkerPcs
  <2>2. HandlerFits(rows[v], worker'[w], upload[v], FALSE)
    BY <1>1, <1>2, <2>1, RaisedFits DEF GoesOn
  <2>3. Clean' = FALSE
    BY <2>1 DEF Clean
  <2> QED
    BY <1>0, <1>1, <1>2, <2>1, <2>2, <2>3, HandlerStep
<1> QED
  BY <1>3, <1>4, <1>5, <1>6, <1>7, <1>8, <1>9, <1>10, <1>11, <1>12, <1>13, <1>14, <1>15, <1>16
     DEF WorkerNext

-----------------------------------------------------------------------------
(* Every action of an upload request.                                      *)

\* The upload of v goes on and sends nothing.
LEMMA UploadStep ==
  ASSUME TypeOK, Runs, NEW v \in Videos, NEW up, UNCHANGED <<queue, worker>>,
         upload' = [upload EXCEPT ![v] = up], \A x \in Videos \ {v} : rows'[x] = rows[x],
         Clean' => Clean,
         \/ NoneSent(v)
         \/ /\ rows'[v] # NoRow /\ rows'[v].attempts = rows[v].attempts
            /\ \A h \in WorkerState : HandlerFits(rows[v], h, upload[v], Clean)
                                        => HandlerFits(rows'[v], h, up, Clean'),
         UploadFits(rows'[v], up, Clean'), NotSent(up, Clean') => NotSent(upload[v], Clean),
         Clean' /\ rows'[v] # NoRow /\ Unfinished(rows'[v])
           => rows[v] # NoRow /\ Unfinished(rows[v])
  PROVE  Runs'
<1>1. /\ \A i \in DOMAIN queue : queue[i] \in Message /\ queue[i].video \in Videos
      /\ \A w \in Workers : worker[w] \in WorkerState /\ worker[w].video \in Videos
      /\ Clean \in BOOLEAN /\ Clean' \in BOOLEAN
  <2>1. \A i \in DOMAIN queue : queue[i] \in Message
    BY DEF TypeOK
  <2> QED
    BY <2>1 DEF TypeOK, Message, WorkerState, Clean
<1>2. upload'[v] = up /\ \A x \in Videos \ {v} : upload'[x] = upload[x]
  BY DEF TypeOK
<1>3. \A x \in Videos : NoneSent(x)' <=> NoneSent(x)
  BY DEF NoneSent, Busy
<1>4. /\ \A row, h, u : HandlerFits(row, h, u, Clean) => HandlerFits(row, h, u, Clean')
      /\ \A row, m : MessageFits(row, m, Clean) => MessageFits(row, m, Clean')
      /\ \A row, u : UploadFits(row, u, Clean) => UploadFits(row, u, Clean')
      /\ \A u : NotSent(u, Clean') => NotSent(u, Clean)
  BY <1>1, FaultFits
<1>5. OneRun'
  BY DEF Runs, OneRun, Busy
<1>6. ASSUME NEW i \in DOMAIN queue
      PROVE  MessageFits(rows'[queue[i].video], queue[i], Clean')
  <2>1. MessageFits(rows[queue[i].video], queue[i], Clean')
    BY <1>4 DEF Runs
  <2>2. CASE queue[i].video # v
    BY <1>1, <2>1, <2>2
  <2>3. CASE queue[i].video = v
    <3>1. rows'[v] # NoRow /\ rows'[v].attempts = rows[v].attempts
      BY <2>3 DEF NoneSent
    <3> QED
      BY <2>1, <2>3, <3>1 DEF MessageFits
  <2> QED
    BY <2>2, <2>3
<1>7. ASSUME NEW w \in Workers, Busy(w)
      PROVE  HandlerFits(rows'[worker[w].video], worker[w], upload'[worker[w].video], Clean')
  <2>1. HandlerFits(rows[worker[w].video], worker[w], upload[worker[w].video], Clean)
    BY <1>7 DEF Runs
  <2>2. CASE worker[w].video # v
    BY <1>1, <1>2, <1>4, <2>1, <2>2
  <2>3. CASE worker[w].video = v
    <3>1. ~NoneSent(v)
      BY <1>7, <2>3 DEF NoneSent
    <3> QED
      BY <1>1, <1>2, <2>1, <2>3, <3>1
  <2> QED
    BY <2>2, <2>3
<1>8. \A x \in Videos : UploadFits(rows'[x], upload'[x], Clean')
  BY <1>2, <1>4 DEF Runs
<1>9. \A x \in Videos : NotSent(upload'[x], Clean') => NoneSent(x)'
  BY <1>2, <1>3, <1>4 DEF Runs
<1>10. FailedGoesOn'
  BY <1>3 DEF Runs, FailedGoesOn
<1> QED
  BY <1>5, <1>6, <1>7, <1>8, <1>9, <1>10 DEF Runs, Busy

\* The upload of v sends its one message.
LEMMA UploadSends ==
  ASSUME TypeOK, Runs, NEW v \in Videos, NEW up \in {"marking", "refusing"}, UNCHANGED <<rows, worker>>,
         upload[v] = "enqueuing", upload' = [upload EXCEPT ![v] = up], Enqueue(v),
         Clean' => Clean /\ up = "marking"
  PROVE  Runs'
<1> DEFINE message == [video |-> v, left |-> MaxAttempts - 1]
<1>1. /\ Clean \in BOOLEAN /\ Clean' \in BOOLEAN
      /\ message \in Message /\ message.video = v /\ message.left = MaxAttempts - 1
      /\ queue' = Append(queue, message) /\ queue \in Seq(Message)
  BY MaxAttemptsAssumption DEF Clean, Message, Enqueue, TypeOK
<1> HIDE DEF message
<1>2. upload'[v] = up /\ \A x \in Videos \ {v} : upload'[x] = upload[x]
  BY DEF TypeOK
<1>3. /\ NoneSent(v) /\ rows[v] # NoRow /\ rows[v].attempts = 0
      /\ ~Unfinished(rows[v])
  <2>1. NotSent(upload[v], Clean) /\ UploadFits(rows[v], upload[v], Clean)
    BY DEF NotSent, Runs
  <2> QED
    BY <2>1 DEF UploadFits, Runs, Unfinished
<1>4. /\ \A row, h, u : HandlerFits(row, h, u, Clean) => HandlerFits(row, h, u, Clean')
      /\ \A row, m : MessageFits(row, m, Clean) => MessageFits(row, m, Clean')
      /\ \A row, u : UploadFits(row, u, Clean) => UploadFits(row, u, Clean')
      /\ \A u : NotSent(u, Clean') => NotSent(u, Clean)
  BY <1>1, FaultFits
<1>5. /\ \A i \in DOMAIN queue : i \in DOMAIN queue' /\ queue'[i] = queue[i]
      /\ \A i \in DOMAIN queue' : \/ i \in DOMAIN queue /\ queue'[i] = queue[i]
                                  \/ i = Len(queue) + 1 /\ queue'[i] = message
  BY <1>1, AppendOne
<1>6. OneRun'
  <2>1. \A i, j \in DOMAIN queue' : queue'[i].video = queue'[j].video => i = j
    BY <1>1, <1>3, <1>5 DEF Runs, OneRun, NoneSent
  <2>2. \A w, x \in Workers : Busy(w)' /\ Busy(x)' /\ worker'[w].video = worker'[x].video => w = x
    BY DEF Runs, OneRun, Busy
  <2>3. \A i \in DOMAIN queue', w \in Workers : Busy(w)' => queue'[i].video # worker'[w].video
    BY <1>1, <1>3, <1>5 DEF Runs, OneRun, Busy, NoneSent
  <2> QED
    BY <2>1, <2>2, <2>3 DEF OneRun
<1>7. \A i \in DOMAIN queue' : MessageFits(rows'[queue'[i].video], queue'[i], Clean')
  <2>1. MessageFits(rows[v], message, Clean')
    BY <1>1, <1>3, MaxAttemptsAssumption DEF MessageFits, Fits
  <2> QED
    BY <1>1, <1>4, <1>5, <2>1 DEF Runs
<1>8. ASSUME NEW w \in Workers, Busy(w)
      PROVE  HandlerFits(rows'[worker[w].video], worker[w], upload'[worker[w].video], Clean')
  <2>1. worker[w].video \in Videos \ {v}
    BY <1>3, <1>8 DEF NoneSent, TypeOK, WorkerState
  <2> QED
    BY <1>2, <1>4, <1>8, <2>1 DEF Runs
<1>9. \A x \in Videos : UploadFits(rows'[x], upload'[x], Clean')
  <2>1. UploadFits(rows[v], up, Clean')
    BY <1>3, MaxAttemptsAssumption DEF UploadFits, NotSent
  <2> QED
    BY <1>2, <1>4, <2>1 DEF Runs
<1>10. \A x \in Videos \ {v} : NoneSent(x)' <=> NoneSent(x)
  BY <1>1, <1>5 DEF NoneSent, Busy
<1>11. \A x \in Videos : NotSent(upload'[x], Clean') => NoneSent(x)'
  <2>1. ~NotSent(up, Clean')
    BY DEF NotSent
  <2> QED
    BY <1>2, <1>4, <1>10, <2>1 DEF Runs
<1>12. FailedGoesOn'
  BY <1>3, <1>10 DEF Runs, FailedGoesOn
<1> QED
  BY <1>6, <1>7, <1>8, <1>9, <1>11, <1>12 DEF Runs, Busy

LEMMA UploadRuns ==
  ASSUME Inv, Runs, NEW v \in Videos, UploadNext(v) \/ UploadDies(v)
  PROVE  Runs'
<1>1. /\ TypeOK /\ Clean \in BOOLEAN /\ UploadFits(rows[v], upload[v], Clean)
      /\ NotSent(upload[v], Clean) => NoneSent(v)
      /\ rows[v] \in MaybeRow
  BY DEF Inv, TypeOK, Runs, Clean
<1>2. /\ NewRow \in Row /\ NewRow # NoRow /\ UploadSnap \in Row
      /\ UploadSnap \in RowInHand
      /\ Enqueued(UploadSnap) \in RowInHand /\ NotAccepted(UploadSnap) \in RowInHand
      /\ NotAccepted(NewRow) \in RowInHand
  BY NewRowType, UploadSnapType, AssignedType, NoRowAssumption
<1> USE DEF UploadUnchanged, UploadAt
<1>3. CASE InsertRow(v)
  <2>1. /\ rows' = [rows EXCEPT ![v] = NewRow] /\ upload' = [upload EXCEPT ![v] = "storing"]
        /\ UNCHANGED <<queue, worker, spent>> /\ NotSent(upload[v], Clean)
    BY <1>3 DEF InsertRow, NotSent
  <2>2. rows'[v] = NewRow /\ \A x \in Videos \ {v} : rows'[x] = rows[x]
    BY <1>1, <2>1 DEF TypeOK
  <2>3. /\ UploadFits(NewRow, "storing", Clean) /\ ~Unfinished(NewRow)
    BY <1>2, MaxAttemptsAssumption DEF UploadFits, NewRow, Unfinished
  <2> QED
    BY <1>1, <2>1, <2>2, <2>3, UploadStep DEF Clean
<1>4. CASE StoreRaw(v)
  <2>1. PICK up \in {"saving", "enqueuing"} : upload' = [upload EXCEPT ![v] = up]
    BY <1>4 DEF StoreRaw
  <2>2. /\ UNCHANGED <<rows, queue, worker, spent>> /\ upload[v] = "storing"
    BY <1>4 DEF StoreRaw
  <2>3. NotSent(upload[v], Clean) /\ UploadFits(rows[v], up, Clean)
    BY <1>1, <2>2 DEF NotSent, UploadFits
  <2>4. NotSent(up, Clean) => NotSent(upload[v], Clean)
    BY <2>3
  <2> QED
    BY <1>1, <2>1, <2>2, <2>3, UploadStep DEF Clean
<1>5. CASE SaveRawPath(v)
  <2>1. /\ upload' = [upload EXCEPT ![v] = "enqueuing"]
        /\ UNCHANGED <<queue, worker, spent>> /\ upload[v] = "saving"
    BY <1>5 DEF SaveRawPath
  <2>2. /\ rows[v] \in Row /\ rows[v] # NoRow /\ rows'[v] # NoRow
        /\ rows'[v] = Flush(rows[v], NewRow, UploadSnap)
        /\ \A x \in Videos \ {v} : rows'[x] = rows[x]
    BY <1>1, <1>2, <1>5, CommitRow DEF SaveRawPath
  <2>3. /\ rows'[v].status = rows[v].status
        /\ rows'[v].attempts = rows[v].attempts /\ rows'[v].exhausted = rows[v].exhausted
    BY <2>2, MarkWrites
  <2>4. NotSent(upload[v], Clean) /\ UploadFits(rows'[v], "enqueuing", Clean)
    BY <1>1, <2>1, <2>2, <2>3 DEF NotSent, UploadFits
  <2>5. Unfinished(rows'[v]) => Unfinished(rows[v])
    BY <2>3 DEF Unfinished
  <2> QED
    BY <1>1, <2>1, <2>2, <2>4, <2>5, UploadStep DEF Clean
<1>6. CASE StoreRawFails(v)
  <2>1. /\ upload' = [upload EXCEPT ![v] = "done"]
        /\ UNCHANGED <<queue, worker, spent>> /\ upload[v] = "storing"
    BY <1>6 DEF StoreRawFails
  <2>2. NotSent(upload[v], Clean) /\ ~NotSent("done", Clean) /\ rows[v] # NoRow /\ rows[v].attempts = 0
    BY <1>1, <2>1 DEF NotSent, UploadFits
  <2>3. /\ rows'[v] # NoRow /\ rows'[v].attempts = 0
        /\ \A x \in Videos \ {v} : rows'[x] = rows[x]
    <3>1. CASE Commit(v, NewRow, NotAccepted(NewRow))
      BY <1>1, <1>2, <2>2, <3>1, CommitRow, MarkWrites
    <3>2. CASE UNCHANGED rows
      BY <2>2, <3>2
    <3> QED
      BY <1>6, <3>1, <3>2 DEF StoreRawFails
  <2>4. UploadFits(rows'[v], "done", Clean) /\ ~Unfinished(rows'[v])
    BY <2>2, <2>3, MaxAttemptsAssumption DEF UploadFits, Unfinished
  <2> QED
    BY <1>1, <2>1, <2>2, <2>3, <2>4, UploadStep DEF Clean
<1>7. CASE EnqueueUpload(v)
  BY <1>1, <1>7, UploadSends DEF EnqueueUpload, Clean
<1>8. CASE EnqueueUploadFails(v)
  <2>1. CASE UNCHANGED <<queue, spent>>
    <3>1. NotSent(upload[v], Clean) /\ UploadFits(rows[v], "refusing", Clean)
      BY <1>1, <1>8 DEF NotSent, UploadFits, EnqueueUploadFails
    <3> QED
      BY <1>1, <1>8, <2>1, <3>1, UploadStep DEF Clean, EnqueueUploadFails
  <2>2. CASE Enqueue(v) /\ Fault
    BY <1>1, <1>8, <2>2, UploadSends, FaultSpent DEF EnqueueUploadFails
  <2> QED
    BY <1>8, <2>1, <2>2 DEF EnqueueUploadFails, EnqueueRaises
<1>9. CASE MarkQueued(v) \/ MarkNotAccepted(v)
  <2>1. /\ upload' = [upload EXCEPT ![v] = "done"]
        /\ UNCHANGED <<queue, worker, spent>> /\ upload[v] # "done"
    BY <1>9 DEF MarkQueued, MarkNotAccepted
  <2>2. /\ rows[v] \in Row /\ rows[v] # NoRow /\ rows'[v] # NoRow /\ rows'[v] \in Row
        /\ rows'[v].status \in {"QUEUED", "FAILED"}
        /\ rows'[v].attempts = rows[v].attempts /\ rows'[v].exhausted = rows[v].exhausted
        /\ \A x \in Videos \ {v} : rows'[x] = rows[x]
    BY <1>1, <1>2, <1>9, CommitRow, MarkWrites DEF MarkQueued, MarkNotAccepted
  <2>3. CASE MarkQueued(v)
    <3>1. rows'[v].status = "QUEUED"
      BY <1>1, <1>2, <2>3, CommitRow, MarkWrites DEF MarkQueued
    <3>2. \A h \in WorkerState : HandlerFits(rows[v], h, upload[v], Clean)
                                   => HandlerFits(rows'[v], h, "done", Clean)
      BY <1>1, <2>1, <2>2, <3>1, MarkedFits
    <3>3. UploadFits(rows'[v], "done", Clean) /\ ~Unfinished(rows'[v]) /\ ~NotSent("done", Clean)
      BY <1>1, <2>2, <3>1 DEF UploadFits, Unfinished, NotSent
    <3> QED
      BY <1>1, <2>1, <2>2, <3>2, <3>3, UploadStep DEF Clean
  <2>4. CASE MarkNotAccepted(v)
    <3>1. Clean => NoneSent(v) /\ rows[v].attempts = 0
      BY <1>1, <2>2, <2>4 DEF MarkNotAccepted, NotSent, UploadFits
    <3>2. ~Clean => \A h \in WorkerState : HandlerFits(rows[v], h, upload[v], Clean)
                                   => HandlerFits(rows'[v], h, "done", Clean)
      BY <1>1, <2>1, <2>2, MarkedFits
    <3>3. UploadFits(rows'[v], "done", Clean) /\ ~NotSent("done", Clean)
      BY <1>1, <2>2 DEF UploadFits, NotSent
    <3>4. Clean => ~Unfinished(rows'[v])
      BY <2>2, <3>1 DEF Unfinished
    <3> QED
      BY <1>1, <2>1, <2>2, <3>1, <3>2, <3>3, <3>4, UploadStep DEF Clean
  <2> QED
    BY <1>9, <2>3, <2>4
<1>10. CASE UploadDies(v)
  <2>1. /\ upload' = [upload EXCEPT ![v] = "done"] /\ UNCHANGED <<rows, queue, worker>>
        /\ upload[v] # "none" /\ ~Clean'
    BY <1>1, <1>10, FaultSpent DEF UploadDies
  <2>2. rows[v] # NoRow /\ UploadFits(rows[v], "done", Clean') /\ ~NotSent("done", Clean')
    BY <1>1, <2>1 DEF UploadFits, NotSent
  <2>3. \A h \in WorkerState : HandlerFits(rows[v], h, upload[v], Clean)
                                 => HandlerFits(rows[v], h, "done", Clean')
    BY <2>1 DEF HandlerFits, Agrees, Fits
  <2> QED
    BY <1>1, <2>1, <2>2, <2>3, UploadStep
<1> QED
  BY <1>3, <1>4, <1>5, <1>6, <1>7, <1>8, <1>9, <1>10 DEF UploadNext

-----------------------------------------------------------------------------
(* The invariant holds, and what follows from it.                          *)

LEMMA InitRuns == Init => RunsInv
<1> SUFFICES ASSUME Init PROVE RunsInv
  OBVIOUS
<1>1. /\ queue = <<>> /\ \A v \in Videos : rows[v] = NoRow /\ upload[v] = "none"
      /\ \A w \in Workers : worker[w].pc = "idle"
      /\ \A a \in Admins : retry[a].pc = "idle"
  BY DEF Init, IdleWorker, IdleRetry
<1>2. DOMAIN queue = {}
  BY <1>1
<1>3. Runs
  BY <1>1, <1>2 DEF Runs, OneRun, UploadFits, NoneSent, Busy, FailedGoesOn
<1> QED
  BY <1>1, <1>3, InitInv DEF RunsInv

\* The first manual retry spends from its bound.
LEMMA RetrySpends ==
  ASSUME TypeOK, NEW a \in Admins, RetryNext(a) \/ RetryDies(a), Unretried'
  PROVE  Unretried /\ retry[a].pc # "idle"
<1>1. spent["retries"] \in Nat
  BY DEF TypeOK
<1>2. CASE \E v \in Videos : LoadRetry(a, v)
  <2>1. spent' = [spent EXCEPT !["retries"] = spent["retries"] + 1]
    BY <1>2 DEF LoadRetry, Spend
  <2>2. spent'["retries"] = spent["retries"] + 1
    BY <2>1 DEF TypeOK
  <2> QED
    BY <1>1, <2>2 DEF Unretried
<1>3. CASE RetryDies(a)
  BY <1>3, FaultSpent DEF RetryDies, Unretried
<1>4. CASE EnqueueRetryFails(a)
  BY <1>4, FaultSpent DEF EnqueueRetryFails, EnqueueRaises, Unretried
<1>5. CASE EnqueueRetry(a) \/ ResetRetried(a)
  BY <1>5 DEF EnqueueRetry, ResetRetried, Unretried
<1> QED
  BY <1>2, <1>3, <1>4, <1>5 DEF RetryNext

\* The others leave the administrators and their bound alone.
LEMMA OthersSpend ==
  ASSUME TypeOK,
         \/ \E v \in Videos : UploadNext(v) \/ UploadDies(v)
         \/ \E w \in Workers : WorkerNext(w) \/ HandlerRaises(w) \/ WorkerDies(w)
  PROVE  UNCHANGED retry /\ (Unretried' <=> Unretried)
<1>1. CASE UNCHANGED <<retry, spent>>
  BY <1>1 DEF Unretried
<1>2. CASE Fault /\ UNCHANGED retry
  BY <1>2, FaultSpent DEF Unretried
<1> QED
  BY <1>1, <1>2
     DEF UploadNext, UploadDies, InsertRow, StoreRaw, SaveRawPath, StoreRawFails, EnqueueUpload,
         EnqueueUploadFails, EnqueueRaises, MarkNotAccepted, MarkQueued, UploadUnchanged,
         WorkerNext, WorkerDies, Dequeue, SkipJob, LoadJob, Claim, RefreshJob, Transcode,
         UploadProcessed, UploadThumbnail, StoreOutput, Complete, RecordSuccess, ProcessingFails,
         HandlerRaises, ReloadFailed, MarkFailed, DecideRetry, RaiseToRq, ReturnToRq, WorkerUnchanged

LEMMA NextRuns ==
  ASSUME Recoverers = {}
  PROVE  RunsInv /\ [Next]_vars => RunsInv'
<1> SUFFICES ASSUME RunsInv, [Next]_vars, Unretried'
             PROVE  Runs' /\ \A a \in Admins : retry'[a].pc = "idle"
  BY NextInv DEF RunsInv
<1>1. Inv /\ TypeOK
  BY DEF RunsInv, Inv
<1>2. ASSUME NEW v \in Videos, UploadNext(v) \/ UploadDies(v)
      PROVE  Runs' /\ UNCHANGED retry /\ Unretried
  BY <1>1, <1>2, OthersSpend, UploadRuns DEF RunsInv
<1>3. ASSUME NEW w \in Workers, WorkerNext(w) \/ HandlerRaises(w) \/ WorkerDies(w)
      PROVE  Runs' /\ UNCHANGED retry /\ Unretried
  BY <1>1, <1>3, OthersSpend, WorkerRuns DEF RunsInv
<1>4. ASSUME NEW a \in Admins, RetryNext(a) \/ RetryDies(a)
      PROVE  FALSE
  BY <1>1, <1>4, RetrySpends DEF RunsInv
<1>5. CASE UNCHANGED vars
  <2>1. Unretried /\ Runs
    BY <1>5 DEF RunsInv, Unretried, vars
  <2> QED
    BY <1>5, <2>1 DEF RunsInv, vars, Runs, OneRun, NoneSent, Busy, Clean, FailedGoesOn
<1>6. \A v \in Videos : ~Age(v)
  BY DEF Age
<1> QED
  BY <1>2, <1>3, <1>4, <1>5, <1>6 DEF Next, RunsInv

LEMMA RunsAlways ==
  ASSUME Recoverers = {}
  PROVE  Spec => []RunsInv
BY InitRuns, NextRuns, PTL DEF Spec

\* A video has one message or one handler, never two, until somebody retries
\* it: whatever dies and whichever answer of Redis is lost.
THEOREM OneRunnerAlways ==
  ASSUME Recoverers = {}
  PROVE  Spec => [](Unretried => OneRunner)
<1>1. ASSUME OneRun, NEW v \in Videos
      PROVE  Cardinality(Waiting(v)) + Cardinality(Runners(v)) <= 1
  <2>1. \A i, j \in Waiting(v) : i = j
    BY <1>1 DEF OneRun, Waiting
  <2>2. \A w, x \in Runners(v) : w = x
    BY <1>1 DEF OneRun, Runners, Busy
  <2>3. Waiting(v) = {} \/ Runners(v) = {}
    BY <1>1 DEF OneRun, Waiting, Runners, Busy
  <2>4. \A S : (\A x, y \in S : x = y) => S = {} \/ \E x : S = {x}
    OBVIOUS
  <2>5. /\ Waiting(v) = {} \/ \E x : Waiting(v) = {x}
        /\ Runners(v) = {} \/ \E x : Runners(v) = {x}
    BY <2>1, <2>2, <2>4
  <2>6. Cardinality({}) = 0 /\ \A x : Cardinality({x}) = 1
    BY FS_EmptySet, FS_Singleton
  <2>7. /\ Cardinality(Waiting(v)) \in {0, 1} /\ Cardinality(Runners(v)) \in {0, 1}
        /\ Cardinality(Waiting(v)) = 0 \/ Cardinality(Runners(v)) = 0
    BY <2>3, <2>5, <2>6
  <2> QED
    BY <2>7
<1>2. RunsInv => (Unretried => OneRunner)
  BY <1>1 DEF RunsInv, Runs, OneRunner
<1> QED
  BY <1>2, RunsAlways, PTL

\* The runs RQ still owes and the attempts counted add up to max_attempts at
\* every step, until a fault takes some: for every max_attempts.
THEOREM RetriesAlwaysAligned ==
  ASSUME Recoverers = {}
  PROVE  Spec => [](Unretried => RetriesAligned)
<1>1. RunsInv => (Unretried => RetriesAligned)
  <2> SUFFICES ASSUME Runs, Clean, NEW v \in Videos
               PROVE  /\ \A i \in Waiting(v) : rows[v].attempts + queue[i].left + 1 = MaxAttempts
                      /\ \A w \in Runners(v) :
                           rows[v].attempts + worker[w].left =
                             IF worker[w].pc \in {"loading", "claiming"}
                             THEN MaxAttempts - 1 ELSE MaxAttempts
    BY DEF RunsInv, RetriesAligned, Clean
  <2>1. ASSUME NEW i \in Waiting(v)
        PROVE  rows[v].attempts + queue[i].left + 1 = MaxAttempts
    BY <2>1 DEF Waiting, Runs, MessageFits, Fits
  <2>2. ASSUME NEW w \in Runners(v)
        PROVE  rows[v].attempts + worker[w].left =
                 IF worker[w].pc \in {"loading", "claiming"} THEN MaxAttempts - 1 ELSE MaxAttempts
    <3>1. w \in Workers /\ worker[w].video = v /\ HandlerFits(rows[v], worker[w], upload[v], Clean)
      BY <2>2 DEF Runners, Runs, Busy
    <3> QED
      BY <3>1 DEF HandlerFits, Fits, Unclaimed
  <2> QED
    BY <2>1, <2>2
<1> QED
  BY <1>1, RunsAlways, PTL

\* No FAILED row with attempts left is dropped between RQ, which runs it no
\* more, and cleanup, which waits for retry_exhausted, unless a process died or
\* raised outside the processing, or an answer of Redis was lost.
THEOREM FailedAlwaysGoesOn ==
  ASSUME Recoverers = {}
  PROVE  Spec => [](Unretried => NoFailedInLimbo)
<1>1. \A v \in Videos : ~NoneSent(v) => Waiting(v) \cup Runners(v) # {}
  BY DEF NoneSent, Waiting, Runners, Busy
<1>2. RunsInv => (Unretried => NoFailedInLimbo)
  BY <1>1 DEF RunsInv, Runs, FailedGoesOn, Unfinished, NoFailedInLimbo, HasStatus, Clean
<1> QED
  BY <1>2, RunsAlways, PTL

\* A job is not attempted more often than max_attempts says, whoever dies or
\* raises and however often RQ runs the message again.
THEOREM AttemptsAlwaysWithinMax ==
  ASSUME Recoverers = {}
  PROVE  Spec => [](Unretried => AttemptsWithinMax)
<1>1. RunsInv => (Unretried => AttemptsWithinMax)
  BY DEF RunsInv, Runs, UploadFits, AttemptsWithinMax
<1> QED
  BY <1>1, RunsAlways, PTL

-----------------------------------------------------------------------------
(* VideoJobs implements JobLife where nobody retries or recovers.          *)

LoneInv == Inv /\ Runs /\ Unretried

LEMMA LoneAlways ==
  ASSUME Recoverers = {}, Admins = {}
  PROVE  /\ Init => LoneInv
         /\ LoneInv /\ [Next]_vars => LoneInv'
<1>1. Init => LoneInv
  BY InitRuns DEF LoneInv, RunsInv, Init, Unretried
<1>2. ASSUME LoneInv, [Next]_vars
      PROVE  LoneInv'
  <2>1. Unretried'
    BY <1>2, OthersSpend DEF LoneInv, Inv, Next, vars, Unretried, Age
  <2>2. RunsInv
    BY <1>2 DEF LoneInv, RunsInv
  <2>3. RunsInv'
    BY <1>2, <2>2, NextRuns
  <2> QED
    BY <2>1, <2>3 DEF LoneInv, RunsInv
<1> QED
  BY <1>1, <1>2

\* Who acts: an upload or a worker, or nobody.
LEMMA LoneSteps ==
  ASSUME Recoverers = {}, Admins = {}, [Next]_vars
  PROVE  \/ \E v \in Videos : UploadNext(v) \/ UploadDies(v)
         \/ \E w \in Workers : WorkerNext(w) \/ HandlerRaises(w) \/ WorkerDies(w)
         \/ UNCHANGED vars
BY DEF Next, Age

\* Each action of a worker: it commits a run's begin or verdict, to a row that
\* is not COMPLETED or that it has loaded COMPLETED, or leaves the table alone.
LEMMA WorkerWrites ==
  ASSUME Inv, Runs, NEW w \in Workers, WorkerNext(w) \/ HandlerRaises(w) \/ WorkerDies(w)
  PROVE  \/ UNCHANGED rows
         \/ /\ worker[w].pc # "idle"
            /\ \/ rows[worker[w].video].status # "COMPLETED"
               \/ /\ worker[w].pc = "marking" /\ worker'[w].pc = "deciding"
                  /\ worker[w].snap.status = "COMPLETED"
            /\ \A x \in Videos \ {worker[w].video} : rows'[x] = rows[x]
<1>1. CASE Claim(w) \/ Complete(w) \/ MarkFailed(w)
  <2>1. worker[w].pc \in {"claiming", "completing", "marking"}
    BY <1>1 DEF Claim, Complete, MarkFailed
  <2>2. HandlerFits(rows[worker[w].video], worker[w], upload[worker[w].video], Clean)
    BY <2>1 DEF Runs, Busy
  <2>3. \A x \in Videos \ {worker[w].video} : rows'[x] = rows[x]
    BY <1>1 DEF Claim, Complete, MarkFailed, Commit, Inv, TypeOK
  <2>4. worker[w].pc = "marking" => worker'[w].pc = "deciding"
    BY <1>1 DEF Claim, Complete, MarkFailed, WorkerDrops, Inv, TypeOK, WorkerState
  <2> QED
    BY <2>1, <2>2, <2>3, <2>4 DEF HandlerFits, Agrees, Holding, Processing
<1>2. CASE UNCHANGED rows
  BY <1>2
<1> QED
  BY <1>1, <1>2
     DEF WorkerNext, WorkerDies, Dequeue, SkipJob, LoadJob, RefreshJob, Transcode,
         UploadProcessed, UploadThumbnail, StoreOutput, RecordSuccess, ProcessingFails,
         HandlerRaises, ReloadFailed, DecideRetry, RaiseToRq, ReturnToRq

\* A COMPLETED row is changed by nobody but the upload's own late commit and a
\* worker that raised after its run had completed the row: no other handler is
\* at work on it, for it would hold the only message.
THEOREM CompletedAlwaysKept ==
  ASSUME Recoverers = {}, Admins = {}
  PROVE  Spec => CompletedIsKept
<1>1. ASSUME LoneInv, [Next]_vars, NEW v \in Videos, HasStatus(v, {"COMPLETED"}), rows'[v] # rows[v]
      PROVE  \/ upload[v] \in {"refusing", "marking"} /\ upload'[v] = "done"
             \/ \E w \in Runners(v) :
                  /\ worker[w].pc = "marking" /\ worker'[w].pc = "deciding"
                  /\ worker[w].snap.status = "COMPLETED"
  <2>1. Inv /\ Runs /\ TypeOK /\ rows[v] # NoRow /\ rows[v].status = "COMPLETED"
    BY <1>1 DEF LoneInv, Inv, HasStatus
  <2>2. CASE \E w \in Workers : WorkerNext(w) \/ HandlerRaises(w) \/ WorkerDies(w)
    <3>1. PICK w \in Workers : WorkerNext(w) \/ HandlerRaises(w) \/ WorkerDies(w)
      BY <2>2
    <3>2. worker[w].pc # "idle" /\ worker[w].video = v
      BY <1>1, <2>1, <3>1, WorkerWrites
    <3> QED
      BY <1>1, <2>1, <3>1, <3>2, WorkerWrites DEF Runners
  <2>3. ASSUME NEW u \in Videos, UploadNext(u) \/ UploadDies(u)
        PROVE  upload[v] \in {"refusing", "marking"} /\ upload'[v] = "done"
    <3>1. u = v
      BY <1>1, <2>1, <2>3
         DEF TypeOK, Commit, UploadNext, UploadDies, InsertRow, StoreRaw, SaveRawPath, StoreRawFails,
             EnqueueUpload, EnqueueUploadFails, MarkNotAccepted, MarkQueued
    <3>2. ~NotSent(upload[v], Clean) /\ UploadFits(rows[v], upload[v], Clean)
      BY <2>1 DEF Runs, UploadFits
    <3>3. CASE MarkNotAccepted(v) \/ MarkQueued(v)
      BY <2>1, <3>3 DEF MarkNotAccepted, MarkQueued, UploadAt, TypeOK
    <3>4. CASE UNCHANGED rows
      BY <1>1, <3>4
    <3> QED
      BY <2>3, <3>1, <3>2, <3>3, <3>4
         DEF NotSent, UploadNext, UploadDies, InsertRow, StoreRaw, SaveRawPath, StoreRawFails,
             EnqueueUpload, EnqueueUploadFails
  <2>4. CASE UNCHANGED vars
    BY <1>1, <2>4 DEF vars
  <2> QED
    BY <1>1, <2>2, <2>3, <2>4, LoneSteps
<1>2. LoneInv /\ [Next]_vars
        => [\A v \in Videos :
              HasStatus(v, {"COMPLETED"}) /\ rows'[v] # rows[v]
                => \/ upload[v] \in {"refusing", "marking"} /\ upload'[v] = "done"
                   \/ \E w \in Runners(v) :
                        /\ worker[w].pc = "marking" /\ worker'[w].pc = "deciding"
                        /\ worker[w].snap.status = "COMPLETED"]_vars
  BY <1>1
<1> QED
  BY <1>2, LoneAlways, PTL DEF Spec, CompletedIsKept

\* What VideoJobs!Life maps the variables of JobLife to.
LifeStatus  == [v \in Videos |-> IF rows[v] = NoRow THEN "none" ELSE rows[v].status]
LifeTries   == [v \in Videos |-> IF rows[v] = NoRow THEN 0 ELSE rows[v].attempts]
LifeRunning == {v \in Videos : \E w \in Runners(v) : worker[w].pc \in Processing}
LifeOpen    == {v \in Videos : upload[v] \notin {"none", "done"}}

StatusOf(row) == IF row = NoRow THEN "none" ELSE row.status
TriesOf(row)  == IF row = NoRow THEN 0 ELSE row.attempts

\* One row changes: so does the abstract job.
LEMMA OneRowMaps ==
  ASSUME NEW v \in Videos, \A x \in Videos \ {v} : rows'[x] = rows[x]
  PROVE  /\ LifeStatus' = [LifeStatus EXCEPT ![v] = StatusOf(rows'[v])]
         /\ LifeTries' = [LifeTries EXCEPT ![v] = TriesOf(rows'[v])]
         /\ LifeStatus[v] = StatusOf(rows[v]) /\ LifeTries[v] = TriesOf(rows[v])
         /\ StatusOf(rows'[v]) = StatusOf(rows[v]) => LifeStatus' = LifeStatus
         /\ TriesOf(rows'[v]) = TriesOf(rows[v]) => LifeTries' = LifeTries
<1>1. /\ LifeStatus = [x \in Videos |-> StatusOf(rows[x])]
      /\ LifeTries = [x \in Videos |-> TriesOf(rows[x])]
      /\ LifeStatus' = [x \in Videos |-> StatusOf(rows'[x])]
      /\ LifeTries' = [x \in Videos |-> TriesOf(rows'[x])]
  BY DEF LifeStatus, LifeTries, StatusOf, TriesOf
<1>2. LifeStatus' = [LifeStatus EXCEPT ![v] = StatusOf(rows'[v])]
  BY <1>1
<1>3. LifeTries' = [LifeTries EXCEPT ![v] = TriesOf(rows'[v])]
  BY <1>1
<1>4. LifeStatus[v] = StatusOf(rows[v]) /\ LifeTries[v] = TriesOf(rows[v])
  BY <1>1
<1>5. /\ StatusOf(rows'[v]) = StatusOf(rows[v]) => LifeStatus' = LifeStatus
      /\ TriesOf(rows'[v]) = TriesOf(rows[v]) => LifeTries' = LifeTries
  BY <1>1
<1> QED
  BY <1>2, <1>3, <1>4, <1>5

LEMMA UploadMaps ==
  ASSUME TypeOK, NEW v \in Videos, NEW up \in UploadPcs, upload' = [upload EXCEPT ![v] = up]
  PROVE  /\ (upload[v] \in {"none", "done"} <=> up \in {"none", "done"}) => LifeOpen' = LifeOpen
         /\ up = "done" => LifeOpen' = LifeOpen \ {v}
         /\ up \notin {"none", "done"} => LifeOpen' = LifeOpen \cup {v}
         /\ v \in LifeOpen <=> upload[v] \notin {"none", "done"}
<1>1. \A x \in Videos : upload'[x] = IF x = v THEN up ELSE upload[x]
  BY DEF TypeOK
<1> QED
  BY <1>1 DEF LifeOpen

LEMMA WorkerMaps ==
  ASSUME TypeOK, OneRun, NEW w \in Workers, NEW v \in Videos,
         \A x \in Workers \ {w} : worker'[x] = worker[x],
         worker[w].pc \in Processing \/ worker'[w].pc \in Processing,
         worker[w].video = v, worker[w].pc # "idle",
         worker'[w].pc \in Processing => worker'[w].video = v
  PROVE  /\ v \in LifeRunning <=> worker[w].pc \in Processing
         /\ v \in LifeRunning' <=> worker'[w].pc \in Processing
         /\ \A x \in Videos \ {v} : x \in LifeRunning' <=> x \in LifeRunning
         /\ LifeRunning' = IF worker'[w].pc \in Processing THEN LifeRunning \cup {v}
                                                       ELSE LifeRunning \ {v}
<1>1. \A x \in Videos :
        /\ x \in LifeRunning
             <=> \E y \in Workers : worker[y].video = x /\ worker[y].pc \in Processing
        /\ x \in LifeRunning'
             <=> \E y \in Workers : worker'[y].video = x /\ worker'[y].pc \in Processing
  BY DEF LifeRunning, Runners, Processing
<1>2. \A y \in Workers : worker[y].video = v /\ worker[y].pc \in Processing => y = w
  BY DEF OneRun, Busy, Processing
<1>3. /\ v \in LifeRunning <=> worker[w].pc \in Processing
      /\ v \in LifeRunning' <=> worker'[w].pc \in Processing
  BY <1>1, <1>2
<1>4. ASSUME NEW x \in Videos \ {v}
      PROVE  x \in LifeRunning' <=> x \in LifeRunning
  BY <1>1
<1>5. LifeRunning \subseteq Videos /\ LifeRunning' \subseteq Videos
  BY DEF LifeRunning
<1> QED
  BY <1>3, <1>4, <1>5

LEMMA InitLife == Init => Life!LifeInit
BY DEF Init, Life!LifeInit, Runners, IdleWorker

LEMMA LifeActions ==
  ASSUME NEW v \in Videos
  PROVE  /\ /\ LifeStatus[v] = "none" /\ LifeStatus' = [LifeStatus EXCEPT ![v] = "UPLOADED"]
            /\ LifeOpen' = LifeOpen \cup {v} /\ LifeTries' = LifeTries /\ LifeRunning' = LifeRunning
            => Life!LifeNext
         /\ /\ v \in LifeOpen /\ LifeOpen' = LifeOpen \ {v}
            /\ \/ LifeStatus' = [LifeStatus EXCEPT ![v] = "QUEUED"]
               \/ LifeStatus' = [LifeStatus EXCEPT ![v] = "FAILED"]
               \/ LifeStatus' = LifeStatus
            /\ LifeTries' = LifeTries /\ LifeRunning' = LifeRunning
            => Life!LifeNext
         /\ /\ v \notin LifeRunning /\ LifeRunning' = LifeRunning \cup {v}
            /\ LifeStatus[v] \in {"UPLOADED", "QUEUED", "PROCESSING", "FAILED"}
            /\ \/ LifeStatus' = [LifeStatus EXCEPT ![v] = "PROCESSING"]
               \/ LifeStatus[v] \in {"QUEUED", "FAILED"} /\ LifeStatus' = LifeStatus
            /\ LifeTries[v] < MaxAttempts /\ LifeTries' = [LifeTries EXCEPT ![v] = @ + 1]
            /\ LifeOpen' = LifeOpen
            => Life!LifeNext
         /\ /\ v \in LifeRunning /\ LifeRunning' = LifeRunning \ {v}
            /\ \/ LifeStatus' = [LifeStatus EXCEPT ![v] = "COMPLETED"]
               \/ LifeStatus' = LifeStatus
            /\ LifeTries' = LifeTries /\ LifeOpen' = LifeOpen
            => Life!LifeNext
         /\ /\ v \notin LifeRunning /\ LifeRunning' = LifeRunning
            /\ LifeStatus[v] # "none" /\ LifeStatus' = [LifeStatus EXCEPT ![v] = "FAILED"]
            /\ LifeTries' = LifeTries /\ LifeOpen' = LifeOpen
            => Life!LifeNext
BY DEF LifeStatus, LifeTries, LifeRunning, LifeOpen, Life!LifeNext, Life!Becomes,
       Life!Accept, Life!Mark, Life!Abandon, Life!Begin, Life!Complete, Life!Lose, Life!Fail

LifeStutters == UNCHANGED <<LifeStatus, LifeTries, LifeRunning, LifeOpen>>

LEMMA UploadLife ==
  ASSUME LoneInv, NEW v \in Videos, UploadNext(v) \/ UploadDies(v)
  PROVE  Life!LifeNext \/ LifeStutters
<1>1. /\ TypeOK /\ rows[v] \in MaybeRow /\ UploadFits(rows[v], upload[v], Clean)
      /\ NewRow \in Row /\ NewRow # NoRow
      /\ UploadSnap \in Row /\ UploadSnap \in RowInHand /\ Enqueued(UploadSnap) \in RowInHand
      /\ NotAccepted(UploadSnap) \in RowInHand /\ NotAccepted(NewRow) \in RowInHand
  BY NewRowType, UploadSnapType, AssignedType, NoRowAssumption DEF LoneInv, Inv, TypeOK, Runs
<1>2. UNCHANGED worker
  BY DEF UploadNext, UploadDies, InsertRow, StoreRaw, SaveRawPath, StoreRawFails, EnqueueUpload,
         EnqueueUploadFails, MarkNotAccepted, MarkQueued, UploadUnchanged
<1>3. LifeRunning' = LifeRunning
  BY <1>2 DEF LifeRunning, Runners
<1>4. UNCHANGED rows => LifeStatus' = LifeStatus /\ LifeTries' = LifeTries
  BY DEF LifeStatus, LifeTries
<1> USE DEF UploadAt
<1>5. CASE InsertRow(v)
  <2>1. rows[v] = NoRow /\ rows'[v] = NewRow /\ \A x \in Videos \ {v} : rows'[x] = rows[x]
    BY <1>1, <1>5 DEF InsertRow, UploadFits, TypeOK
  <2>2. /\ StatusOf(rows[v]) = "none" /\ StatusOf(rows'[v]) = "UPLOADED"
        /\ TriesOf(rows'[v]) = TriesOf(rows[v])
    BY <1>1, <2>1 DEF StatusOf, TriesOf, NewRow
  <2>3. LifeOpen' = LifeOpen \cup {v}
    <3>1. "storing" \in UploadPcs /\ upload' = [upload EXCEPT ![v] = "storing"]
      BY <1>5 DEF InsertRow, UploadPcs
    <3> QED
      BY <1>1, <3>1, UploadMaps
  <2> QED
    BY <1>3, <2>1, <2>2, <2>3, OneRowMaps, LifeActions
<1>6. CASE StoreRaw(v) \/ EnqueueUpload(v) \/ EnqueueUploadFails(v)
  <2>1. PICK up \in {"saving", "enqueuing", "marking", "refusing"} : upload' = [upload EXCEPT ![v] = up]
    BY <1>6 DEF StoreRaw, EnqueueUpload, EnqueueUploadFails
  <2>2. UNCHANGED rows /\ upload[v] \in {"storing", "enqueuing"}
    BY <1>6 DEF StoreRaw, EnqueueUpload, EnqueueUploadFails
  <2>3. LifeOpen' = LifeOpen
    BY <1>1, <2>1, <2>2, UploadMaps DEF UploadPcs
  <2> QED
    BY <1>3, <1>4, <2>2, <2>3 DEF LifeStutters
<1>7. CASE SaveRawPath(v)
  <2>1. /\ rows'[v].status = rows[v].status /\ rows'[v].attempts = rows[v].attempts
        /\ rows[v] # NoRow /\ rows'[v] # NoRow
        /\ \A x \in Videos \ {v} : rows'[x] = rows[x]
    BY <1>1, <1>7, CommitRow, MarkWrites DEF SaveRawPath
  <2>2. StatusOf(rows'[v]) = StatusOf(rows[v]) /\ TriesOf(rows'[v]) = TriesOf(rows[v])
    BY <2>1 DEF StatusOf, TriesOf
  <2>3. LifeOpen' = LifeOpen
    <3>1. /\ "enqueuing" \in UploadPcs /\ upload' = [upload EXCEPT ![v] = "enqueuing"]
          /\ upload[v] = "saving"
      BY <1>7 DEF SaveRawPath, UploadPcs
    <3> QED
      BY <1>1, <3>1, UploadMaps
  <2> QED
    BY <1>3, <2>1, <2>2, <2>3, OneRowMaps DEF LifeStutters
<1>8. CASE StoreRawFails(v) \/ UploadDies(v) \/ MarkNotAccepted(v) \/ MarkQueued(v)
  <2>1. v \in LifeOpen /\ LifeOpen' = LifeOpen \ {v}
    <3>1. /\ "done" \in UploadPcs /\ upload' = [upload EXCEPT ![v] = "done"]
          /\ upload[v] \notin {"none", "done"}
      BY <1>8 DEF StoreRawFails, UploadDies, MarkNotAccepted, MarkQueued, UploadPcs
    <3> QED
      BY <1>1, <3>1, UploadMaps
  <2>2. CASE UNCHANGED rows
    BY <1>3, <1>4, <2>1, <2>2, LifeActions
  <2>3. CASE \/ Commit(v, NewRow, NotAccepted(NewRow))
             \/ Commit(v, UploadSnap, NotAccepted(UploadSnap))
             \/ Commit(v, UploadSnap, Enqueued(UploadSnap))
    <3>1. /\ rows'[v].status \in {"QUEUED", "FAILED"} /\ rows'[v].attempts = rows[v].attempts
          /\ rows[v] # NoRow /\ rows'[v] # NoRow
          /\ \A x \in Videos \ {v} : rows'[x] = rows[x]
      BY <1>1, <2>3, CommitRow, MarkWrites
    <3>2. StatusOf(rows'[v]) \in {"QUEUED", "FAILED"} /\ TriesOf(rows'[v]) = TriesOf(rows[v])
      BY <3>1 DEF StatusOf, TriesOf
    <3>3. /\ LifeStatus' = [LifeStatus EXCEPT ![v] = StatusOf(rows'[v])]
          /\ LifeTries' = LifeTries
      BY <3>1, <3>2, OneRowMaps
    <3>4. \/ LifeStatus' = [LifeStatus EXCEPT ![v] = "QUEUED"]
          \/ LifeStatus' = [LifeStatus EXCEPT ![v] = "FAILED"]
      BY <3>2, <3>3
    <3> QED
      BY <1>3, <2>1, <3>3, <3>4, LifeActions
  <2> QED
    BY <1>8, <2>2, <2>3 DEF StoreRawFails, UploadDies, MarkNotAccepted, MarkQueued
<1> QED
  BY <1>5, <1>6, <1>7, <1>8 DEF UploadNext

LEMMA WorkerLife ==
  ASSUME LoneInv, NEW w \in Workers, WorkerNext(w) \/ HandlerRaises(w) \/ WorkerDies(w)
  PROVE  Life!LifeNext \/ LifeStutters
<1> DEFINE h == worker[w]
<1>0. PICK v \in Videos : v = worker[w].video
  BY DEF LoneInv, Inv, TypeOK, WorkerState
<1>1. /\ TypeOK /\ OneRun /\ worker[w] \in WorkerState /\ NoRow \in MaybeRow /\ Clean \in BOOLEAN
      /\ h.pc \in Holding => h.snap \in Row /\ h.snap # NoRow
      /\ rows[v] \in MaybeRow
  BY <1>0 DEF LoneInv, Inv, TypeOK, SnapsHeld, WorkerState, MaybeRow, Clean, Runs
<1>2. h.pc # "idle" => /\ HandlerFits(rows[v], h, upload[v], Clean)
                       /\ rows[v] \in Row /\ rows[v] # NoRow
  BY <1>0, <1>1 DEF LoneInv, Runs, Busy, HandlerFits, MaybeRow
<1>3. UNCHANGED upload
  BY DEF WorkerNext, WorkerDies, Dequeue, SkipJob, LoadJob, Claim, RefreshJob, Transcode,
         UploadProcessed, UploadThumbnail, StoreOutput, Complete, RecordSuccess, ProcessingFails,
         HandlerRaises, ReloadFailed, MarkFailed, DecideRetry, RaiseToRq, ReturnToRq, WorkerUnchanged
<1>4. LifeOpen' = LifeOpen
  BY <1>3 DEF LifeOpen
<1>5. UNCHANGED rows => LifeStatus' = LifeStatus /\ LifeTries' = LifeTries
  BY DEF LifeStatus, LifeTries
<1>6. \A x \in Workers : worker'[x] \in WorkerState
  BY WorkerInv DEF LoneInv, Inv, TypeOK
<1>7. \A x \in Workers \ {w} : worker'[x] = worker[x]
  BY <1>1
     DEF WorkerNext, WorkerDies, Dequeue, SkipJob, LoadJob, Claim, RefreshJob, Transcode,
         UploadProcessed, UploadThumbnail, StoreOutput, Complete, RecordSuccess, ProcessingFails,
         HandlerRaises, ReloadFailed, MarkFailed, DecideRetry, RaiseToRq, ReturnToRq, Load,
         WorkerAt, WorkerDrops, TypeOK
<1>8. CASE UNCHANGED rows /\ h.pc \notin Processing /\ worker'[w].pc \notin Processing
  <2>1. LifeRunning' = LifeRunning
    BY <1>7, <1>8 DEF LifeRunning, Runners, Processing
  <2> QED
    BY <1>4, <1>5, <1>8, <2>1 DEF LifeStutters
<1>9. CASE /\ UNCHANGED rows /\ h.pc \in Processing
           /\ worker'[w].pc \in Processing => worker'[w].video = v
  <2>1. h.pc # "idle"
    BY <1>9 DEF Processing
  <2>2. /\ v \in LifeRunning
        /\ LifeRunning' = LifeRunning \cup {v} \/ LifeRunning' = LifeRunning \ {v}
    BY <1>0, <1>1, <1>7, <1>9, <2>1, WorkerMaps
  <2>3. LifeRunning' = LifeRunning \/ LifeRunning' = LifeRunning \ {v}
    BY <2>2
  <2> QED
    BY <1>4, <1>5, <1>9, <2>2, <2>3, LifeActions DEF LifeStutters
<1>10. CASE Claim(w)
  <2>1. GoesOn(w, "refreshing", NoRow) /\ h.pc = "claiming"
    BY <1>1, <1>10, HandlerMoves DEF Claim, WorkerDrops, WorkerPcs
  <2>2. v \notin LifeRunning /\ LifeRunning' = LifeRunning \cup {v}
    BY <1>0, <1>1, <1>7, <2>1, WorkerMaps DEF GoesOn, Processing
  <2>3. /\ rows'[v] = Flush(rows[v], h.snap, Claimed(h.snap)) /\ rows'[v] \in Row /\ rows'[v] # NoRow
        /\ \A x \in Videos \ {v} : rows'[x] = rows[x]
    BY <1>0, <1>1, <1>10, CommitRow, AssignedType DEF Claim, Holding
  <2>4. rows[v].attempts < MaxAttempts
    BY <1>1, <1>2, <2>1, <2>3, ClaimFits DEF GoesOn, Holding
  <2>5. /\ rows[v].status \in {"UPLOADED", "QUEUED", "PROCESSING", "FAILED"}
        /\ Agrees(rows[v], h.snap, upload[v]) /\ rows[v].status # "COMPLETED"
    BY <1>2, <2>1 DEF HandlerFits, Row, Statuses, Holding
  <2>6. /\ rows'[v].attempts = rows[v].attempts + 1
        /\ \/ rows'[v].status = "PROCESSING"
           \/ rows'[v].status = rows[v].status /\ rows[v].status \in {"QUEUED", "FAILED"}
    BY <1>1, <1>2, <2>1, <2>3, <2>5, ClaimWrites DEF Holding
  <2>7. /\ StatusOf(rows[v]) \in {"UPLOADED", "QUEUED", "PROCESSING", "FAILED"}
        /\ \/ StatusOf(rows'[v]) = "PROCESSING"
           \/ /\ StatusOf(rows'[v]) = StatusOf(rows[v])
              /\ StatusOf(rows[v]) \in {"QUEUED", "FAILED"}
        /\ TriesOf(rows[v]) < MaxAttempts /\ TriesOf(rows'[v]) = TriesOf(rows[v]) + 1
    BY <1>2, <2>1, <2>3, <2>4, <2>5, <2>6 DEF StatusOf, TriesOf
  <2>8. /\ LifeStatus' = [LifeStatus EXCEPT ![v] = StatusOf(rows'[v])]
        /\ LifeTries' = [LifeTries EXCEPT ![v] = TriesOf(rows'[v])]
        /\ LifeStatus[v] = StatusOf(rows[v]) /\ LifeTries[v] = TriesOf(rows[v])
        /\ StatusOf(rows'[v]) = StatusOf(rows[v]) => LifeStatus' = LifeStatus
    BY <2>3, OneRowMaps
  <2>9. LifeTries' = [LifeTries EXCEPT ![v] = LifeTries[v] + 1]
    BY <2>7, <2>8
  <2> QED
    BY <1>4, <2>2, <2>7, <2>8, <2>9, LifeActions
<1>11. CASE Complete(w)
  <2>1. h.pc \in Processing /\ h.pc = "completing" /\ worker'[w].pc = "completed"
    <3>1. GoesOn(w, "completed", NoRow)
      BY <1>1, <1>11, HandlerMoves DEF Complete, WorkerDrops, WorkerPcs
    <3> QED
      BY <1>11, <3>1 DEF Complete, Processing, GoesOn
  <2>2. v \in LifeRunning /\ LifeRunning' = LifeRunning \ {v}
    BY <1>0, <1>1, <1>7, <2>1, WorkerMaps DEF Processing
  <2>3. /\ rows'[v] = Flush(rows[v], h.snap, Completed(h.snap)) /\ rows'[v] \in Row /\ rows'[v] # NoRow
        /\ \A x \in Videos \ {v} : rows'[x] = rows[x]
    BY <1>0, <1>1, <1>11, CommitRow, AssignedType DEF Complete, Holding
  <2>4. rows'[v].attempts = rows[v].attempts /\ rows'[v].status = "COMPLETED"
    <3>1. Agrees(rows[v], h.snap, upload[v]) /\ h.snap.status # "COMPLETED"
      BY <1>2, <2>1 DEF Holding, HandlerFits, Processing
    <3> QED
      BY <1>1, <1>2, <2>1, <2>3, <3>1, CompleteWrites DEF Holding
  <2>5. StatusOf(rows'[v]) = "COMPLETED" /\ TriesOf(rows'[v]) = TriesOf(rows[v])
    BY <1>2, <2>1, <2>3, <2>4 DEF StatusOf, TriesOf
  <2>6. LifeStatus' = [LifeStatus EXCEPT ![v] = StatusOf(rows'[v])] /\ LifeTries' = LifeTries
    BY <2>3, <2>5, OneRowMaps
  <2> QED
    BY <1>4, <2>2, <2>5, <2>6, LifeActions
<1>12. CASE MarkFailed(w)
  <2>1. h.pc = "marking" /\ worker'[w].pc = "deciding" /\ worker'[w].video = v
    <3>1. GoesOn(w, "deciding", NoRow)
      BY <1>1, <1>12, HandlerMoves DEF MarkFailed, WorkerDrops, WorkerPcs
    <3> QED
      BY <1>0, <1>12, <3>1 DEF MarkFailed, GoesOn
  <2>2. v \notin LifeRunning /\ LifeRunning' = LifeRunning
    <3>1. \A x \in Workers : worker[x].pc \in Processing /\ worker[x].video = v => x = w
      BY <1>0, <1>1, <2>1 DEF OneRun, Busy, Processing
    <3> QED
      BY <1>7, <2>1, <3>1 DEF LifeRunning, Runners, Processing
  <2>3. /\ rows'[v] = Flush(rows[v], h.snap, Failed(h.snap)) /\ rows'[v] \in Row /\ rows'[v] # NoRow
        /\ \A x \in Videos \ {v} : rows'[x] = rows[x]
    BY <1>0, <1>1, <1>12, CommitRow, AssignedType DEF MarkFailed, Holding
  <2>4. rows'[v].attempts = rows[v].attempts /\ rows'[v].status \in {"FAILED", rows[v].status}
    <3>1. Agrees(rows[v], h.snap, upload[v])
      BY <1>2, <2>1 DEF Holding, HandlerFits
    <3> QED
      BY <1>1, <1>2, <2>1, <2>3, <3>1, FailWrites DEF Holding
  <2>5. /\ StatusOf(rows'[v]) \in {"FAILED", StatusOf(rows[v])} /\ TriesOf(rows'[v]) = TriesOf(rows[v])
        /\ StatusOf(rows[v]) # "none"
    BY <1>2, <2>1, <2>3, <2>4 DEF StatusOf, TriesOf, Row, Statuses
  <2>6. /\ LifeStatus' = [LifeStatus EXCEPT ![v] = StatusOf(rows'[v])] /\ LifeTries' = LifeTries
        /\ LifeStatus[v] = StatusOf(rows[v])
        /\ StatusOf(rows'[v]) = StatusOf(rows[v]) => LifeStatus' = LifeStatus
    BY <2>3, <2>5, OneRowMaps
  <2>7. CASE StatusOf(rows'[v]) = "FAILED"
    BY <1>4, <2>2, <2>5, <2>6, <2>7, LifeActions
  <2>8. CASE StatusOf(rows'[v]) = StatusOf(rows[v])
    BY <1>4, <2>2, <2>6, <2>8 DEF LifeStutters
  <2> QED
    BY <2>5, <2>7, <2>8
<1>13. CASE \/ Dequeue(w) \/ SkipJob(w) \/ LoadJob(w) \/ RecordSuccess(w) \/ ReloadFailed(w)
            \/ DecideRetry(w) \/ RaiseToRq(w) \/ ReturnToRq(w)
  <2>1. UNCHANGED rows /\ h.pc \notin Processing /\ worker'[w].pc \notin Processing
    BY <1>1, <1>13
       DEF Dequeue, SkipJob, LoadJob, Load, RecordSuccess, ReloadFailed, DecideRetry, WorkerAt,
           RaiseToRq, ReturnToRq, IdleWorker, TypeOK, WorkerState, Processing
  <2> QED
    BY <1>8, <2>1
<1>14. CASE \/ RefreshJob(w) \/ Transcode(w) \/ UploadProcessed(w)
             \/ UploadThumbnail(w) \/ ProcessingFails(w)
  <2>1. UNCHANGED rows /\ h.pc \in Processing
    BY <1>14
       DEF RefreshJob, Transcode, UploadProcessed, UploadThumbnail, StoreOutput, ProcessingFails,
           Processing
  <2>2. worker'[w].video = v
    BY <1>0, <1>1, <1>14
       DEF RefreshJob, Transcode, UploadProcessed, UploadThumbnail, StoreOutput, ProcessingFails,
           Load, WorkerAt, WorkerDrops, TypeOK, WorkerState
  <2> QED
    BY <1>9, <2>1, <2>2
<1>15. CASE HandlerRaises(w) \/ WorkerDies(w)
  <2>1. UNCHANGED rows /\ worker'[w].pc \in {"idle", "failing"}
    BY <1>1, <1>15 DEF HandlerRaises, WorkerDies, WorkerDrops, IdleWorker, TypeOK, WorkerState
  <2> QED
    BY <1>8, <1>9, <2>1 DEF Processing
<1> QED
  BY <1>10, <1>11, <1>12, <1>13, <1>14, <1>15 DEF WorkerNext

\* Uploads, the queue and the workers implement JobLife, whatever dies or raises
\* and whichever message or answer is lost: runs of a job do not overlap, are at
\* most max_attempts, and alone complete it.
THEOREM JobsLiveAsPromised ==
  ASSUME Recoverers = {}, Admins = {}
  PROVE  Spec => ImplementsLife
<1>1. ASSUME LoneInv, [Next]_vars
      PROVE  Life!LifeNext \/ LifeStutters
  <2>1. CASE UNCHANGED vars
    BY <2>1 DEF vars, LifeStutters, LifeStatus, LifeTries, LifeRunning, LifeOpen, Runners
  <2> QED
    BY <1>1, <2>1, LoneSteps, UploadLife, WorkerLife
<1>2. LoneInv /\ [Next]_vars => [Life!LifeNext]_(Life!lifeVars)
  <2>1. LifeStutters => UNCHANGED Life!lifeVars
    BY DEF LifeStutters, LifeStatus, LifeTries, LifeRunning, LifeOpen, Life!lifeVars
  <2> QED
    BY <1>1, <2>1
<1> QED
  BY <1>2, InitLife, LoneAlways, PTL DEF Spec, ImplementsLife, Life!LifeSpec

-----------------------------------------------------------------------------
(* One manual retry takes no keys away.                                    *)
(*                                                                         *)
(* Only a reset writes outputs to FALSE, and only if the row it loaded had *)
(* keys.  A FAILED row that nobody has retried has none (NoKeysYet): the   *)
(* run that would have written them had the only message.                  *)

NoKeysYet ==
  \A v \in Videos :
    rows[v] # NoRow /\ rows[v].outputs =>
      /\ rows[v].status # "FAILED" /\ upload[v] \in {"marking", "done"}
      /\ \A i \in DOMAIN queue : queue[i].video # v
      /\ \A w \in Workers :
           Busy(w) /\ worker[w].video = v => worker[w].pc \in {"completed", "returning"}

ResetsKeepKeys == \A a \in Admins : retry[a].pc # "idle" => ~retry[a].snap.outputs

\* A key that a handler has loaded is still in the row.
LoadedKeysStay ==
  \A w \in Workers :
    worker[w].pc \in Holding /\ worker[w].snap.outputs
      => rows[worker[w].video] # NoRow /\ rows[worker[w].video].outputs

RowsAreInserted == \A v \in Videos : rows[v] # NoRow => upload[v] # "none"

KeysHold ==
  /\ CompletedHasKeys /\ ResetsKeepKeys /\ LoadedKeysStay /\ RowsAreInserted
  /\ Unretried => NoKeysYet

OneRetry == Clean /\ spent["retries"] <= 1

KeysInv == RunsInv /\ (OneRetry => KeysHold)

\* A step that neither writes a key, nor takes one away, nor completes a row.
KeysUntouched ==
  \A v \in Videos :
    \/ rows'[v] = rows[v]
    \/ /\ rows[v] # NoRow /\ rows'[v] # NoRow /\ rows'[v].outputs = rows[v].outputs
       /\ rows'[v].status = "COMPLETED" => rows[v].status = "COMPLETED"

LEMMA CommitLeavesKeys ==
  ASSUME TypeOK, NEW v \in Videos, NEW old \in Row, NEW new \in RowInHand,
         Commit(v, old, new), NoVerdict(old, new), new.outputs = old.outputs
  PROVE  KeysUntouched
<1>1. /\ rows[v] \in Row /\ rows[v] # NoRow
      /\ rows'[v] = Flush(rows[v], old, new) /\ rows'[v] # NoRow
      /\ \A x \in Videos \ {v} : rows'[x] = rows[x]
  BY CommitRow
<1>2. /\ Flush(rows[v], old, new).outputs = rows[v].outputs
      /\ Flush(rows[v], old, new).status = "COMPLETED" => rows[v].status = "COMPLETED"
  BY <1>1 DEF Flush, NoVerdict, Row, RowInHand
<1> QED
  BY <1>1, <1>2 DEF KeysUntouched

\* What each handler but Complete assigns leaves the keys alone, a reset if the
\* row it loaded had none.
LEMMA AssignedKeys ==
  ASSUME NEW row \in Row
  PROVE  /\ WithRaw(row).outputs = row.outputs /\ Enqueued(row).outputs = row.outputs
         /\ NotAccepted(row).outputs = row.outputs /\ Claimed(row).outputs = row.outputs
         /\ Failed(row).outputs = row.outputs
         /\ ~row.outputs => Retried(row).outputs = row.outputs
<1> USE DEF Row
<1>1. WithRaw(row).outputs = row.outputs /\ Enqueued(row).outputs = row.outputs
  BY DEF WithRaw, Enqueued
<1>2. NotAccepted(row).outputs = row.outputs /\ Claimed(row).outputs = row.outputs
  BY DEF NotAccepted, Claimed
<1>3. Failed(row).outputs = row.outputs
  BY DEF Failed
<1>4. ~row.outputs => Retried(row).outputs = row.outputs
  BY DEF Retried
<1> QED
  BY <1>1, <1>2, <1>3, <1>4

\* Whoever moves, the other handlers keep what they have loaded.
LEMMA LoadedKeys ==
  ASSUME TypeOK, LoadedKeysStay, NEW others \in SUBSET Workers,
         \A x \in Videos : rows[x] # NoRow => rows'[x] # NoRow /\ (rows[x].outputs => rows'[x].outputs),
         \A x \in others : worker'[x] = worker[x],
         \A w \in Workers \ others :
           worker'[w].pc \in Holding /\ worker'[w].snap.outputs
             => rows'[worker'[w].video] # NoRow /\ rows'[worker'[w].video].outputs
  PROVE  LoadedKeysStay'
<1>1. \A w \in Workers : worker[w].video \in Videos
  BY DEF TypeOK, WorkerState
<1> QED
  BY <1>1 DEF LoadedKeysStay

LEMMA UntouchedStay ==
  ASSUME KeysUntouched
  PROVE  /\ \A x \in Videos :
              rows[x] # NoRow => rows'[x] # NoRow /\ (rows[x].outputs => rows'[x].outputs)
         /\ CompletedHasKeys => CompletedHasKeys'
BY DEF KeysUntouched, CompletedHasKeys, HasStatus

LEMMA UploadKeys ==
  ASSUME RunsInv, KeysHold, NEW v \in Videos, UploadNext(v), Clean'
  PROVE  KeysHold'
<1>1. /\ TypeOK /\ rows[v] \in MaybeRow
      /\ NewRow \in Row /\ NewRow # NoRow /\ ~NewRow.outputs /\ NewRow.status = "UPLOADED"
      /\ UploadSnap \in Row /\ UploadSnap \in RowInHand /\ Enqueued(UploadSnap) \in RowInHand
      /\ NotAccepted(UploadSnap) \in RowInHand /\ NotAccepted(NewRow) \in RowInHand
  BY NewRowType, UploadSnapType, AssignedType, NoRowAssumption DEF RunsInv, Inv, TypeOK, NewRow
<1>2. UNCHANGED <<worker, retry, spent>>
  BY <1>1, FaultSpent
     DEF UploadNext, InsertRow, StoreRaw, SaveRawPath, StoreRawFails, EnqueueUpload, Clean,
         EnqueueUploadFails, EnqueueRaises, MarkNotAccepted, MarkQueued, UploadUnchanged
<1>3. /\ upload'[v] # "none" /\ \A x \in Videos \ {v} : upload'[x] = upload[x]
  BY <1>1
     DEF UploadNext, InsertRow, StoreRaw, SaveRawPath, StoreRawFails, EnqueueUpload,
         EnqueueUploadFails, MarkNotAccepted, MarkQueued, UploadAt, TypeOK
<1>4. ResetsKeepKeys'
  BY <1>2 DEF KeysHold, ResetsKeepKeys
<1>5. CASE InsertRow(v)
  <2>1. /\ rows[v] = NoRow /\ rows'[v] = NewRow /\ \A x \in Videos \ {v} : rows'[x] = rows[x]
        /\ UNCHANGED queue
    BY <1>1, <1>5 DEF InsertRow, KeysHold, RowsAreInserted, TypeOK
  <2>2. CompletedHasKeys' /\ RowsAreInserted'
    BY <1>1, <1>3, <2>1 DEF KeysHold, CompletedHasKeys, HasStatus, RowsAreInserted
  <2>3. LoadedKeysStay'
    BY <1>1, <1>2, <2>1, LoadedKeys DEF KeysHold
  <2>4. Unretried' => NoKeysYet'
    BY <1>1, <1>2, <1>3, <2>1 DEF KeysHold, NoKeysYet, Unretried, Busy
  <2> QED
    BY <1>4, <2>2, <2>3, <2>4 DEF KeysHold
<1>6. CASE ~InsertRow(v)
  <2>1. KeysUntouched
    <3>1. CASE SaveRawPath(v)
      BY <1>1, <3>1, CommitLeavesKeys, AssignedNoVerdict, AssignedKeys DEF SaveRawPath, UploadSnap
    <3>2. CASE StoreRawFails(v)
      BY <1>1, <3>2, CommitLeavesKeys, AssignedNoVerdict, AssignedKeys DEF StoreRawFails, KeysUntouched
    <3>3. CASE MarkNotAccepted(v)
      BY <1>1, <3>3, CommitLeavesKeys, AssignedNoVerdict, AssignedKeys DEF MarkNotAccepted
    <3>4. CASE MarkQueued(v)
      BY <1>1, <3>4, CommitLeavesKeys, AssignedNoVerdict, AssignedKeys DEF MarkQueued
    <3>5. CASE UNCHANGED rows
      BY <3>5 DEF KeysUntouched
    <3> QED
      BY <1>6, <3>1, <3>2, <3>3, <3>4, <3>5
         DEF UploadNext, StoreRaw, EnqueueUpload, EnqueueUploadFails
  <2>2. CompletedHasKeys' /\ RowsAreInserted'
    BY <1>3, <2>1, UntouchedStay DEF KeysHold, KeysUntouched, RowsAreInserted
  <2>3. LoadedKeysStay'
    BY <1>1, <1>2, <2>1, UntouchedStay, LoadedKeys DEF KeysHold
  <2>4. ASSUME Unretried' PROVE NoKeysYet'
    <3>1. NoKeysYet
      BY <1>2, <2>4 DEF KeysHold, Unretried
    <3>2. rows[v] # NoRow /\ rows[v].outputs => MarkQueued(v)
      BY <1>6, <3>1
         DEF NoKeysYet, UploadNext, StoreRaw, SaveRawPath, StoreRawFails, EnqueueUpload,
             EnqueueUploadFails, MarkNotAccepted
    <3>3. \A x \in Videos \ {v} : rows'[x] = rows[x]
      BY <1>1, <1>6
         DEF UploadNext, StoreRaw, SaveRawPath, StoreRawFails, EnqueueUpload, Commit, TypeOK,
             EnqueueUploadFails, MarkNotAccepted, MarkQueued
    <3>4. CASE MarkQueued(v)
      <4>1. rows'[v] # NoRow /\ rows'[v].status = "QUEUED" /\ upload'[v] = "done" /\ UNCHANGED queue
        BY <1>1, <3>4, CommitRow, MarkWrites DEF MarkQueued, UploadAt, TypeOK
      <4> QED
        BY <1>2, <1>3, <2>1, <3>1, <3>3, <4>1 DEF NoKeysYet, KeysUntouched, Busy
    <3>5. CASE ~MarkQueued(v)
      <4>1. ~(rows'[v] # NoRow /\ rows'[v].outputs)
        BY <2>1, <3>2, <3>5 DEF KeysUntouched
      <4>2. \/ UNCHANGED queue
            \/ Enqueue(v)
        BY <1>6
           DEF UploadNext, StoreRaw, SaveRawPath, StoreRawFails, EnqueueUpload,
               EnqueueUploadFails, EnqueueRaises, MarkNotAccepted, MarkQueued
      <4>3. \A i \in DOMAIN queue' : queue'[i].video = v \/ (i \in DOMAIN queue /\ queue'[i] = queue[i])
        <5>1. CASE Enqueue(v)
          <6> DEFINE message == [video |-> v, left |-> MaxAttempts - 1]
          <6>1. /\ message \in Message /\ queue' = Append(queue, message) /\ queue \in Seq(Message)
                /\ message.video = v
            BY <1>1, <5>1, MaxAttemptsAssumption DEF Enqueue, Message, TypeOK
          <6> HIDE DEF message
          <6> QED
            BY <6>1, AppendOne
        <5> QED
          BY <4>2, <5>1
      <4> QED
        BY <1>2, <1>3, <3>1, <3>3, <4>1, <4>3 DEF NoKeysYet, Busy
    <3> QED
      BY <3>4, <3>5
  <2> QED
    BY <1>4, <2>2, <2>3, <2>4 DEF KeysHold
<1> QED
  BY <1>5, <1>6

\* Whatever happens to a video without keys, the others' keys stay as they are.
LEMMA NoKeysElsewhere ==
  ASSUME TypeOK, NoKeysYet, UNCHANGED upload, NEW w \in Workers, NEW v \in Videos,
         ~(rows'[v] # NoRow /\ rows'[v].outputs), \A x \in Videos \ {v} : rows'[x] = rows[x],
         worker'[w].video = v, \A x \in Workers \ {w} : worker'[x] = worker[x],
         \A i \in DOMAIN queue' :
           queue'[i].video = v \/ \E j \in DOMAIN queue : queue'[i] = queue[j]
  PROVE  NoKeysYet'
BY DEF NoKeysYet, Busy

LEMMA WorkerKeys ==
  ASSUME RunsInv, KeysHold, NEW w \in Workers, WorkerNext(w), Clean'
  PROVE  KeysHold'
<1> DEFINE h == worker[w]
<1>0. PICK v \in Videos : v = worker[w].video
  BY DEF RunsInv, Inv, TypeOK, WorkerState
<1>1. /\ TypeOK /\ worker[w] \in WorkerState /\ NoRow \in MaybeRow
      /\ h.pc \in Holding => h.snap \in Row /\ h.snap # NoRow
      /\ rows[v] \in MaybeRow
  BY <1>0 DEF RunsInv, Inv, TypeOK, SnapsHeld, WorkerState, MaybeRow
<1>2. UNCHANGED <<upload, retry, spent>>
  BY DEF WorkerNext, Dequeue, SkipJob, LoadJob, Claim, RefreshJob, Transcode, UploadProcessed,
         UploadThumbnail, StoreOutput, Complete, RecordSuccess, ProcessingFails, ReloadFailed,
         MarkFailed, DecideRetry, RaiseToRq, ReturnToRq, WorkerUnchanged
<1>3. \A x \in Workers \ {w} : worker'[x] = worker[x]
  BY <1>1
     DEF WorkerNext, Dequeue, SkipJob, LoadJob, Claim, RefreshJob, Transcode, UploadProcessed,
         UploadThumbnail, StoreOutput, Complete, RecordSuccess, ProcessingFails, ReloadFailed,
         MarkFailed, DecideRetry, RaiseToRq, ReturnToRq, Load, WorkerAt, WorkerDrops, TypeOK
<1>4. ResetsKeepKeys'
  BY <1>2 DEF KeysHold, ResetsKeepKeys
<1>5. Unretried' => Unretried /\ Runs /\ NoKeysYet /\ Clean
  BY <1>2 DEF Unretried, RunsInv, KeysHold, Clean
\* The handler's video has no keys, unless the handler is over.
<1>6. Unretried' /\ h.pc \notin {"idle", "completed", "returning"}
        => ~(rows[v] # NoRow /\ rows[v].outputs)
  BY <1>0, <1>5 DEF NoKeysYet, Busy
<1>7. CASE Complete(w)
  <2>1. /\ rows'[v] = Flush(rows[v], h.snap, Completed(h.snap))
        /\ rows'[v] # NoRow /\ rows'[v] \in Row /\ rows[v] \in Row /\ rows[v] # NoRow
        /\ \A x \in Videos \ {v} : rows'[x] = rows[x]
    BY <1>0, <1>1, <1>7, CommitRow, AssignedType DEF Complete, Holding
  <2>2. GoesOn(w, "completed", NoRow) /\ h.pc = "completing" /\ UNCHANGED queue
    BY <1>1, <1>7, HandlerMoves DEF Complete, WorkerDrops, WorkerPcs
  <2>3. rows'[v].outputs
    <3>1. h.snap.outputs => rows[v].outputs
      BY <1>0, <2>2 DEF KeysHold, LoadedKeysStay, Holding
    <3>2. Completed(h.snap).outputs = TRUE
      BY <1>1, <2>2 DEF Completed, Row, Holding
    <3> QED
      BY <1>1, <2>1, <2>2, <3>1, <3>2 DEF Flush, Row, Holding
  <2>4. CompletedHasKeys' /\ RowsAreInserted'
    BY <1>2, <2>1, <2>3 DEF KeysHold, CompletedHasKeys, HasStatus, RowsAreInserted
  <2>5. LoadedKeysStay'
    BY <1>1, <1>3, <2>1, <2>2, <2>3, LoadedKeys DEF KeysHold, GoesOn, Holding
  <2>6. ASSUME Unretried' PROVE NoKeysYet'
    <3>1. HandlerFits(rows[v], h, upload[v], Clean) /\ Runs /\ NoKeysYet /\ Clean
      BY <1>0, <1>5, <2>2, <2>6 DEF Runs, Busy
    <3>2. rows'[v].status = "COMPLETED"
      <4>1. Agrees(rows[v], h.snap, upload[v]) /\ h.snap.status # "COMPLETED"
        BY <2>2, <3>1 DEF HandlerFits, Holding, Processing
      <4> QED
        BY <1>1, <2>1, <2>2, <4>1, CompleteWrites DEF Holding
    <3>3. upload[v] \in {"marking", "done"}
      <4>1. ~NoneSent(v) /\ upload[v] \in UploadPcs
        BY <1>0, <1>1, <2>2 DEF NoneSent, Busy, TypeOK
      <4> QED
        BY <3>1, <4>1 DEF Runs, NotSent, UploadPcs
    <3>4. /\ \A i \in DOMAIN queue : queue[i].video # v
          /\ \A x \in Workers : Busy(x) /\ worker[x].video = v => x = w
      BY <1>0, <2>2, <3>1 DEF Runs, OneRun, Busy
    <3>5. ASSUME NEW x \in Videos, rows'[x] # NoRow /\ rows'[x].outputs
          PROVE  /\ rows'[x].status # "FAILED" /\ upload'[x] \in {"marking", "done"}
                 /\ \A i \in DOMAIN queue' : queue'[i].video # x
                 /\ \A y \in Workers : Busy(y)' /\ worker'[y].video = x
                      => worker'[y].pc \in {"completed", "returning"}
      <4>1. CASE x = v
        BY <1>0, <1>2, <1>3, <2>2, <3>2, <3>3, <3>4, <4>1 DEF GoesOn, Busy
      <4>2. CASE x # v
        BY <1>0, <1>2, <1>3, <2>1, <2>2, <3>1, <3>5, <4>2 DEF GoesOn, Busy, NoKeysYet
      <4> QED
        BY <4>1, <4>2
    <3> QED
      BY <3>5 DEF NoKeysYet
  <2> QED
    BY <1>4, <2>4, <2>5, <2>6 DEF KeysHold
<1>8. CASE Claim(w) \/ MarkFailed(w)
  <2>1. /\ worker'[w].pc \notin Holding /\ worker'[w].video = v
        /\ h.pc \in {"claiming", "marking"} /\ UNCHANGED queue
    <3>1. PICK pc \in {"refreshing", "deciding"} : GoesOn(w, pc, NoRow)
      BY <1>1, <1>8, HandlerMoves DEF Claim, MarkFailed, WorkerDrops, WorkerPcs
    <3> QED
      BY <1>0, <1>8, <3>1 DEF Claim, MarkFailed, GoesOn, Holding
  <2>2. KeysUntouched /\ \A x \in Videos \ {v} : rows'[x] = rows[x]
    BY <1>0, <1>1, <1>8, CommitLeavesKeys, CommitRow, AssignedType, AssignedNoVerdict, AssignedKeys
       DEF Claim, MarkFailed, Holding
  <2>3. CompletedHasKeys' /\ RowsAreInserted'
    BY <1>2, <2>2, UntouchedStay DEF KeysHold, KeysUntouched, RowsAreInserted
  <2>4. LoadedKeysStay'
    BY <1>1, <1>3, <2>1, <2>2, UntouchedStay, LoadedKeys DEF KeysHold
  <2>5. ASSUME Unretried' PROVE NoKeysYet'
    <3>1. ~(rows'[v] # NoRow /\ rows'[v].outputs)
      BY <1>6, <2>1, <2>2, <2>5 DEF KeysUntouched
    <3> QED
      BY <1>1, <1>2, <1>3, <1>5, <2>1, <2>2, <2>5, <3>1, NoKeysElsewhere
  <2> QED
    BY <1>4, <2>3, <2>4, <2>5 DEF KeysHold
<1>9. CASE UNCHANGED rows
  <2>1. CompletedHasKeys' /\ RowsAreInserted'
    BY <1>2, <1>9 DEF KeysHold, CompletedHasKeys, HasStatus, RowsAreInserted
  <2>2. LoadedKeysStay'
    <3>1. CASE LoadJob(w) \/ RefreshJob(w) \/ ReloadFailed(w)
      <4>1. PICK pc \in WorkerPcs : GoesOn(w, pc, rows[v]) /\ rows[v] # NoRow
        BY <1>0, <1>1, <3>1, HandlerMoves DEF LoadJob, RefreshJob, ReloadFailed, Load, WorkerPcs
      <4> QED
        BY <1>0, <1>1, <1>3, <1>9, <4>1, LoadedKeys DEF KeysHold, GoesOn
    <3>2. CASE Transcode(w) \/ UploadProcessed(w) \/ UploadThumbnail(w)
      <4>1. PICK pc \in WorkerPcs : GoesOn(w, pc, h.snap) /\ h.pc \in Holding
        BY <1>1, <3>2, HandlerKeeps
           DEF Transcode, UploadProcessed, UploadThumbnail, StoreOutput, WorkerPcs, Holding
      <4>2. h.snap.outputs => rows[v] # NoRow /\ rows[v].outputs
        BY <1>0, <4>1 DEF KeysHold, LoadedKeysStay
      <4> QED
        BY <1>0, <1>1, <1>3, <1>9, <4>1, <4>2, LoadedKeys DEF KeysHold, GoesOn
    <3>3. CASE worker'[w].pc \notin Holding
      BY <1>1, <1>3, <1>9, <3>3, LoadedKeys DEF KeysHold
    <3>4. \/ Dequeue(w) \/ SkipJob(w) \/ RecordSuccess(w) \/ ProcessingFails(w)
          \/ DecideRetry(w) \/ RaiseToRq(w) \/ ReturnToRq(w)
          => worker'[w].pc \notin Holding
      BY <1>1
         DEF Dequeue, SkipJob, RecordSuccess, ProcessingFails, DecideRetry, WorkerAt, WorkerDrops,
             RaiseToRq, ReturnToRq, IdleWorker, Holding, TypeOK, WorkerState
    <3> QED
      BY <1>7, <1>8, <3>1, <3>2, <3>3, <3>4 DEF WorkerNext, KeysHold
  <2>3. ASSUME Unretried' PROVE NoKeysYet'
    <3>1. NoKeysYet
      BY <1>5, <2>3
    <3>2. CASE Dequeue(w)
      <4>1. /\ 1 \in DOMAIN queue /\ Head(queue) = queue[1] /\ queue[1] \in Message
            /\ queue' = Tail(queue)
            /\ \A i \in DOMAIN queue' : i + 1 \in DOMAIN queue /\ queue'[i] = queue[i + 1]
        BY <1>1, <3>2, HeadAndTail DEF Dequeue, TypeOK
      <4>2. worker'[w].video = queue[1].video /\ queue[1].video \in Videos
        BY <1>1, <3>2, <4>1 DEF Dequeue, Message, TypeOK, WorkerState
      <4>3. ~(rows[queue[1].video] # NoRow /\ rows[queue[1].video].outputs)
        BY <3>1, <4>1, <4>2 DEF NoKeysYet
      <4> QED
        BY <1>1, <1>2, <1>3, <1>9, <3>1, <4>1, <4>2, <4>3, NoKeysElsewhere
    <3>3. CASE SkipJob(w) \/ ReturnToRq(w)
      <4>1. worker'[w].pc = "idle" /\ UNCHANGED queue
        BY <1>1, <3>3 DEF SkipJob, ReturnToRq, IdleWorker, TypeOK
      <4> QED
        BY <1>2, <1>3, <1>9, <3>1, <4>1 DEF NoKeysYet, Busy
    <3>4. CASE RaiseToRq(w)
      <4>1. /\ worker'[w].pc = "idle" /\ h.pc = "raising"
            /\ \A i \in DOMAIN queue' :
                 queue'[i].video = v \/ \E j \in DOMAIN queue : queue'[i] = queue[j]
        <5>1. worker'[w].pc = "idle" /\ h.pc = "raising" /\ RqRetry(v, h.left) /\ h.left \in Nat
          BY <1>0, <1>1, <3>4 DEF RaiseToRq, IdleWorker, TypeOK, WorkerState
        <5>2. CASE UNCHANGED queue
          BY <5>1, <5>2
        <5>3. CASE h.left > 0 /\ queue' = Append(queue, [video |-> v, left |-> h.left - 1])
          <6> DEFINE message == [video |-> v, left |-> h.left - 1]
          <6>1. message \in Message /\ message.video = v /\ queue' = Append(queue, message)
            BY <5>1, <5>3 DEF Message
          <6> HIDE DEF message
          <6> QED
            BY <1>1, <5>1, <6>1, AppendOne DEF TypeOK
        <5> QED
          BY <5>1, <5>2, <5>3 DEF RqRetry
      <4>2. ~(rows[v] # NoRow /\ rows[v].outputs)
        BY <1>6, <2>3, <4>1
      <4> QED
        BY <1>2, <1>3, <1>9, <3>1, <4>1, <4>2 DEF NoKeysYet, Busy
    <3>5. CASE \/ LoadJob(w) \/ RefreshJob(w) \/ Transcode(w) \/ UploadProcessed(w)
               \/ UploadThumbnail(w) \/ ProcessingFails(w) \/ ReloadFailed(w) \/ DecideRetry(w)
      <4>1. /\ UNCHANGED queue /\ h.pc \notin {"idle", "completed", "returning"} /\ worker'[w].video = v
        BY <1>0, <1>1, <3>5
           DEF LoadJob, RefreshJob, Transcode, UploadProcessed, UploadThumbnail, StoreOutput,
               ProcessingFails, ReloadFailed, DecideRetry, Load, WorkerAt, WorkerDrops, TypeOK,
               WorkerState, Processing
      <4>2. ~(rows[v] # NoRow /\ rows[v].outputs)
        BY <1>6, <2>3, <4>1
      <4> QED
        BY <1>1, <1>2, <1>3, <1>9, <3>1, <4>1, <4>2, NoKeysElsewhere
    <3>6. CASE RecordSuccess(w)
      <4>1. UNCHANGED queue /\ worker'[w].pc = "returning" /\ h.pc = "completed" /\ worker'[w].video = v
        BY <1>0, <1>1, <3>6 DEF RecordSuccess, WorkerAt, TypeOK, WorkerState
      <4> QED
        BY <1>0, <1>2, <1>3, <1>9, <3>1, <4>1 DEF NoKeysYet, Busy
    <3> QED
      BY <1>7, <1>8, <3>2, <3>3, <3>4, <3>5, <3>6, <2>3 DEF WorkerNext, KeysHold
  <2> QED
    BY <1>4, <2>1, <2>2, <2>3 DEF KeysHold
<1> QED
  BY <1>7, <1>8, <1>9
     DEF WorkerNext, Dequeue, SkipJob, LoadJob, RefreshJob, Transcode, UploadProcessed,
         UploadThumbnail, StoreOutput, RecordSuccess, ProcessingFails, ReloadFailed, DecideRetry,
         RaiseToRq, ReturnToRq

LEMMA RetryKeys ==
  ASSUME RunsInv, KeysHold, NEW a \in Admins, RetryNext(a), Clean', spent'["retries"] <= 1
  PROVE  KeysHold'
<1>1. /\ TypeOK /\ retry[a].video \in Videos /\ retry[a].snap \in MaybeRow
      /\ retry[a].pc # "idle" => retry[a].snap \in Row
      /\ retry \in [Admins -> [pc : RetryPcs, video : Videos, snap : MaybeRow]]
  BY DEF RunsInv, Inv, TypeOK, SnapsHeld, MaybeRow
<1>2. UNCHANGED <<worker, upload>>
  BY DEF RetryNext, LoadRetry, EnqueueRetry, EnqueueRetryFails, ResetRetried, RetryUnchanged
<1>3. ~Unretried'
  BY <1>1, RetrySpends DEF RunsInv
<1>4. CASE \E v \in Videos : LoadRetry(a, v)
  <2>1. PICK v \in Videos : LoadRetry(a, v)
    BY <1>4
  <2>2. Unretried
    <3>1. spent'["retries"] = spent["retries"] + 1 /\ spent["retries"] \in Nat
      <4>1. spent' = [spent EXCEPT !["retries"] = spent["retries"] + 1]
        BY <2>1 DEF LoadRetry, Spend
      <4> QED
        BY <1>1, <4>1 DEF TypeOK
    <3> QED
      BY <3>1 DEF Unretried
  <2>3. ~rows[v].outputs
    <3>1. rows[v] # NoRow /\ rows[v].status = "FAILED"
      BY <2>1 DEF LoadRetry, Retryable
    <3> QED
      BY <2>2, <3>1 DEF KeysHold, NoKeysYet
  <2>4. /\ retry'[a].snap = rows[v]
        /\ \A x \in Admins \ {a} : retry'[x] = retry[x]
    BY <1>1, <2>1 DEF LoadRetry
  <2>5. ResetsKeepKeys'
    BY <2>3, <2>4 DEF KeysHold, ResetsKeepKeys
  <2>6. KeysUntouched
    BY <2>1 DEF LoadRetry, KeysUntouched
  <2> QED
    BY <1>1, <1>2, <1>3, <2>5, <2>6, UntouchedStay, LoadedKeys
       DEF KeysHold, KeysUntouched, RowsAreInserted
<1>5. CASE EnqueueRetry(a) \/ EnqueueRetryFails(a) \/ ResetRetried(a)
  <2>1. /\ \A x \in Admins \ {a} : retry'[x] = retry[x]
        /\ retry'[a].pc # "idle" => retry[a].pc # "idle" /\ retry'[a].snap = retry[a].snap
    BY <1>1, <1>5 DEF EnqueueRetry, EnqueueRetryFails, ResetRetried, IdleRetry
  <2>2. ResetsKeepKeys'
    BY <2>1 DEF KeysHold, ResetsKeepKeys
  <2>3. KeysUntouched
    <3>1. CASE ResetRetried(a)
      <4>1. retry[a].snap \in Row /\ ~retry[a].snap.outputs
        BY <1>1, <3>1 DEF ResetRetried, KeysHold, ResetsKeepKeys
      <4> QED
        BY <1>1, <3>1, <4>1, CommitLeavesKeys, AssignedType, AssignedNoVerdict, AssignedKeys
           DEF ResetRetried
    <3>2. CASE UNCHANGED rows
      BY <3>2 DEF KeysUntouched
    <3> QED
      BY <1>5, <3>1, <3>2 DEF EnqueueRetry, EnqueueRetryFails
  <2> QED
    BY <1>1, <1>2, <1>3, <2>2, <2>3, UntouchedStay, LoadedKeys
       DEF KeysHold, KeysUntouched, RowsAreInserted
<1> QED
  BY <1>4, <1>5 DEF RetryNext

LEMMA InitKeys == Init => KeysInv
<1> SUFFICES ASSUME Init PROVE KeysHold
  BY InitRuns DEF KeysInv
<1> QED
  BY DEF Init, KeysHold, CompletedHasKeys, HasStatus, ResetsKeepKeys, LoadedKeysStay,
         RowsAreInserted, NoKeysYet, IdleRetry, IdleWorker, Holding

LEMMA NextKeys ==
  ASSUME Recoverers = {}
  PROVE  KeysInv /\ [Next]_vars => KeysInv'
<1> SUFFICES ASSUME KeysInv, [Next]_vars, OneRetry'
             PROVE  KeysHold'
  BY NextRuns DEF KeysInv
<1>1. RunsInv /\ TypeOK
  BY DEF KeysInv, RunsInv, Inv
<1>2. /\ ~Fault /\ ~(\E v \in Videos : UploadDies(v))
      /\ ~(\E w \in Workers : HandlerRaises(w) \/ WorkerDies(w))
      /\ ~(\E a \in Admins : RetryDies(a))
  BY <1>1, FaultSpent DEF OneRetry, UploadDies, HandlerRaises, WorkerDies, RetryDies
<1>3. OneRetry
  <2>1. UNCHANGED spent \/ Spend("retries", MaxRetries)
    BY <1>2
       DEF Next, Age, vars, UploadNext, InsertRow, StoreRaw, SaveRawPath, StoreRawFails,
           EnqueueUpload, EnqueueUploadFails, EnqueueRaises, MarkNotAccepted, MarkQueued,
           UploadUnchanged, WorkerNext, Dequeue, SkipJob, LoadJob, Claim, RefreshJob, Transcode,
           UploadProcessed, UploadThumbnail, StoreOutput, Complete, RecordSuccess, ProcessingFails,
           ReloadFailed, MarkFailed, DecideRetry, RaiseToRq, ReturnToRq, WorkerUnchanged, RetryNext,
           LoadRetry, EnqueueRetry, EnqueueRetryFails, ResetRetried
  <2>2. CASE UNCHANGED spent
    BY <2>2 DEF OneRetry, Clean
  <2>3. CASE Spend("retries", MaxRetries)
    <3>1. spent' = [spent EXCEPT !["retries"] = spent["retries"] + 1]
      BY <2>3 DEF Spend
    <3>2. /\ spent'["retries"] = spent["retries"] + 1 /\ spent'["faults"] = spent["faults"]
          /\ spent["retries"] \in Nat
      BY <1>1, <3>1 DEF TypeOK
    <3> QED
      BY <3>2 DEF OneRetry, Clean
  <2> QED
    BY <2>1, <2>2, <2>3
<1>4. KeysHold /\ Clean' /\ spent'["retries"] <= 1
  BY <1>3 DEF KeysInv, OneRetry
<1>5. CASE UNCHANGED vars
  BY <1>4, <1>5
     DEF vars, KeysHold, CompletedHasKeys, HasStatus, ResetsKeepKeys, LoadedKeysStay,
         RowsAreInserted, NoKeysYet, Unretried, Busy
<1> QED
  BY <1>1, <1>2, <1>4, <1>5, UploadKeys, WorkerKeys, RetryKeys DEF Next, Age

\* A manual retry that resets the row in the middle of a run takes away only
\* what that run will write again, for any number of workers and administrators
\* that race, as long as it is the only one and there is no fault: no death, no
\* lost answer, and no exception after the commit that completed a row.
THEOREM RetryAlwaysKeepsKeys ==
  ASSUME Recoverers = {}
  PROVE  Spec => []RetryKeepsKeys
<1>1. KeysInv => RetryKeepsKeys
  BY DEF KeysInv, OneRetry, Clean, KeysHold, RetryKeepsKeys
<1> QED
  BY <1>1, InitKeys, NextKeys, PTL DEF Spec
=============================================================================
