--------------------------- MODULE ReconcilerLock ---------------------------
(***************************************************************************)
(* The reconcilers and the Redis key that keeps their recovery passes      *)
(* apart.  A run sets the key with SET NX EX, recovers, keeps the key for  *)
(* most of the interval and deletes it with a script that compares the     *)
(* value.  Nothing renews the key while the pass runs.                     *)
(*                                                                         *)
(* Time is a count of ticks.  Any step may be late, and a sleep may last   *)
(* longer than asked; only the length of a pass has a bound, PassMax,      *)
(* which the code does not enforce.  What a pass does is in VideoJobs; a   *)
(* pass that only counts the stuck jobs, because recovery is disabled, is  *)
(* a pass here.                                                            *)
(***************************************************************************)
EXTENDS Naturals

CONSTANTS
  Reconcilers,     \* the processes running workers/run_reconciler.py
  NoToken,         \* the key does not exist
  Ttl,             \* reconciler_lock_ttl_seconds
  AcquireTimeout,  \* reconciler_lock_acquire_timeout_seconds
  Interval,        \* reconciler_interval_seconds
  LockEnabled,     \* reconciler_lock_enabled
  Oneshot,         \* reconciler_oneshot
  PassMax,         \* bound: ticks a recovery pass takes
  MaxFaults        \* bound: crashes, and calls to Redis that raise

\* A value of the key is a uuid of the run that set it.  Two per reconciler
\* are enough for each run to have a fresh one.
Tokens == Reconcilers \X {0, 1}

\* The validator of the settings falls back to the defaults below these.
ASSUME TtlAssumption == Ttl \in Nat \ {0} /\ AcquireTimeout \in Nat
ASSUME IntervalAssumption == Interval \in Nat
ASSUME ModeAssumption == LockEnabled \in BOOLEAN /\ Oneshot \in BOOLEAN
ASSUME PassAssumption == PassMax \in Nat /\ MaxFaults \in Nat
ASSUME NoTokenAssumption == NoToken \notin Tokens \cup Reconcilers

VARIABLES
  key,       \* the value of the key in Redis
  ttl,       \* ticks until Redis drops the key
  pc,        \* what each reconciler does
  token,     \* the value of the lock object of its current run
  elapsed,   \* ticks since the run began
  pass,      \* ticks its recovery pass has taken
  since,     \* history: ticks since the start of the run that last got the key
  faults     \* faults so far

vars == <<key, ttl, pc, token, elapsed, pass, since, faults>>

\* Counters stand still where no guard tells the values apart any more.
Horizon == Interval + AcquireTimeout
Later(n) == IF n < Horizon THEN n + 1 ELSE n

\* min(interval, ttl - 1), from the start of the run.
Hold == IF Interval < Ttl - 1 THEN Interval ELSE Ttl - 1

Pcs == {"sleeping", "acquiring", "recovering", "holding", "over"}

\* Among the types: a key in Redis always has an expiry.
TypeOK ==
  /\ key \in Tokens \cup {NoToken}
  /\ ttl \in 0..Ttl /\ (ttl = 0 <=> key = NoToken)
  /\ pc \in [Reconcilers -> Pcs]
  /\ token \in [Reconcilers -> Tokens] /\ \A r \in Reconcilers : token[r][1] = r
  /\ elapsed \in [Reconcilers -> 0..Horizon]
  /\ pass \in [Reconcilers -> 0..PassMax]
  /\ since \in 0..Horizon
  /\ faults \in 0..MaxFaults

Init ==
  /\ key = NoToken /\ ttl = 0
  /\ pc = [r \in Reconcilers |-> "sleeping"]
  /\ token = [r \in Reconcilers |-> <<r, 0>>]
  /\ elapsed = [r \in Reconcilers |-> Horizon]
  /\ pass = [r \in Reconcilers |-> 0]
  /\ since = Horizon
  /\ faults = 0

Fault == faults < MaxFaults /\ faults' = faults + 1
At(r, state) == pc' = [pc EXCEPT ![r] = state]
RunEnds(r) == At(r, IF Oneshot THEN "over" ELSE "sleeping")

-----------------------------------------------------------------------------
(* The key.                                                                *)

\* Variants: without NX; without EX.
SetAnyway(r) == key' = token[r] /\ ttl' = Ttl
SetForever(r) == key = NoToken /\ key' = token[r] /\ ttl' = 0

SetKey(r) == key = NoToken /\ key' = token[r] /\ ttl' = Ttl

\* Variant: DEL without the comparison.
DeleteAnyKey(r) == key' = NoToken /\ ttl' = 0

DeleteKey(r) ==
  \/ key = token[r] /\ key' = NoToken /\ ttl' = 0
  \/ key # token[r] /\ UNCHANGED <<key, ttl>>

-----------------------------------------------------------------------------
(* One run of a reconciler.                                                *)

BeginRun(r) ==
  /\ pc[r] = "sleeping" /\ elapsed[r] >= Interval
  /\ \E t \in {r} \X {0, 1} : t # key /\ token' = [token EXCEPT ![r] = t]
  /\ elapsed' = [elapsed EXCEPT ![r] = 0]
  /\ At(r, IF LockEnabled THEN "acquiring" ELSE "recovering")
  /\ UNCHANGED <<key, ttl, pass, since, faults>>

\* One of the attempts, every tenth of a second, finds no key.
Acquire(r) ==
  /\ pc[r] = "acquiring"
  /\ SetKey(r)
  /\ since' = elapsed[r]
  /\ At(r, "recovering")
  /\ UNCHANGED <<token, elapsed, pass, faults>>

\* The timeout has passed and the run is skipped.
SkipRun(r) ==
  /\ pc[r] = "acquiring"
  /\ key # NoToken /\ elapsed[r] >= AcquireTimeout
  /\ RunEnds(r)
  /\ UNCHANGED <<key, ttl, token, elapsed, pass, since, faults>>

\* SET raises, whether Redis has done it or not, and the run is skipped.
AcquireErrors(r) ==
  /\ pc[r] = "acquiring"
  /\ Fault
  /\ SetKey(r) \/ UNCHANGED <<key, ttl>>
  /\ RunEnds(r)
  /\ UNCHANGED <<token, elapsed, pass, since>>

\* The pass returns or raises: both go through the finally clause.
FinishPass(r) ==
  /\ pc[r] = "recovering"
  /\ pass' = [pass EXCEPT ![r] = 0]
  /\ IF LockEnabled THEN At(r, "holding") ELSE RunEnds(r)
  /\ UNCHANGED <<key, ttl, token, elapsed, since, faults>>

\* Variant: the run does not wait.
HeldBriefly(r) == pc[r] = "holding"

Held(r) == pc[r] = "holding" /\ (Oneshot \/ elapsed[r] >= Hold)

Release(r) ==
  /\ Held(r)
  /\ DeleteKey(r)
  /\ RunEnds(r)
  /\ UNCHANGED <<token, elapsed, pass, since, faults>>

\* The script raises before Redis has run it.
ReleaseErrors(r) ==
  /\ Held(r)
  /\ Fault
  /\ RunEnds(r)
  /\ UNCHANGED <<key, ttl, token, elapsed, pass, since>>

\* The process dies, and is started again.
Crash(r) ==
  /\ pc[r] \in {"acquiring", "recovering", "holding"}
  /\ Fault
  /\ At(r, "sleeping")
  /\ elapsed' = [elapsed EXCEPT ![r] = Horizon]
  /\ pass' = [pass EXCEPT ![r] = 0]
  /\ UNCHANGED <<key, ttl, token, since>>

Tick ==
  /\ \A r \in Reconcilers : pc[r] = "recovering" => pass[r] < PassMax
  /\ pass' = [r \in Reconcilers |-> IF pc[r] = "recovering" THEN pass[r] + 1 ELSE pass[r]]
  /\ elapsed' = [r \in Reconcilers |-> Later(elapsed[r])]
  /\ since' = Later(since)
  /\ ttl' = IF ttl > 0 THEN ttl - 1 ELSE 0
  /\ key' = IF ttl = 1 THEN NoToken ELSE key
  /\ UNCHANGED <<pc, token, faults>>

-----------------------------------------------------------------------------

ReconcilerNext(r) ==
  \/ BeginRun(r) \/ Acquire(r) \/ SkipRun(r) \/ AcquireErrors(r)
  \/ FinishPass(r) \/ Release(r) \/ ReleaseErrors(r)

Next ==
  \/ \E r \in Reconcilers : ReconcilerNext(r) \/ Crash(r)
  \/ Tick

Spec == Init /\ [][Next]_vars

\* A process that can act does, and the clock runs.
Fairness == WF_vars(Tick) /\ \A r \in Reconcilers : WF_vars(ReconcilerNext(r))
FairSpec == Spec /\ Fairness

-----------------------------------------------------------------------------
(* Properties.                                                             *)

\* Two reconcilers do not recover at the same time (README.md, Reliability and
\* Recovery), whoever crashes and whatever Redis answers, unless one of the
\* passes has outlasted the key: nothing bounds a pass or renews the key.
MutualExclusion ==
  \A r, q \in Reconcilers :
    pc[r] = "recovering" /\ pc[q] = "recovering" /\ r # q
      => pass[r] >= Ttl \/ pass[q] >= Ttl

\* From the start of a run that got the key, nobody gets it for as long as
\* _hold_lock_for_interval keeps it, however long that pass takes, whoever
\* crashes and whatever Redis answers: the staggered reconcilers skip.
OnePassPerHold ==
  [][\A r \in Reconcilers :
       pc[r] = "acquiring" /\ pc'[r] = "recovering" => since >= Hold]_vars

\* However reconcilers crash and calls to Redis fail, there is another pass.
RecoversAgain == []<>(\E r \in Reconcilers : pc[r] = "recovering")

\* The key is a lease: it goes from its holder to another only by expiring or
\* by the holder's own release.
Holder == IF key = NoToken THEN NoToken ELSE key[1]
Using == {r \in Reconcilers : LockEnabled /\ pc[r] \in {"recovering", "holding"}}

KeyLease == INSTANCE Lease WITH Holders <- Reconcilers, Nobody <- NoToken,
                                holder <- Holder, left <- ttl, using <- Using
ImplementsLease == KeyLease!Spec
=============================================================================
