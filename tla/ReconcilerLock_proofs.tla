------------------------ MODULE ReconcilerLock_proofs ------------------------
(***************************************************************************)
(* Proofs about ReconcilerLock, for every set of reconcilers, every        *)
(* setting of the lock and every bound.                                    *)
(***************************************************************************)
EXTENDS ReconcilerLock, TLAPS

-----------------------------------------------------------------------------
(* Type correctness.                                                       *)

LEMMA LaterType ==
  ASSUME NEW n \in 0..Horizon
  PROVE  Later(n) \in 0..Horizon
BY TtlAssumption, IntervalAssumption DEF Later, Horizon

LEMMA InitType == Init => TypeOK
BY TtlAssumption, IntervalAssumption, PassAssumption
   DEF Init, TypeOK, Tokens, Pcs, Horizon

LEMMA RunEndsType ==
  ASSUME TypeOK, NEW r \in Reconcilers, RunEnds(r)
  PROVE  pc' \in [Reconcilers -> Pcs]
BY DEF TypeOK, RunEnds, At, Pcs

\* The key and its expiry come and go together.
LEMMA KeyType ==
  ASSUME TypeOK, NEW r \in Reconcilers, SetKey(r) \/ DeleteKey(r)
  PROVE  /\ key' \in Tokens \cup {NoToken}
         /\ ttl' \in 0..Ttl /\ (ttl' = 0 <=> key' = NoToken)
BY TtlAssumption, NoTokenAssumption DEF TypeOK, SetKey, DeleteKey

LEMMA ReconcilerType ==
  ASSUME TypeOK, NEW r \in Reconcilers, ReconcilerNext(r) \/ Crash(r)
  PROVE  TypeOK'
<1> USE TtlAssumption, IntervalAssumption, PassAssumption
<1>1. CASE BeginRun(r)
  <2>1. pc' \in [Reconcilers -> Pcs]
    BY <1>1 DEF BeginRun, At, TypeOK, Pcs
  <2>2. elapsed' \in [Reconcilers -> 0..Horizon]
    BY <1>1 DEF BeginRun, TypeOK, Horizon
  <2>3. PICK t \in {r} \X {0, 1} : token' = [token EXCEPT ![r] = t]
    BY <1>1 DEF BeginRun
  <2>4. t \in Tokens /\ t[1] = r
    BY DEF Tokens
  <2>5. token' \in [Reconcilers -> Tokens] /\ \A q \in Reconcilers : token'[q][1] = q
    BY <2>3, <2>4 DEF TypeOK
  <2> QED
    BY <1>1, <2>1, <2>2, <2>5 DEF BeginRun, TypeOK
<1>2. CASE Acquire(r)
  BY <1>2, KeyType DEF Acquire, At, TypeOK, Pcs
<1>3. CASE SkipRun(r)
  BY <1>3, RunEndsType DEF SkipRun, TypeOK
<1>4. CASE AcquireErrors(r)
  <2>1. faults' \in 0..MaxFaults
    BY <1>4 DEF AcquireErrors, Fault, TypeOK
  <2>2. /\ key' \in Tokens \cup {NoToken}
        /\ ttl' \in 0..Ttl /\ (ttl' = 0 <=> key' = NoToken)
    BY <1>4, KeyType DEF AcquireErrors, TypeOK
  <2> QED
    BY <1>4, <2>1, <2>2, RunEndsType DEF AcquireErrors, TypeOK
<1>5. CASE FinishPass(r)
  <2>1. pc' \in [Reconcilers -> Pcs]
    <3>1. CASE LockEnabled
      BY <1>5, <3>1 DEF FinishPass, At, TypeOK, Pcs
    <3>2. CASE ~LockEnabled
      BY <1>5, <3>2, RunEndsType DEF FinishPass
    <3> QED
      BY <3>1, <3>2
  <2>2. pass' \in [Reconcilers -> 0..PassMax]
    BY <1>5 DEF FinishPass, TypeOK
  <2> QED
    BY <1>5, <2>1, <2>2 DEF FinishPass, TypeOK
<1>6. CASE Release(r)
  BY <1>6, KeyType, RunEndsType DEF Release, TypeOK
<1>7. CASE ReleaseErrors(r)
  <2>1. faults' \in 0..MaxFaults
    BY <1>7 DEF ReleaseErrors, Fault, TypeOK
  <2> QED
    BY <1>7, <2>1, RunEndsType DEF ReleaseErrors, TypeOK
<1>8. CASE Crash(r)
  <2>1. faults' \in 0..MaxFaults
    BY <1>8 DEF Crash, Fault, TypeOK
  <2>2. elapsed' \in [Reconcilers -> 0..Horizon] /\ pass' \in [Reconcilers -> 0..PassMax]
    BY <1>8 DEF Crash, TypeOK, Horizon
  <2>3. pc' \in [Reconcilers -> Pcs]
    BY <1>8 DEF Crash, At, TypeOK, Pcs
  <2> QED
    BY <1>8, <2>1, <2>2, <2>3 DEF Crash, TypeOK
<1> QED
  BY <1>1, <1>2, <1>3, <1>4, <1>5, <1>6, <1>7, <1>8 DEF ReconcilerNext

LEMMA TickType == TypeOK /\ Tick => TypeOK'
<1> SUFFICES ASSUME TypeOK, Tick
             PROVE  TypeOK'
  OBVIOUS
<1>1. elapsed' \in [Reconcilers -> 0..Horizon] /\ since' \in 0..Horizon
  BY LaterType DEF Tick, TypeOK
<1>2. pass' \in [Reconcilers -> 0..PassMax]
  <2>1. \A r \in Reconcilers : pass[r] \in 0..PassMax
    BY DEF TypeOK
  <2> QED
    BY <2>1, PassAssumption DEF Tick
<1>3. /\ key' \in Tokens \cup {NoToken}
      /\ ttl' \in 0..Ttl /\ (ttl' = 0 <=> key' = NoToken)
  BY TtlAssumption DEF Tick, TypeOK
<1> QED
  BY <1>1, <1>2, <1>3 DEF Tick, TypeOK

LEMMA NextType == TypeOK /\ [Next]_vars => TypeOK'
<1> SUFFICES ASSUME TypeOK, [Next]_vars
             PROVE  TypeOK'
  OBVIOUS
<1>1. CASE UNCHANGED vars
  BY <1>1 DEF vars, TypeOK
<1> QED
  BY <1>1, ReconcilerType, TickType DEF Next

\* The variables keep their types; in particular a key in Redis always has an
\* expiry, so a crashed reconciler cannot keep the lock.
THEOREM TypeCorrect == Spec => []TypeOK
BY InitType, NextType, PTL DEF Spec

-----------------------------------------------------------------------------
(* Mutual exclusion of the passes.                                         *)
(*                                                                         *)
(* MutualExclusion is not inductive.  What keeps two passes apart is that  *)
(* a reconciler still owns the key until its pass has taken Ttl ticks,     *)
(* because the time to live runs no faster than the pass: PassOwnsKey.     *)

InTime(r) == pc[r] = "recovering" /\ pass[r] < Ttl

PassOwnsKey ==
  \A r \in Reconcilers :
    /\ pc[r] # "recovering" => pass[r] = 0
    /\ InTime(r) => key = token[r] /\ ttl + pass[r] = Ttl

ExclusionInv == TypeOK /\ PassOwnsKey

LEMMA InitExclusion == Init => ExclusionInv
BY InitType DEF Init, ExclusionInv, PassOwnsKey, InTime

LEMMA ReconcilerExclusion ==
  ASSUME LockEnabled, ExclusionInv, NEW r \in Reconcilers, ReconcilerNext(r) \/ Crash(r)
  PROVE  PassOwnsKey'
<1> USE DEF InTime
<1>1. /\ TypeOK /\ PassOwnsKey
      /\ \A q \in Reconcilers : token[q] # NoToken /\ token[q][1] = q
  BY NoTokenAssumption DEF ExclusionInv, TypeOK
<1>2. CASE BeginRun(r)
  BY <1>1, <1>2 DEF BeginRun, At, PassOwnsKey, TypeOK
<1>3. CASE Acquire(r)
  <2>1. key = NoToken /\ key' = token[r] /\ ttl' = Ttl
    BY <1>3 DEF Acquire, SetKey
  <2>2. \A q \in Reconcilers : ~InTime(q)
    BY <1>1, <2>1 DEF PassOwnsKey
  <2> QED
    BY <1>1, <1>3, <2>1, <2>2, TtlAssumption DEF Acquire, At, PassOwnsKey, TypeOK
<1>4. CASE SkipRun(r)
  BY <1>1, <1>4 DEF SkipRun, RunEnds, At, PassOwnsKey, TypeOK
<1>5. CASE AcquireErrors(r)
  <2>1. CASE SetKey(r)
    <3>1. \A q \in Reconcilers : ~InTime(q)
      BY <1>1, <2>1 DEF PassOwnsKey, SetKey
    <3> QED
      BY <1>1, <1>5, <3>1 DEF AcquireErrors, RunEnds, At, PassOwnsKey, TypeOK
  <2>2. CASE UNCHANGED <<key, ttl>>
    BY <1>1, <1>5, <2>2 DEF AcquireErrors, RunEnds, At, PassOwnsKey, TypeOK
  <2> QED
    BY <1>5, <2>1, <2>2 DEF AcquireErrors
<1>6. CASE FinishPass(r)
  BY <1>1, <1>6 DEF FinishPass, At, PassOwnsKey, TypeOK
<1>7. CASE Release(r)
  <2>1. pc[r] = "holding"
    BY <1>7 DEF Release, Held
  <2>2. \A q \in Reconcilers : InTime(q) => key # token[r]
    BY <1>1, <2>1 DEF PassOwnsKey
  <2> QED
    BY <1>1, <1>7, <2>1, <2>2 DEF Release, DeleteKey, RunEnds, At, PassOwnsKey, TypeOK
<1>8. CASE ReleaseErrors(r)
  BY <1>1, <1>8 DEF ReleaseErrors, Held, RunEnds, At, PassOwnsKey, TypeOK
<1>9. CASE Crash(r)
  BY <1>1, <1>9 DEF Crash, At, PassOwnsKey, TypeOK
<1> QED
  BY <1>2, <1>3, <1>4, <1>5, <1>6, <1>7, <1>8, <1>9 DEF ReconcilerNext

LEMMA TickExclusion ==
  ASSUME ExclusionInv, Tick
  PROVE  PassOwnsKey'
<1> SUFFICES ASSUME NEW r \in Reconcilers
             PROVE  /\ pc'[r] # "recovering" => pass'[r] = 0
                    /\ pc'[r] = "recovering" /\ pass'[r] < Ttl
                         => key' = token'[r] /\ ttl' + pass'[r] = Ttl
  BY DEF PassOwnsKey, InTime
<1>1. ttl \in Nat /\ pass[r] \in Nat /\ pc' = pc /\ token' = token
  BY DEF ExclusionInv, TypeOK, Tick
<1>2. CASE pc[r] = "recovering"
  <2>1. pass'[r] = pass[r] + 1
    BY <1>2 DEF Tick
  <2> SUFFICES ASSUME pass[r] + 1 < Ttl
               PROVE  key' = token[r] /\ ttl' + (pass[r] + 1) = Ttl
    BY <1>1, <1>2, <2>1, TtlAssumption
  <2>2. key = token[r] /\ ttl + pass[r] = Ttl
    BY <1>1, <1>2, TtlAssumption DEF ExclusionInv, PassOwnsKey, InTime
  <2>3. ttl > 1
    BY <1>1, <2>2, TtlAssumption
  <2>4. key' = key /\ ttl' = ttl - 1
    BY <1>1, <2>3 DEF Tick
  <2> QED
    BY <1>1, <2>2, <2>4, TtlAssumption
<1>3. CASE pc[r] # "recovering"
  BY <1>1, <1>3 DEF ExclusionInv, PassOwnsKey, Tick
<1> QED
  BY <1>2, <1>3

LEMMA NextExclusion ==
  ASSUME LockEnabled, ExclusionInv, [Next]_vars
  PROVE  ExclusionInv'
<1>1. TypeOK'
  BY NextType DEF ExclusionInv
<1>2. CASE UNCHANGED vars
  BY <1>1, <1>2 DEF vars, ExclusionInv, PassOwnsKey, InTime
<1> QED
  BY <1>1, <1>2, ReconcilerExclusion, TickExclusion DEF Next, ExclusionInv

\* With the lock enabled, two reconcilers recover at the same time only if one
\* of the passes has taken the time to live of the key, which nobody renews.
THEOREM PassesExclude ==
  ASSUME LockEnabled
  PROVE  Spec => []MutualExclusion
<1>1. ExclusionInv /\ [Next]_vars => ExclusionInv'
  BY NextExclusion
<1>2. ExclusionInv => MutualExclusion
  BY TtlAssumption DEF ExclusionInv, PassOwnsKey, InTime, MutualExclusion, TypeOK
<1> QED
  BY InitExclusion, <1>1, <1>2, PTL DEF Spec

-----------------------------------------------------------------------------
(* One pass per hold.                                                      *)
(*                                                                         *)
(* The key disappears by expiry, Ttl > Hold ticks after it was set, or by  *)
(* the release of its owner, who counts from the start of its run: so when *)
(* there is no key, the last run that got it began Hold ticks ago.         *)

KeyOutlastsHold ==
  /\ key = NoToken => since >= Hold
  /\ since + ttl >= Hold
  /\ \A r \in Reconcilers :
       pc[r] \in {"recovering", "holding"} /\ key = token[r] => since = elapsed[r]

HoldInv == TypeOK /\ KeyOutlastsHold

LEMMA HoldType == Hold \in Nat /\ Hold <= Horizon /\ Hold < Ttl
BY TtlAssumption, IntervalAssumption DEF Hold, Horizon

LEMMA InitHold == Init => HoldInv
<1> SUFFICES ASSUME Init
             PROVE  HoldInv
  OBVIOUS
<1>1. TypeOK
  BY InitType
<1>2. since = Horizon /\ Horizon >= Hold /\ ttl = 0 /\ Horizon \in Nat
  BY HoldType, TtlAssumption, IntervalAssumption DEF Init, Horizon
<1>3. \A r \in Reconcilers : pc[r] = "sleeping"
  BY DEF Init
<1> QED
  BY <1>1, <1>2, <1>3, HoldType DEF HoldInv, KeyOutlastsHold

LEMMA ReconcilerHold ==
  ASSUME ~Oneshot, HoldInv, NEW r \in Reconcilers, ReconcilerNext(r) \/ Crash(r)
  PROVE  KeyOutlastsHold'
<1>1. /\ TypeOK /\ KeyOutlastsHold
      /\ since \in Nat /\ ttl \in Nat /\ Hold \in Nat
      /\ \A q \in Reconcilers : token[q] # NoToken /\ token[q][1] = q
      /\ \A q \in Reconcilers : elapsed[q] \in Nat
  BY HoldType, NoTokenAssumption DEF HoldInv, TypeOK
<1>2. CASE BeginRun(r)
  <2>1. token'[r] # key
    BY <1>1, <1>2 DEF BeginRun, TypeOK
  <2> QED
    BY <1>1, <1>2, <2>1 DEF BeginRun, At, KeyOutlastsHold, TypeOK
<1>3. CASE Acquire(r)
  <2>1. key = NoToken /\ key' = token[r] /\ ttl' = Ttl /\ since' = elapsed[r]
    BY <1>3 DEF Acquire, SetKey
  <2>2. since' + ttl' >= Hold
    BY <1>1, <2>1, HoldType, TtlAssumption
  <2>3. \A q \in Reconcilers : key' = token[q] => q = r
    BY <1>1, <2>1
  <2> QED
    BY <1>1, <1>3, <2>1, <2>2, <2>3 DEF Acquire, KeyOutlastsHold
<1>4. CASE SkipRun(r)
  BY <1>1, <1>4 DEF SkipRun, RunEnds, At, KeyOutlastsHold, TypeOK
<1>5. CASE AcquireErrors(r)
  <2>1. CASE SetKey(r)
    <3>1. since >= Hold /\ key' = token[r] /\ ttl' = Ttl /\ since' = since
      BY <1>1, <1>5, <2>1 DEF SetKey, KeyOutlastsHold, AcquireErrors
    <3>2. pc'[r] = "sleeping"
      BY <1>1, <1>5 DEF AcquireErrors, RunEnds, At, TypeOK
    <3>3. since' + ttl' >= Hold
      BY <1>1, <3>1, TtlAssumption
    <3>4. \A q \in Reconcilers : key' = token[q] => q = r
      BY <1>1, <3>1
    <3> QED
      BY <1>1, <1>5, <3>1, <3>2, <3>3, <3>4 DEF AcquireErrors, KeyOutlastsHold
  <2>2. CASE UNCHANGED <<key, ttl>>
    BY <1>1, <1>5, <2>2 DEF AcquireErrors, RunEnds, At, KeyOutlastsHold, TypeOK
  <2> QED
    BY <1>5, <2>1, <2>2 DEF AcquireErrors
<1>6. CASE FinishPass(r)
  <2>1. \A q \in Reconcilers : pc'[q] \in {"recovering", "holding"} => pc[q] \in {"recovering", "holding"}
    BY <1>1, <1>6 DEF FinishPass, RunEnds, At, TypeOK
  <2> QED
    BY <1>1, <1>6, <2>1 DEF FinishPass, KeyOutlastsHold
<1>7. CASE Release(r)
  <2>1. pc[r] = "holding" /\ elapsed[r] >= Hold
    BY <1>7 DEF Release, Held
  <2>2. CASE key = token[r] /\ key' = NoToken /\ ttl' = 0
    <3>1. since >= Hold /\ since' = since
      BY <1>1, <1>7, <2>1, <2>2 DEF KeyOutlastsHold, Release
    <3> QED
      BY <1>1, <1>7, <2>2, <3>1 DEF Release, KeyOutlastsHold
  <2>3. CASE UNCHANGED <<key, ttl>>
    BY <1>1, <1>7, <2>3 DEF Release, RunEnds, At, KeyOutlastsHold, TypeOK
  <2> QED
    BY <1>7, <2>2, <2>3 DEF Release, DeleteKey
<1>8. CASE ReleaseErrors(r)
  BY <1>1, <1>8 DEF ReleaseErrors, RunEnds, At, KeyOutlastsHold, TypeOK
<1>9. CASE Crash(r)
  BY <1>1, <1>9 DEF Crash, At, KeyOutlastsHold, TypeOK
<1> QED
  BY <1>2, <1>3, <1>4, <1>5, <1>6, <1>7, <1>8, <1>9 DEF ReconcilerNext

LEMMA TickHold ==
  ASSUME HoldInv, Tick
  PROVE  KeyOutlastsHold'
<1>1. /\ since \in 0..Horizon /\ ttl \in Nat /\ Hold \in Nat /\ Hold <= Horizon
      /\ Horizon \in Nat /\ (ttl = 0 <=> key = NoToken)
  BY HoldType, TtlAssumption, IntervalAssumption DEF HoldInv, TypeOK, Horizon
<1>2. since + ttl >= Hold /\ (key = NoToken => since >= Hold)
  BY DEF HoldInv, KeyOutlastsHold
<1>3. since' = IF since < Horizon THEN since + 1 ELSE since
  BY DEF Tick, Later
<1>4. since' + ttl' >= Hold /\ (ttl' = 0 => since' >= Hold)
  BY <1>1, <1>2, <1>3 DEF Tick
<1>5. key' = NoToken => ttl' = 0
  BY <1>1 DEF Tick
<1>6. ASSUME NEW r \in Reconcilers, pc'[r] \in {"recovering", "holding"}, key' = token'[r]
      PROVE  since' = elapsed'[r]
  <2>1. token[r] # NoToken /\ token' = token /\ pc' = pc
    BY NoTokenAssumption DEF Tick, HoldInv, TypeOK
  <2>2. key = token[r]
    BY <1>6, <2>1 DEF Tick
  <2>3. since = elapsed[r]
    BY <1>6, <2>1, <2>2 DEF HoldInv, KeyOutlastsHold
  <2> QED
    BY <2>3 DEF Tick
<1> QED
  BY <1>4, <1>5, <1>6 DEF KeyOutlastsHold

LEMMA NextHold ==
  ASSUME ~Oneshot, HoldInv, [Next]_vars
  PROVE  HoldInv'
<1>1. TypeOK'
  BY NextType DEF HoldInv
<1>2. CASE UNCHANGED vars
  BY <1>1, <1>2 DEF vars, HoldInv, KeyOutlastsHold, Hold
<1> QED
  BY <1>1, <1>2, ReconcilerHold, TickHold DEF Next, HoldInv

\* Only the run that finds no key begins a pass.
LEMMA AcquireStep ==
  ASSUME TypeOK, [Next]_vars, NEW r \in Reconcilers,
         pc[r] = "acquiring", pc'[r] = "recovering"
  PROVE  key = NoToken
<1>1. CASE \E q \in Reconcilers : ReconcilerNext(q) \/ Crash(q)
  <2>1. PICK q \in Reconcilers : ReconcilerNext(q) \/ Crash(q)
    BY <1>1
  <2>2. \E state : At(q, state)
    BY <2>1 DEF ReconcilerNext, BeginRun, Acquire, SkipRun, AcquireErrors, FinishPass,
                Release, ReleaseErrors, Crash, RunEnds
  <2>3. q = r
    BY <2>2 DEF At, TypeOK
  <2>4. ~BeginRun(r) /\ ~FinishPass(r) /\ ~Release(r) /\ ~ReleaseErrors(r)
    BY DEF BeginRun, FinishPass, Release, ReleaseErrors, Held
  <2>5. ~SkipRun(r) /\ ~AcquireErrors(r) /\ ~Crash(r)
    BY DEF SkipRun, AcquireErrors, Crash, RunEnds, At, TypeOK
  <2> QED
    BY <2>1, <2>3, <2>4, <2>5 DEF ReconcilerNext, Acquire, SetKey
<1>2. CASE Tick \/ UNCHANGED vars
  BY <1>2 DEF Tick, vars
<1> QED
  BY <1>1, <1>2 DEF Next

\* While the reconcilers are not one-shot, a run that gets the key keeps the
\* passes of all others away for Hold ticks from its own start, whatever
\* crashes, whatever Redis answers and however long the pass takes.
THEOREM PassesSpread ==
  ASSUME ~Oneshot
  PROVE  Spec => OnePassPerHold
<1>1. HoldInv /\ [Next]_vars => HoldInv'
  BY NextHold
<1>2. HoldInv /\ [Next]_vars =>
        [\A r \in Reconcilers :
           pc[r] = "acquiring" /\ pc'[r] = "recovering" => since >= Hold]_vars
  BY AcquireStep DEF HoldInv, KeyOutlastsHold
<1> QED
  BY InitHold, <1>1, <1>2, PTL DEF Spec, OnePassPerHold

-----------------------------------------------------------------------------
(* The key is a lease.                                                     *)
(*                                                                         *)
(* A step of a reconciler that is using the lock may be read as a step of  *)
(* the lease's holder only if the key it owns is the one of its present    *)
(* run: a value it left behind, when the answer to SET was lost, is gone   *)
(* before it can get the key again.                                        *)

OwnKeyOnly ==
  /\ \A r \in Reconcilers : pc[r] \in {"acquiring", "holding"} => LockEnabled
  /\ ~LockEnabled => key = NoToken
  /\ \A r \in Using : Holder = r => key = token[r]

LeaseInv == TypeOK /\ OwnKeyOnly

LEMMA HolderType ==
  ASSUME TypeOK
  PROVE  /\ Holder = NoToken <=> key = NoToken
         /\ \A r \in Reconcilers : key = token[r] => Holder = r
BY NoTokenAssumption DEF TypeOK, Holder, Tokens

LEMMA InitLease == Init => LeaseInv /\ KeyLease!Init
BY InitType DEF Init, LeaseInv, OwnKeyOnly, Using, Holder, KeyLease!Init

\* Each step of a reconciler keeps the invariant and is a step of the lease.
LEMMA ReconcilerLease ==
  ASSUME LeaseInv, NEW r \in Reconcilers, ReconcilerNext(r) \/ Crash(r)
  PROVE  OwnKeyOnly' /\ [KeyLease!Next]_(KeyLease!leaseVars)
<1>1. /\ TypeOK /\ OwnKeyOnly
      /\ \A q \in Reconcilers : token[q] # NoToken /\ token[q][1] = q
      /\ Holder = NoToken <=> key = NoToken
      /\ \A q \in Reconcilers : key = token[q] => Holder = q
  BY HolderType, NoTokenAssumption DEF LeaseInv, TypeOK
<1> USE DEF KeyLease!Next, KeyLease!leaseVars
<1>2. CASE BeginRun(r)
  <2>1. key' = key /\ ttl' = ttl /\ Holder' = Holder
    BY <1>2 DEF BeginRun, Holder
  <2>2. Using' = Using
    BY <1>1, <1>2 DEF BeginRun, At, Using, TypeOK
  <2>3. \A q \in Using : q # r /\ token'[q] = token[q]
    BY <1>1, <1>2 DEF BeginRun, Using, TypeOK
  <2>4. \A q \in Reconcilers : pc'[q] \in {"acquiring", "holding"} => LockEnabled
    BY <1>1, <1>2 DEF BeginRun, At, OwnKeyOnly, TypeOK
  <2> QED
    BY <1>1, <2>1, <2>2, <2>3, <2>4 DEF OwnKeyOnly
<1>3. CASE Acquire(r)
  <2>1. LockEnabled /\ key = NoToken /\ key' = token[r] /\ ttl' = Ttl /\ token' = token
    BY <1>1, <1>3 DEF Acquire, SetKey, OwnKeyOnly
  <2>2. Holder = NoToken /\ Holder' = r
    BY <1>1, <2>1 DEF Holder
  <2>3. Using' = Using \cup {r}
    BY <1>1, <1>3, <2>1 DEF Acquire, At, Using, TypeOK
  <2>4. KeyLease!Grant(r)
    BY <2>1, <2>2, <2>3 DEF KeyLease!Grant, KeyLease!Granted
  <2>5. OwnKeyOnly'
    BY <1>1, <1>3, <2>1, <2>2, <2>3 DEF OwnKeyOnly, Acquire
  <2> QED
    BY <2>4, <2>5
<1>4. CASE SkipRun(r)
  <2>1. key' = key /\ ttl' = ttl /\ Holder' = Holder /\ token' = token
    BY <1>4 DEF SkipRun, Holder
  <2>2. Using' = Using
    BY <1>1, <1>4 DEF SkipRun, RunEnds, At, Using, TypeOK
  <2>3. \A q \in Reconcilers : pc'[q] \in {"acquiring", "holding"} => LockEnabled
    BY <1>1, <1>4 DEF SkipRun, RunEnds, At, OwnKeyOnly, TypeOK
  <2> QED
    BY <1>1, <2>1, <2>2, <2>3 DEF OwnKeyOnly
<1>5. CASE AcquireErrors(r)
  <2>1. LockEnabled /\ token' = token
    BY <1>1, <1>5 DEF AcquireErrors, OwnKeyOnly
  <2>2. Using' = Using /\ r \notin Using
    BY <1>1, <1>5 DEF AcquireErrors, RunEnds, At, Using, TypeOK
  <2>3. \A q \in Reconcilers : pc'[q] \in {"acquiring", "holding"} => LockEnabled
    BY <2>1
  <2>4. CASE SetKey(r)
    <3>1. Holder = NoToken /\ Holder' = r /\ ttl' = Ttl
      BY <1>1, <2>4 DEF SetKey, Holder
    <3>2. KeyLease!GrantUnnoticed(r)
      BY <2>2, <3>1 DEF KeyLease!GrantUnnoticed, KeyLease!Granted
    <3> QED
      BY <1>1, <2>1, <2>2, <2>3, <3>1, <3>2 DEF OwnKeyOnly
  <2>5. CASE UNCHANGED <<key, ttl>>
    BY <1>1, <2>1, <2>2, <2>3, <2>5 DEF OwnKeyOnly, Holder
  <2> QED
    BY <1>5, <2>4, <2>5 DEF AcquireErrors
<1>6. CASE FinishPass(r)
  <2>1. key' = key /\ ttl' = ttl /\ Holder' = Holder /\ token' = token
    BY <1>6 DEF FinishPass, Holder
  <2>2. Using' = Using
    <3>1. CASE LockEnabled
      BY <1>1, <1>6, <3>1 DEF FinishPass, At, Using, TypeOK
    <3>2. CASE ~LockEnabled
      BY <3>2 DEF Using
    <3> QED
      BY <3>1, <3>2
  <2>3. \A q \in Reconcilers : pc'[q] \in {"acquiring", "holding"} => LockEnabled
    BY <1>1, <1>6 DEF FinishPass, RunEnds, At, OwnKeyOnly, TypeOK
  <2> QED
    BY <1>1, <2>1, <2>2, <2>3 DEF OwnKeyOnly
<1>7. CASE Release(r)
  <2>1. LockEnabled /\ r \in Using /\ token' = token
    BY <1>1, <1>7 DEF Release, Held, OwnKeyOnly, Using
  <2>2. Using' = Using \ {r}
    BY <1>1, <1>7 DEF Release, RunEnds, At, Using, TypeOK
  <2>3. \A q \in Reconcilers : pc'[q] \in {"acquiring", "holding"} => LockEnabled
    BY <2>1
  <2>4. CASE key = token[r] /\ key' = NoToken /\ ttl' = 0
    <3>1. Holder = r /\ Holder' = NoToken
      BY <1>1, <2>4 DEF Holder
    <3>2. KeyLease!GiveBack(r)
      BY <2>1, <2>2, <2>4, <3>1 DEF KeyLease!GiveBack
    <3>3. \A q \in Reconcilers : Holder' # q
      BY <3>1, NoTokenAssumption
    <3> QED
      BY <1>1, <2>1, <2>2, <2>3, <2>4, <3>2, <3>3 DEF OwnKeyOnly, Using
  <2>5. CASE key # token[r] /\ UNCHANGED <<key, ttl>>
    <3>1. Holder # r /\ Holder' = Holder
      BY <1>1, <2>1, <2>5 DEF OwnKeyOnly, Holder
    <3>2. KeyLease!GiveBack(r)
      BY <2>1, <2>2, <2>5, <3>1 DEF KeyLease!GiveBack
    <3> QED
      BY <1>1, <2>1, <2>2, <2>3, <2>5, <3>1, <3>2 DEF OwnKeyOnly
  <2> QED
    BY <1>7, <2>4, <2>5 DEF Release, DeleteKey
<1>8. CASE ReleaseErrors(r) \/ Crash(r)
  <2>1. key' = key /\ ttl' = ttl /\ Holder' = Holder /\ token' = token
    BY <1>8 DEF ReleaseErrors, Crash, Holder
  <2>2. Using' = Using \ {r}
    BY <1>1, <1>8 DEF ReleaseErrors, Crash, RunEnds, At, Using, TypeOK
  <2>3. \A q \in Reconcilers : pc'[q] \in {"acquiring", "holding"} => LockEnabled
    BY <1>1, <1>8 DEF ReleaseErrors, Crash, RunEnds, At, OwnKeyOnly, TypeOK
  <2>4. KeyLease!Abandon(r)
    BY <2>1, <2>2 DEF KeyLease!Abandon
  <2> QED
    BY <1>1, <2>1, <2>2, <2>3, <2>4 DEF OwnKeyOnly
<1> QED
  BY <1>2, <1>3, <1>4, <1>5, <1>6, <1>7, <1>8 DEF ReconcilerNext

LEMMA TickLease ==
  ASSUME LeaseInv, Tick
  PROVE  OwnKeyOnly' /\ [KeyLease!Next]_(KeyLease!leaseVars)
<1>1. /\ TypeOK /\ OwnKeyOnly /\ ttl \in Nat /\ (ttl = 0 <=> key = NoToken)
      /\ Holder = NoToken <=> key = NoToken
  BY HolderType, TtlAssumption DEF LeaseInv, TypeOK
<1>2. Using' = Using /\ token' = token /\ pc' = pc
  BY DEF Tick, Using
<1>3. CASE key = NoToken
  <2>1. key' = key /\ ttl' = ttl /\ Holder' = Holder
    BY <1>1, <1>3 DEF Tick, Holder
  <2> QED
    BY <1>1, <1>2, <2>1 DEF OwnKeyOnly, KeyLease!leaseVars
<1>4. CASE key # NoToken
  <2>1. ttl' = ttl - 1 /\ Holder' = IF ttl > 1 THEN Holder ELSE NoToken
    BY <1>1, <1>4 DEF Tick, Holder
  <2>2. KeyLease!Pass
    BY <1>1, <1>2, <1>4, <2>1 DEF KeyLease!Pass
  <2>3. OwnKeyOnly'
    <3>1. key' = key \/ key' = NoToken
      BY DEF Tick
    <3>2. CASE key' = key
      BY <1>1, <1>2, <3>2 DEF OwnKeyOnly, Holder
    <3>3. CASE key' = NoToken
      BY <1>1, <1>2, <3>3, NoTokenAssumption DEF OwnKeyOnly, Holder, Using
    <3> QED
      BY <3>1, <3>2, <3>3
  <2> QED
    BY <2>2, <2>3 DEF KeyLease!Next
<1> QED
  BY <1>3, <1>4

LEMMA NextLease ==
  LeaseInv /\ [Next]_vars => LeaseInv' /\ [KeyLease!Next]_(KeyLease!leaseVars)
<1> SUFFICES ASSUME LeaseInv, [Next]_vars
             PROVE  LeaseInv' /\ [KeyLease!Next]_(KeyLease!leaseVars)
  OBVIOUS
<1>1. TypeOK'
  BY NextType DEF LeaseInv
<1>2. CASE UNCHANGED vars
  BY <1>1, <1>2 DEF vars, LeaseInv, OwnKeyOnly, Holder, Using, KeyLease!leaseVars
<1> QED
  BY <1>1, <1>2, ReconcilerLease, TickLease DEF Next, LeaseInv

\* The key implements the lease: no reconciler ends the lease of another, in
\* particular not one that comes late to release a key that has expired.
THEOREM LockIsLease == Spec => ImplementsLease
BY InitLease, NextLease, PTL DEF Spec, ImplementsLease, KeyLease!Spec
=============================================================================
