-------------------------- MODULE RateLimiter_proofs --------------------------
(***************************************************************************)
(* Proofs about RateLimiter, for every finite set of requests and clients, *)
(* every limit and window, and any number of faults and seconds.           *)
(***************************************************************************)
EXTENDS RateLimiter, FiniteSetTheorems, TLAPS

\* The types the proofs need; TypeOK also bounds the counters.
Types ==
  /\ now \in Times
  /\ count \in [Keys -> Nat]
  /\ expires \in [Keys -> Nat]
  /\ request \in [Requests -> [pc : Pcs, start : Times, at : Times]]

\* A window has begun when its requests are counted, and its counters live
\* until it is over: they expire Window seconds after their creation.
WindowsBegun == \A r \in Requests : request[r].pc # "new" => request[r].start <= now
OutlivesWindow == \A k \in Keys : expires[k] >= k[2] + Window

LimiterInv == Types /\ WindowsBegun /\ OutlivesWindow

\* The requests that a counter has let through, or is about to.
LetThrough(c, t) ==
  {r \in Requests : /\ ClientOf[r] = c /\ request[r].start = t /\ ~Late(r)
                    /\ \/ request[r].pc = "passed"
                       \/ request[r].pc = "expiring" /\ Verdict(1) = "passed"}

\* WindowLimit is not inductive: as long as the window lasts, its counter has
\* counted everybody who was let through.
Counted ==
  \A c \in Clients : \A t \in Times :
    /\ Cardinality(LetThrough(c, t)) <= Limit
    /\ now < t + Window => Cardinality(LetThrough(c, t)) <= count[<<c, t>>]

-----------------------------------------------------------------------------

LEMMA WindowStartType ==
  ASSUME now \in Times
  PROVE  WindowStart \in Times /\ WindowStart <= now
<1>1. now \in Nat /\ Window \in Nat /\ Window > 0 /\ now <= MaxTime /\ MaxTime \in Nat
  BY LimitsAssumption, LimiterBounds DEF Times
<1>2. \A q \in Int : (now \div Window) = q => q * Window <= now /\ q >= 0
  BY <1>1, SMTT(30)
<1> QED
  BY <1>1, <1>2, SMTT(30) DEF WindowStart, Times

LEMMA KeyType ==
  ASSUME Types, NEW r \in Requests
  PROVE  Key(r) \in Keys
BY DEF Types, Key, Keys, Clients

LEMMA LetThroughFinite ==
  ASSUME NEW c, NEW t
  PROVE  IsFiniteSet(LetThrough(c, t)) /\ Cardinality(LetThrough(c, t)) \in Nat
BY FiniteAssumption, FS_Subset, FS_CardinalityType DEF LetThrough

LEMMA LimiterInit == Init => LimiterInv /\ Counted
<1> SUFFICES ASSUME Init
             PROVE  LimiterInv /\ Counted
  OBVIOUS
<1> USE LimitsAssumption, LimiterBounds
<1>0. MaxTime \in Nat /\ Window \in Nat /\ 0 \in Times /\ Never \in Nat
  BY DEF Times, Never
<1>1. LimiterInv
  <2>1. request \in [Requests -> [pc : Pcs, start : Times, at : Times]]
    BY <1>0 DEF Init, Pcs
  <2>2. WindowsBegun
    BY DEF Init, WindowsBegun
  <2>3. \A k \in Keys : k[2] \in Nat /\ k[2] <= MaxTime
    BY <1>0 DEF Keys, Times
  <2>4. OutlivesWindow
    BY <1>0, <2>3 DEF Init, OutlivesWindow, Never
  <2> QED
    BY <1>0, <2>1, <2>2, <2>4 DEF Init, LimiterInv, Types
<1>2. \A c, t : LetThrough(c, t) = {}
  BY DEF Init, LetThrough
<1>3. Counted
  <2> SUFFICES ASSUME NEW c \in Clients, NEW t \in Times
               PROVE  /\ Cardinality(LetThrough(c, t)) <= Limit
                      /\ now < t + Window => Cardinality(LetThrough(c, t)) <= count[<<c, t>>]
    BY DEF Counted
  <2>1. Cardinality(LetThrough(c, t)) = 0
    BY <1>2, FS_EmptySet
  <2>2. count[<<c, t>>] = 0
    BY DEF Init, Keys
  <2> QED
    BY <2>1, <2>2
<1> QED
  BY <1>1, <1>3

LEMMA LimiterStep ==
  ASSUME LimiterInv, [Next]_vars
  PROVE  LimiterInv'
<1> USE LimitsAssumption, LimiterBounds DEF LimiterInv, Types
<1>0. /\ MaxTime \in Nat /\ Window \in Nat \ {0} /\ now \in Nat /\ now <= MaxTime
      /\ Never \in Nat /\ Never = MaxTime + Window + 1
      /\ \A k \in Keys : k[2] \in Nat /\ k[2] <= MaxTime
  BY DEF Times, Never, Keys
<1>1. CASE UNCHANGED vars
  BY <1>1 DEF vars, WindowsBegun, OutlivesWindow
<1>2. ASSUME NEW r \in Requests, ReadClock(r)
      PROVE  LimiterInv'
  <2>1. WindowStart \in Times /\ WindowStart <= now
    BY WindowStartType
  <2> QED
    BY <1>2, <2>1 DEF ReadClock, WindowsBegun, OutlivesWindow, Pcs
<1>3. ASSUME NEW r \in Requests, Incr(r)
      PROVE  LimiterInv'
  <2>1. Key(r) \in Keys /\ count[Key(r)] + 1 \in Nat
    BY KeyType
  <2>2. \A n : Verdict(n) \in Pcs
    BY DEF Verdict, Pcs
  <2>3. Types'
    BY <1>3, <2>1, <2>2 DEF Incr, Pcs
  <2> QED
    BY <1>3, <2>3 DEF Incr, WindowsBegun, OutlivesWindow
<1>4. ASSUME NEW r \in Requests,
             \/ UNCHANGED expires
             \/ expires' = [expires EXCEPT ![Key(r)] = now + Window],
             \E p \in Pcs \ {"new"} : request' = [request EXCEPT ![r].pc = p],
             request[r].pc # "new", UNCHANGED now, count' \in [Keys -> Nat]
      PROVE  LimiterInv'
  <2>1. Key(r) \in Keys /\ Key(r)[2] = request[r].start /\ request[r].start <= now
    BY <1>4, KeyType DEF Key, WindowsBegun
  <2>2. expires' \in [Keys -> Nat] /\ OutlivesWindow'
    BY <1>0, <1>4, <2>1 DEF OutlivesWindow
  <2> QED
    BY <1>4, <2>2 DEF WindowsBegun
<1>5. ASSUME NEW r \in Requests, Expire(r) \/ RedisFails(r) \/ Die(r)
      PROVE  LimiterInv'
  <2>1. Verdict(1) \in Pcs \ {"new"}
    BY DEF Verdict, Pcs
  <2>2. count' \in [Keys -> Nat]
    BY <1>5, KeyType DEF Expire, RedisFails, Die
  <2> QED
    BY <1>4, <1>5, <2>1, <2>2 DEF Expire, RedisFails, Die, Becomes, Pcs
<1>6. CASE Tick
  <2>1. now' \in Times /\ now' = now + 1
    BY <1>0, <1>6 DEF Tick, Times
  <2>2. count' \in [Keys -> Nat] /\ expires' \in [Keys -> Nat]
    BY <1>0, <1>6 DEF Tick
  <2>3. OutlivesWindow'
    BY <1>0, <1>6 DEF Tick, OutlivesWindow
  <2>4. WindowsBegun'
    BY <1>0, <1>6, <2>1 DEF Tick, WindowsBegun, Times
  <2> QED
    BY <1>6, <2>1, <2>2, <2>3, <2>4 DEF Tick
<1> QED
  BY <1>1, <1>2, <1>3, <1>5, <1>6 DEF Next

-----------------------------------------------------------------------------
(* Who is let through.                                                     *)

\* A step in which no counter of a window that lasts is lowered, and nobody
\* is let through who was not before.
LEMMA CountedKept ==
  ASSUME Types, Types', Counted, now' >= now,
         \A c \in Clients : \A t \in Times :
           /\ LetThrough(c, t)' \subseteq LetThrough(c, t)
           /\ now' < t + Window => count'[<<c, t>>] >= count[<<c, t>>]
  PROVE  Counted'
<1> SUFFICES ASSUME NEW c \in Clients, NEW t \in Times
             PROVE  /\ Cardinality(LetThrough(c, t)') <= Limit
                    /\ now' < t + Window => Cardinality(LetThrough(c, t)') <= count'[<<c, t>>]
  BY DEF Counted
<1>1. /\ Cardinality(LetThrough(c, t)') \in Nat /\ Cardinality(LetThrough(c, t)) \in Nat
      /\ Cardinality(LetThrough(c, t)') <= Cardinality(LetThrough(c, t))
  BY LetThroughFinite, FS_Subset, FS_CardinalityType
<1>2. <<c, t>> \in Keys /\ count[<<c, t>>] \in Nat /\ count'[<<c, t>>] \in Nat
  BY DEF Types, Keys
<1>3. now \in Nat /\ now' \in Nat /\ t \in Nat /\ Window \in Nat /\ Limit \in Nat
  BY LimitsAssumption, LimiterBounds DEF Types, Times
<1> QED
  BY <1>1, <1>2, <1>3 DEF Counted

LEMMA CountedIncr ==
  ASSUME LimiterInv, LimiterInv', Counted, NEW r \in Requests, Incr(r)
  PROVE  Counted'
<1> DEFINE n == count[Key(r)] + 1
<1>0. /\ Types /\ Types' /\ now \in Nat /\ Window \in Nat /\ Limit \in Nat
      /\ request[r].start \in Nat /\ now \in Times
  BY LimitsAssumption, LimiterBounds DEF LimiterInv, Types, Times
<1>1. Key(r) \in Keys /\ n \in Nat /\ Key(r) = <<ClientOf[r], request[r].start>>
  BY <1>0, KeyType DEF Key, Types
<1>2. /\ request[r].pc = "counting" /\ UNCHANGED now
      /\ count' = [count EXCEPT ![Key(r)] = n]
      /\ request'[r].start = request[r].start /\ request'[r].at = now
      /\ request'[r].pc = IF n = 1 THEN "expiring" ELSE Verdict(n)
      /\ \A q \in Requests \ {r} : request'[q] = request[q]
  BY <1>0 DEF Incr, Types
<1> HIDE DEF n
<1> SUFFICES ASSUME NEW c \in Clients, NEW t \in Times
             PROVE  /\ Cardinality(LetThrough(c, t)') <= Limit
                    /\ now' < t + Window => Cardinality(LetThrough(c, t)') <= count'[<<c, t>>]
  BY DEF Counted
<1> DEFINE Old == LetThrough(c, t)
<1>3. IsFiniteSet(Old) /\ Cardinality(Old) \in Nat /\ r \notin Old
  <2>1. r \notin Old
    BY <1>2 DEF LetThrough
  <2> QED
    BY <2>1, LetThroughFinite
<1>4. <<c, t>> \in Keys /\ count[<<c, t>>] \in Nat /\ t \in Nat
  BY <1>0, LimiterBounds DEF Types, Keys, Times
<1>5. \A q \in Requests \ {r} : q \in LetThrough(c, t)' <=> q \in Old
  BY <1>2 DEF LetThrough, Late
<1>. HIDE DEF Old
<1>6. CASE r \notin LetThrough(c, t)'
  <2>1. LetThrough(c, t)' = Old
    <3>1. LetThrough(c, t)' \subseteq Requests /\ Old \subseteq Requests
      BY DEF LetThrough, Old
    <3> QED
      BY <1>3, <1>5, <1>6, <3>1
  <2>2. count'[<<c, t>>] >= count[<<c, t>>]
    BY <1>0, <1>1, <1>2, <1>4 DEF n, Types
  <2> QED
    <3>1. /\ Cardinality(Old) <= Limit
          /\ now < t + Window => Cardinality(Old) <= count[<<c, t>>]
      BY DEF Counted, Old
    <3>2. count'[<<c, t>>] \in Nat
      BY <1>0, <1>4 DEF Types
    <3> QED
      BY <1>0, <1>2, <1>3, <1>4, <2>1, <2>2, <3>1, <3>2
<1>7. CASE r \in LetThrough(c, t)'
  <2>1. LetThrough(c, t)' = Old \cup {r}
    <3>1. LetThrough(c, t)' \subseteq Requests /\ Old \subseteq Requests
      BY DEF LetThrough, Old
    <3> QED
      BY <1>3, <1>5, <1>7, <3>1
  <2>2. Cardinality(LetThrough(c, t)') = Cardinality(Old) + 1
    BY <1>3, <2>1, FS_AddElement
  <2>3. /\ Key(r) = <<c, t>> /\ t = request[r].start
        /\ ~(request'[r].at >= request'[r].start + Window)
        /\ \/ request'[r].pc = "passed"
           \/ request'[r].pc = "expiring" /\ Verdict(1) = "passed"
    <3>1. /\ ClientOf[r] = c /\ request'[r].start = t
          /\ ~(request'[r].at >= request'[r].start + Window)
          /\ \/ request'[r].pc = "passed"
             \/ request'[r].pc = "expiring" /\ Verdict(1) = "passed"
      BY <1>7 DEF LetThrough, Late, Verdict
    <3> QED
      BY <1>1, <1>2, <3>1
  <2>4. now < t + Window
    BY <1>0, <1>2, <1>4, <2>3
  <2>5. n <= Limit
    <3>1. \/ n = 1 /\ Verdict(1) = "passed"
          \/ n # 1 /\ Verdict(n) = "passed"
      BY <1>2, <2>3 DEF Verdict
    <3> QED
      BY <1>0, <1>1, <3>1 DEF Verdict
  <2>6. Cardinality(Old) <= count[<<c, t>>] /\ n = count[<<c, t>>] + 1
    BY <2>3, <2>4 DEF Counted, n, Old
  <2>7. count'[<<c, t>>] = n
    BY <1>0, <1>1, <1>2, <2>3 DEF Types
  <2> QED
    BY <1>0, <1>1, <1>3, <1>4, <2>2, <2>5, <2>6, <2>7
<1> QED
  BY <1>6, <1>7

LEMMA CountedStep ==
  ASSUME LimiterInv, LimiterInv', Counted, [Next]_vars
  PROVE  Counted'
<1>0. /\ Types /\ Types' /\ OutlivesWindow /\ now \in Nat /\ Window \in Nat
      /\ \A c \in Clients : \A t \in Times :
           <<c, t>> \in Keys /\ count[<<c, t>>] \in Nat /\ expires[<<c, t>>] \in Nat /\ t \in Nat
  BY LimitsAssumption, LimiterBounds DEF LimiterInv, Types, Times, Keys
<1>1. CASE UNCHANGED vars
  BY <1>0, <1>1, CountedKept DEF vars, LetThrough, Late
<1>2. ASSUME NEW r \in Requests, ReadClock(r) \/ Expire(r) \/ RedisFails(r) \/ Die(r)
      PROVE  Counted'
  <2>1. /\ UNCHANGED now /\ \A q \in Requests \ {r} : request'[q] = request[q]
        /\ \A k \in Keys : count'[k] >= count[k]
    BY <1>0, <1>2, KeyType DEF ReadClock, Expire, RedisFails, Die, Becomes, Types
  <2>2. \/ request'[r].pc \notin {"passed", "expiring"}
        \/ /\ request[r].pc = "expiring" /\ request'[r].pc = Verdict(1)
           /\ request'[r].start = request[r].start /\ request'[r].at = request[r].at
    <3>1. CASE ReadClock(r)
      BY <1>0, <3>1 DEF ReadClock, Types
    <3>2. CASE Expire(r)
      BY <1>0, <3>2 DEF Expire, Becomes, Types
    <3>3. CASE RedisFails(r) \/ Die(r)
      BY <1>0, <3>3 DEF RedisFails, Die, Becomes, Types
    <3> QED
      BY <1>2, <3>1, <3>2, <3>3
  <2>3. Verdict(1) # "expiring"
    BY DEF Verdict
  <2>4. \A c \in Clients : \A t \in Times : LetThrough(c, t)' \subseteq LetThrough(c, t)
    BY <2>1, <2>2, <2>3 DEF LetThrough, Late
  <2> QED
    BY <1>0, <2>1, <2>4, CountedKept
<1>3. CASE Tick
  <2>1. now' = now + 1 /\ UNCHANGED request
    BY <1>3 DEF Tick
  <2>2. \A c \in Clients : \A t \in Times :
          now' < t + Window => count'[<<c, t>>] >= count[<<c, t>>]
    <3> SUFFICES ASSUME NEW c \in Clients, NEW t \in Times, now' < t + Window
                 PROVE  count'[<<c, t>>] >= count[<<c, t>>]
      OBVIOUS
    <3>1. expires[<<c, t>>] >= t + Window
      BY <1>0 DEF OutlivesWindow
    <3>2. ~(expires[<<c, t>>] <= now')
      BY <1>0, <2>1, <3>1
    <3> QED
      BY <1>0, <1>3, <3>2 DEF Tick
  <2>3. \A c \in Clients : \A t \in Times : LetThrough(c, t)' \subseteq LetThrough(c, t)
    BY <2>1 DEF LetThrough, Late
  <2> QED
    BY <1>0, <2>1, <2>2, <2>3, CountedKept
<1> QED
  BY <1>1, <1>2, <1>3, CountedIncr DEF Next

-----------------------------------------------------------------------------
(* The theorems.                                                           *)

\* A window lets no more than Limit requests of a client through, whatever
\* interleaves and fails.
THEOREM WindowAlwaysLimited == Spec => []WindowLimit
<1>1. LimiterInv /\ Counted => WindowLimit
  <2> SUFFICES ASSUME Counted, NEW c \in Clients, NEW t \in Times
               PROVE  Cardinality({r \in Passed(c) : request[r].start = t /\ ~Late(r)}) <= Limit
    BY DEF WindowLimit
  <2> DEFINE P == {r \in Passed(c) : request[r].start = t /\ ~Late(r)}
  <2>1. P \subseteq LetThrough(c, t)
    BY DEF Passed, LetThrough
  <2>2. /\ Cardinality(P) <= Cardinality(LetThrough(c, t))
        /\ Cardinality(P) \in Nat /\ Cardinality(LetThrough(c, t)) \in Nat
    BY <2>1, LetThroughFinite, FS_Subset, FS_CardinalityType
  <2>3. Cardinality(LetThrough(c, t)) <= Limit
    BY DEF Counted
  <2>4. Cardinality(P) <= Limit
    <3> HIDE DEF P
    <3> QED
      BY <2>2, <2>3, LimitsAssumption
  <2> QED
    BY <2>4
<1>2. LimiterInv /\ Counted /\ [Next]_vars => (LimiterInv /\ Counted)'
  BY LimiterStep, CountedStep
<1> QED
  BY <1>1, <1>2, LimiterInit, PTL DEF Spec

-----------------------------------------------------------------------------
(* The bounds of TypeOK.                                                   *)

\* The requests of a client that have called INCR.
CalledIncr(c) == {r \in Requests : ClientOf[r] = c /\ request[r].pc \notin {"new", "counting"}}

\* Why a counter stays at the number of the client's requests: each calls INCR
\* once, whichever window it counts in.
OnceEach == \A k \in Keys : count[k] <= Cardinality(CalledIncr(k[1]))

Bounded == OnceEach /\ (\A k \in Keys : expires[k] <= Never) /\ faults \in 0..MaxFaults

LEMMA BoundedInit == Init => Bounded
<1> SUFFICES ASSUME Init
             PROVE  Bounded
  OBVIOUS
<1>1. \A c : CalledIncr(c) = {}
  BY DEF Init, CalledIncr
<1>2. OnceEach
  BY <1>1, FS_EmptySet DEF Init, OnceEach
<1> QED
  BY <1>2, LimitsAssumption, LimiterBounds DEF Init, Bounded, Never

LEMMA OnceEachKept ==
  ASSUME Types, Types', OnceEach,
         \A k \in Keys : count'[k] <= count[k],
         \A c : CalledIncr(c) \subseteq CalledIncr(c)'
  PROVE  OnceEach'
<1> SUFFICES ASSUME NEW k \in Keys
             PROVE  count'[k] <= Cardinality(CalledIncr(k[1])')
  BY DEF OnceEach
<1>1. CalledIncr(k[1]) \subseteq CalledIncr(k[1])' /\ IsFiniteSet(CalledIncr(k[1])')
  BY FiniteAssumption, FS_Subset DEF CalledIncr
<1>2. /\ Cardinality(CalledIncr(k[1])) <= Cardinality(CalledIncr(k[1])')
      /\ Cardinality(CalledIncr(k[1])) \in Nat /\ Cardinality(CalledIncr(k[1])') \in Nat
  BY <1>1, FS_Subset, FS_CardinalityType
<1>3. count[k] \in Nat /\ count'[k] \in Nat /\ count'[k] <= count[k]
  BY DEF Types
<1>4. count[k] <= Cardinality(CalledIncr(k[1]))
  BY DEF OnceEach
<1> QED
  BY <1>2, <1>3, <1>4

\* A call of INCR takes the request to those that have called it.
LEMMA OnceEachIncr ==
  ASSUME Types, Types', OnceEach, NEW r \in Requests, NEW q \in Pcs \ {"new", "counting"},
         request[r].pc = "counting", request'[r].pc = q,
         \A p \in Requests \ {r} : request'[p] = request[p],
         count' \in {count, [count EXCEPT ![Key(r)] = @ + 1]}
  PROVE  OnceEach'
<1> SUFFICES ASSUME NEW k \in Keys
             PROVE  count'[k] <= Cardinality(CalledIncr(k[1])')
  BY DEF OnceEach
<1> DEFINE Old == CalledIncr(k[1])
<1>1. IsFiniteSet(Old) /\ r \notin Old /\ Cardinality(Old) \in Nat
  <2>1. Old \subseteq Requests /\ r \notin Old
    BY DEF CalledIncr
  <2> QED
    BY <2>1, FiniteAssumption, FS_Subset, FS_CardinalityType
<1>2. count[k] \in Nat /\ count'[k] \in Nat /\ count[k] <= Cardinality(Old)
  BY DEF Types, OnceEach
<1>3. Key(r) \in Keys /\ Key(r)[1] = ClientOf[r] /\ count[Key(r)] \in Nat
  BY KeyType DEF Key, Types
<1>4. CASE ClientOf[r] = k[1]
  <2>1. CalledIncr(k[1])' = Old \cup {r}
    BY <1>4 DEF CalledIncr
  <2>2. Cardinality(CalledIncr(k[1])') = Cardinality(Old) + 1
    <3> HIDE DEF Old
    <3> QED
      BY <1>1, <2>1, FS_AddElement
  <2>3. count'[k] <= count[k] + 1
    BY <1>2, <1>3 DEF Types
  <2> QED
    BY <1>1, <1>2, <2>2, <2>3
<1>5. CASE ClientOf[r] # k[1]
  <2>1. CalledIncr(k[1])' = Old
    BY <1>5 DEF CalledIncr
  <2>2. count'[k] = count[k]
    BY <1>3, <1>5 DEF Types
  <2> QED
    BY <1>2, <2>1, <2>2
<1> QED
  BY <1>4, <1>5

LEMMA BoundedStep ==
  ASSUME LimiterInv, LimiterInv', Bounded, [Next]_vars
  PROVE  Bounded'
<1> USE LimitsAssumption, LimiterBounds
<1>0. Types /\ Types' /\ OnceEach
  BY DEF LimiterInv, Bounded
<1>1. /\ now \in Nat /\ now <= MaxTime /\ MaxTime \in Nat /\ Window \in Nat \ {0}
      /\ MaxFaults \in Nat /\ Never = MaxTime + Window + 1 /\ faults \in 0..MaxFaults
      /\ \A k \in Keys : expires[k] \in Nat /\ expires[k] <= Never
  BY <1>0 DEF Types, Times, Never, Bounded
<1>2. CASE UNCHANGED vars
  <2>1. OnceEach'
    BY <1>0, <1>2 DEF vars, OnceEach, CalledIncr
  <2> QED
    BY <1>1, <1>2, <2>1 DEF vars, Bounded
<1>3. faults' \in 0..MaxFaults
  <2>1. faults' = faults \/ Fault
    BY DEF Next, vars, ReadClock, Incr, Expire, RedisFails, Die, Tick
  <2> QED
    BY <1>1, <2>1 DEF Fault
<1>4. \A k \in Keys : expires'[k] <= Never
  <2>1. \/ \A k \in Keys : expires'[k] = expires[k]
        \/ \A k \in Keys : expires'[k] \in {expires[k], now + Window}
        \/ \A k \in Keys : expires'[k] \in {expires[k], Never}
    <3>1. CASE UNCHANGED vars
      BY <3>1 DEF vars
    <3>2. ASSUME NEW r \in Requests, Expire(r) \/ RedisFails(r)
          PROVE  \A k \in Keys : expires'[k] \in {expires[k], now + Window}
      BY <1>0, <3>2 DEF Expire, RedisFails, Types
    <3>3. CASE Tick
      BY <1>0, <3>3 DEF Tick
    <3> QED
      BY <3>1, <3>2, <3>3 DEF Next, ReadClock, Incr, Die
  <2> QED
    BY <1>1, <2>1
<1>5. OnceEach'
  <2>1. ASSUME NEW r \in Requests, Incr(r)
        PROVE  OnceEach'
    <3> DEFINE n == count[Key(r)] + 1
    <3>1. /\ request[r].pc = "counting"
          /\ request'[r].pc = IF n = 1 THEN "expiring" ELSE Verdict(n)
          /\ count' = [count EXCEPT ![Key(r)] = @ + 1]
          /\ \A p \in Requests \ {r} : request'[p] = request[p]
      BY <1>0, <2>1 DEF Incr, Types
    <3>2. request'[r].pc \in Pcs \ {"new", "counting"}
      BY <3>1 DEF Verdict, Pcs
    <3> QED
      BY <1>0, <3>1, <3>2, OnceEachIncr
  <2>2. ASSUME NEW r \in Requests, RedisFails(r)
        PROVE  OnceEach'
    <3>1. /\ request'[r].pc = "unavailable"
          /\ \A p \in Requests \ {r} : request'[p] = request[p]
      BY <1>0, <2>2 DEF RedisFails, Becomes, Types
    <3>2. CASE request[r].pc = "counting"
      BY <1>0, <2>2, <3>1, <3>2, OnceEachIncr DEF RedisFails, Pcs
    <3>3. CASE request[r].pc # "counting"
      <4>1. count' = count /\ request[r].pc = "expiring"
        BY <2>2, <3>3 DEF RedisFails
      <4>2. \A c : CalledIncr(c) \subseteq CalledIncr(c)'
        BY <3>1, <4>1 DEF CalledIncr
      <4>3. \A k \in Keys : count'[k] <= count[k]
        BY <1>0, <4>1 DEF Types
      <4> QED
        BY <1>0, <4>2, <4>3, OnceEachKept
    <3> QED
      BY <3>2, <3>3
  <2>3. ASSUME NEW r \in Requests, ReadClock(r) \/ Expire(r) \/ Die(r)
        PROVE  OnceEach'
    <3>1. /\ count' = count
          /\ request[r].pc \in {"new", "counting"} \/ request'[r].pc \notin {"new", "counting"}
          /\ \A p \in Requests \ {r} : request'[p] = request[p]
      BY <1>0, <2>3 DEF ReadClock, Expire, Die, Becomes, Verdict, Types
    <3>2. \A c : CalledIncr(c) \subseteq CalledIncr(c)'
      BY <3>1 DEF CalledIncr
    <3>3. \A k \in Keys : count'[k] <= count[k]
      BY <1>0, <3>1 DEF Types
    <3> QED
      BY <1>0, <3>2, <3>3, OnceEachKept
  <2>4. CASE Tick
    <3>1. \A c : CalledIncr(c) \subseteq CalledIncr(c)'
      BY <2>4 DEF Tick, CalledIncr
    <3>2. \A k \in Keys : count'[k] <= count[k]
      BY <1>0, <2>4 DEF Tick, Types
    <3> QED
      BY <1>0, <3>1, <3>2, OnceEachKept
  <2>5. CASE UNCHANGED vars
    BY <1>0, <2>5 DEF vars, OnceEach, CalledIncr
  <2> QED
    BY <2>1, <2>2, <2>3, <2>4, <2>5 DEF Next
<1> QED
  BY <1>3, <1>4, <1>5 DEF Bounded

\* The types, and no counter beyond the number of the client's requests: a
\* request calls INCR once and never again, whatever Redis answers.
THEOREM LimiterTypeCorrect == Spec => []TypeOK
<1>1. LimiterInv /\ Bounded => TypeOK
  <2> SUFFICES ASSUME Types, Bounded
               PROVE  TypeOK
    BY DEF LimiterInv
  <2>1. ASSUME NEW k \in Keys
        PROVE  count[k] <= Cardinality({r \in Requests : ClientOf[r] = k[1]})
    <3> DEFINE All == {r \in Requests : ClientOf[r] = k[1]}
    <3>1. CalledIncr(k[1]) \subseteq All /\ IsFiniteSet(All)
      BY FiniteAssumption, FS_Subset DEF CalledIncr
    <3>2. /\ Cardinality(CalledIncr(k[1])) <= Cardinality(All)
          /\ Cardinality(CalledIncr(k[1])) \in Nat /\ Cardinality(All) \in Nat
      BY <3>1, FS_Subset, FS_CardinalityType
    <3>3. count[k] \in Nat /\ count[k] <= Cardinality(CalledIncr(k[1]))
      BY <2>1 DEF Types, Bounded, OnceEach
    <3> HIDE DEF All
    <3>4. count[k] <= Cardinality(All)
      BY <3>2, <3>3
    <3> QED
      BY <3>4 DEF All
  <2>2. expires \in [Keys -> 0..Never]
    <3>1. \A k \in Keys : expires[k] \in 0..Never
      BY LimitsAssumption, LimiterBounds DEF Types, Bounded, Never
    <3> QED
      BY <3>1 DEF Types
  <2> QED
    BY <2>1, <2>2 DEF TypeOK, Types, Bounded
<1>2. LimiterInv /\ Bounded /\ [Next]_vars => (LimiterInv /\ Bounded)'
  BY LimiterStep, BoundedStep
<1> QED
  BY <1>1, <1>2, LimiterInit, BoundedInit, PTL DEF Spec

-----------------------------------------------------------------------------
(* Counters go away.                                                       *)

\* As long as nothing fails, every counter has an expiry or a request that is
\* about to give it one.
THEOREM CountersAlwaysExpire == Spec => []CountersExpire
<1>1. Init => CountersExpire
  BY DEF Init, CountersExpire
<1>2. ASSUME LimiterInv, LimiterInv', Bounded, CountersExpire, [Next]_vars
      PROVE  CountersExpire'
  <2> USE LimitsAssumption, LimiterBounds
  <2>0. /\ Types /\ Types' /\ now \in Nat /\ now <= MaxTime /\ MaxTime \in Nat
        /\ Window \in Nat \ {0} /\ Never = MaxTime + Window + 1 /\ faults \in Nat
    BY <1>2 DEF LimiterInv, Bounded, Types, Times, Never
  <2>1. CASE UNCHANGED vars
    BY <1>2, <2>1 DEF vars, CountersExpire, Key
  <2>2. ASSUME NEW r \in Requests, RedisFails(r) \/ Die(r)
        PROVE  CountersExpire'
    <3>1. faults' # 0
      BY <2>0, <2>2 DEF RedisFails, Die, Fault
    <3> QED
      BY <3>1 DEF CountersExpire
  <2> SUFFICES ASSUME ~UNCHANGED vars, ~\E r \in Requests : RedisFails(r) \/ Die(r),
                      faults' = 0, NEW k \in Keys, count'[k] > 0
               PROVE  \/ expires'[k] # Never
                      \/ \E r \in Requests : Key(r)' = k /\ request'[r].pc = "expiring"
    BY <2>1, <2>2 DEF CountersExpire
  <2>3. faults = 0 /\ count[k] \in Nat
    BY <1>2, <2>0 DEF Next, ReadClock, Incr, Expire, Tick, Types
  <2>4. count[k] > 0 => \/ expires[k] # Never
                        \/ \E r \in Requests : Key(r) = k /\ request[r].pc = "expiring"
    BY <1>2, <2>3 DEF CountersExpire
  <2>5. ASSUME NEW q \in Requests, ReadClock(q)
        PROVE  \/ expires'[k] # Never
               \/ \E r \in Requests : Key(r)' = k /\ request'[r].pc = "expiring"
    <3>1. /\ UNCHANGED <<count, expires>> /\ request[q].pc = "new"
          /\ \A p \in Requests \ {q} : request'[p] = request[p]
      BY <2>0, <2>5 DEF ReadClock, Types
    <3> QED
      BY <2>4, <3>1 DEF Key
  <2>6. ASSUME NEW q \in Requests, Incr(q)
        PROVE  \/ expires'[k] # Never
               \/ \E r \in Requests : Key(r)' = k /\ request'[r].pc = "expiring"
    <3> DEFINE n == count[Key(q)] + 1
    <3>1. /\ UNCHANGED expires /\ request[q].pc = "counting" /\ Key(q)' = Key(q)
          /\ request'[q].pc = IF n = 1 THEN "expiring" ELSE Verdict(n)
          /\ count' = [count EXCEPT ![Key(q)] = n]
          /\ \A p \in Requests \ {q} : request'[p] = request[p]
      BY <2>0, <2>6 DEF Incr, Types, Key
    <3>2. CASE count[k] > 0
      BY <2>4, <3>1, <3>2 DEF Key
    <3>3. CASE count[k] = 0
      <4>1. Key(q) = k
        BY <2>0, <3>1, <3>3 DEF Types
      <4> QED
        BY <3>1, <3>3, <4>1
    <3> QED
      BY <2>3, <3>2, <3>3
  <2>7. ASSUME NEW q \in Requests, Expire(q)
        PROVE  \/ expires'[k] # Never
               \/ \E r \in Requests : Key(r)' = k /\ request'[r].pc = "expiring"
    <3>1. /\ UNCHANGED count
          /\ expires' = [expires EXCEPT ![Key(q)] = now + Window]
          /\ \A p \in Requests \ {q} : request'[p] = request[p]
      BY <2>0, <2>7 DEF Expire, Becomes, Types
    <3>2. CASE Key(q) = k
      BY <2>0, <3>1, <3>2 DEF Types
    <3>3. CASE Key(q) # k
      BY <2>0, <2>4, <3>1, <3>3 DEF Types, Key
    <3> QED
      BY <3>2, <3>3
  <2>8. CASE Tick
    <3>1. /\ count'[k] = (IF expires[k] <= now + 1 THEN 0 ELSE count[k])
          /\ expires'[k] = (IF expires[k] <= now + 1 THEN Never ELSE expires[k])
          /\ UNCHANGED request
      BY <2>8 DEF Tick
    <3> QED
      BY <2>4, <3>1 DEF Key
  <2> QED
    BY <1>2, <2>5, <2>6, <2>7, <2>8 DEF Next
<1>3. LimiterInv /\ Bounded /\ [Next]_vars => (LimiterInv /\ Bounded)'
  BY LimiterStep, BoundedStep
<1> QED
  BY <1>1, <1>2, <1>3, LimiterInit, BoundedInit, PTL DEF Spec

-----------------------------------------------------------------------------
(* The limiter's bound on any Window seconds.                              *)

\* Windows are aligned, and Redis counts a request no earlier than its window.
Aligned == \A r \in Requests : \E w \in Nat : request[r].start = w * Window
CountedInTime ==
  \A r \in Requests : request[r].pc \in {"expiring", "passed", "limited"} =>
    request[r].start <= request[r].at

LEMMA StartIsMultiple ==
  ASSUME now \in Times
  PROVE  \E w \in Nat : WindowStart = w * Window
<1>1. now \in Nat /\ Window \in Nat /\ Window > 0
  BY LimitsAssumption, LimiterBounds DEF Times
<1>2. \A q \in Int : (now \div Window) = q => q >= 0
  BY <1>1, SMTT(30)
<1>3. (now \div Window) \in Nat
  BY <1>1, <1>2
<1> QED
  BY <1>3 DEF WindowStart

LEMMA AlignedStep ==
  ASSUME LimiterInv, LimiterInv', Aligned, CountedInTime, [Next]_vars
  PROVE  Aligned' /\ CountedInTime'
<1>0. /\ Types /\ Types' /\ WindowsBegun
      /\ \A r \in Requests : request[r].start \in Nat /\ request[r].at \in Nat
  BY LimiterBounds DEF LimiterInv, Types, Times
<1>1. ASSUME NEW r \in Requests, ReadClock(r)
      PROVE  Aligned' /\ CountedInTime'
  <2>1. /\ request'[r].start = WindowStart /\ request'[r].pc = "counting"
        /\ \A p \in Requests \ {r} : request'[p] = request[p]
    BY <1>0, <1>1 DEF ReadClock, Types
  <2>2. \E w \in Nat : WindowStart = w * Window
    BY <1>0, StartIsMultiple DEF Types
  <2>3. Aligned'
    BY <2>1, <2>2, Zenon DEF Aligned
  <2> QED
    BY <2>1, <2>3 DEF CountedInTime
<1>2. ASSUME NEW r \in Requests, Incr(r)
      PROVE  Aligned' /\ CountedInTime'
  <2>1. /\ request'[r].start = request[r].start /\ request'[r].at = now
        /\ request[r].pc # "new"
        /\ \A p \in Requests \ {r} : request'[p] = request[p]
    BY <1>0, <1>2 DEF Incr, Types
  <2>2. Aligned'
    BY <2>1, Zenon DEF Aligned
  <2>3. request'[r].start <= request'[r].at
    BY <1>0, <2>1 DEF WindowsBegun
  <2> QED
    BY <2>1, <2>2, <2>3 DEF CountedInTime
<1>3. ASSUME NEW r \in Requests, Expire(r) \/ RedisFails(r) \/ Die(r)
      PROVE  Aligned' /\ CountedInTime'
  <2>1. /\ request'[r].start = request[r].start /\ request'[r].at = request[r].at
        /\ \/ request[r].pc = "expiring"
           \/ request'[r].pc \in {"unavailable", "dead"}
        /\ \A p \in Requests \ {r} : request'[p] = request[p]
    BY <1>0, <1>3 DEF Expire, RedisFails, Die, Becomes, Types
  <2>2. Aligned'
    BY <2>1, Zenon DEF Aligned
  <2> QED
    BY <2>1, <2>2 DEF CountedInTime
<1>4. CASE UNCHANGED request
  BY <1>4 DEF Aligned, CountedInTime
<1> QED
  BY <1>1, <1>2, <1>3, <1>4 DEF Next, vars, Tick

\* Only two windows have seconds in common with Window seconds from t on.
LEMMA TwoWindows ==
  ASSUME NEW t \in Nat, NEW W \in Nat \ {0}, NEW w \in Nat, NEW at \in Nat,
         w * W <= at, at < w * W + W, t <= at, at <= t + W - 1
  PROVE  w = t \div W \/ w = (t \div W) + 1
<1> DEFINE q == t \div W
<1>1. q \in Nat /\ q * W <= t /\ t < q * W + W
  BY SMTT(30)
<1> HIDE DEF q
<1>2. \A m, n \in Nat : m < n => m * W + W <= n * W
  <2> SUFFICES ASSUME NEW m \in Nat, NEW n \in Nat, m < n
               PROVE  m * W + W <= n * W
    OBVIOUS
  <2>1. PICK d \in Nat : n = m + 1 + d
    <3>1. n - (m + 1) \in Nat /\ n = m + 1 + (n - (m + 1))
      OBVIOUS
    <3> QED
      BY <3>1
  <2>2. n * W = m * W + W + d * W
    BY <2>1, SMTT(30)
  <2>3. d * W \in Nat /\ m * W \in Nat
    BY SMTT(30)
  <2> QED
    BY <2>2, <2>3
<1>3. w * W \in Nat /\ q * W \in Nat /\ (q + 1) * W = q * W + W
  BY <1>1, SMTT(30)
<1>4. ~(w < q)
  BY <1>1, <1>2, <1>3
<1>5. ~(q + 1 < w)
  <2>1. q + 1 \in Nat /\ (q + 1 < w => (q + 1) * W + W <= w * W)
    BY <1>1, <1>2
  <2> QED
    BY <1>1, <1>3, <2>1
<1> QED
  BY <1>1, <1>4, <1>5 DEF q

LEMMA LetThroughLimited ==
  ASSUME Types, Counted, NEW c \in Clients, NEW t
  PROVE  Cardinality(LetThrough(c, t)) <= Limit
<1>1. CASE t \in Times
  BY <1>1 DEF Counted
<1>2. CASE t \notin Times
  <2>1. LetThrough(c, t) = {}
    BY <1>2 DEF Types, LetThrough
  <2> QED
    BY <2>1, FS_EmptySet, LimitsAssumption
<1> QED
  BY <1>1, <1>2

\* Of the requests that are counted in their own windows, no more than 2 * Limit
\* of a client pass in any Window seconds, wherever these begin: they are of two
\* windows.  Requests that are counted late are not bounded by it.
THEOREM PunctualRateAlwaysBounded == Spec => []PunctualRateBounded
<1>1. LimiterInv /\ Counted /\ Aligned /\ CountedInTime => PunctualRateBounded
  <2> SUFFICES ASSUME Types, Counted, Aligned, CountedInTime,
                      NEW c \in Clients, NEW t \in Times
               PROVE  Cardinality({r \in Passed(c) :
                        request[r].at \in t..(t + Window - 1) /\ ~Late(r)}) <= 2 * Limit
    BY DEF PunctualRateBounded, LimiterInv
  <2> DEFINE P == {r \in Passed(c) : request[r].at \in t..(t + Window - 1) /\ ~Late(r)}
             A == LetThrough(c, (t \div Window) * Window)
             B == LetThrough(c, ((t \div Window) + 1) * Window)
  <2>1. ASSUME NEW r \in P
        PROVE  r \in A \cup B
    <3>1. r \in Requests /\ request[r].pc = "passed" /\ ClientOf[r] = c /\ ~Late(r)
      BY <2>1 DEF Passed
    <3>2. /\ t \in Nat /\ Window \in Nat \ {0}
          /\ request[r].at \in Nat /\ request[r].start \in Nat
      BY <3>1, LimitsAssumption, LimiterBounds DEF Types, Times
    <3>3. PICK w \in Nat : request[r].start = w * Window
      BY <3>1 DEF Aligned
    <3>4. /\ request[r].start <= request[r].at
          /\ request[r].at < request[r].start + Window
          /\ t <= request[r].at /\ request[r].at <= t + Window - 1
      BY <2>1, <3>1, <3>2 DEF CountedInTime, Late
    <3>5. w = t \div Window \/ w = (t \div Window) + 1
      BY <3>2, <3>3, <3>4, TwoWindows
    <3> QED
      BY <3>1, <3>3, <3>5 DEF LetThrough
  <2>2. /\ IsFiniteSet(A) /\ IsFiniteSet(B)
        /\ Cardinality(A) \in Nat /\ Cardinality(B) \in Nat
    BY LetThroughFinite
  <2>3. Cardinality(A) <= Limit /\ Cardinality(B) <= Limit
    BY LetThroughLimited
  <2>4. P \subseteq A \cup B
    BY <2>1
  <2> HIDE DEF P, A, B
  <2>5. /\ IsFiniteSet(A \cup B)
        /\ Cardinality(A \cup B) = Cardinality(A) + Cardinality(B) - Cardinality(A \cap B)
    BY <2>2, FS_Union
  <2>6. Cardinality(A \cap B) \in Nat
    BY <2>2, FS_Intersection, FS_CardinalityType
  <2>7. Cardinality(P) <= Cardinality(A \cup B) /\ Cardinality(P) \in Nat
    BY <2>4, <2>5, FS_Subset, FS_CardinalityType
  <2>8. Cardinality(P) <= 2 * Limit
    BY <2>2, <2>3, <2>5, <2>6, <2>7, LimitsAssumption
  <2> QED
    BY <2>8 DEF P
<1>2. Init => Aligned /\ CountedInTime
  <2>1. 0 = 0 * Window
    BY LimitsAssumption
  <2> QED
    BY <2>1 DEF Init, Aligned, CountedInTime
<1>3. LimiterInv /\ Counted /\ [Next]_vars => (LimiterInv /\ Counted)'
  BY LimiterStep, CountedStep
<1> QED
  BY <1>1, <1>2, <1>3, LimiterInit, AlignedStep, PTL DEF Spec
=============================================================================
