------------------------ MODULE CleanupBatches_proofs ------------------------
(***************************************************************************)
(* Proofs about CleanupBatches, for any finite set of jobs, any batch size *)
(* and any number of faults and retries.                                   *)
(***************************************************************************)
EXTENDS CleanupBatches, FiniteSetTheorems, SequenceTheorems, TLAPS

-----------------------------------------------------------------------------
(* The order of the rows.                                                  *)

\* What RemoveFirst leaves of a sequence that names nothing twice.
LEMMA RemoveFirstOfInjective ==
  ASSUME NEW S, NEW s \in Seq(S), NEW e, IsInjective(s)
  PROVE  /\ RemoveFirst(s, e) \in Seq(S)
         /\ IsInjective(RemoveFirst(s, e))
         /\ ToSet(RemoveFirst(s, e)) = ToSet(s) \ {e}
<1>1. CASE ~\E i \in 1..Len(s) : s[i] = e
  <2>1. RemoveFirst(s, e) = s
    BY <1>1 DEF RemoveFirst
  <2>2. e \notin ToSet(s)
    BY <1>1 DEF ToSet
  <2> QED
    BY <2>1, <2>2
<1>2. ASSUME NEW i \in 1..Len(s), s[i] = e
      PROVE  /\ RemoveFirst(s, e) \in Seq(S)
             /\ IsInjective(RemoveFirst(s, e))
             /\ ToSet(RemoveFirst(s, e)) = ToSet(s) \ {e}
  <2> DEFINE t == SubSeq(s, 1, i - 1) \o SubSeq(s, i + 1, Len(s))
  <2>0. Len(s) \in Nat /\ DOMAIN s = 1..Len(s) /\ i \in Nat /\ 1 <= i /\ i <= Len(s)
    OBVIOUS
  <2>1. {j \in 1..Len(s) : s[j] = e} = {i}
    BY <1>2, <2>0 DEF IsInjective
  <2>2. SelectInSeq(s, LAMBDA v : v = e) = i
    <3>1. Min({i}) = i
      BY <2>0 DEF Min
    <3> QED
      BY <2>1, <3>1 DEF SelectInSeq
  <2>3. RemoveFirst(s, e) = t
    BY <1>2, <2>2 DEF RemoveFirst, RemoveAt
  <2>4. /\ t \in Seq(S) /\ Len(t) = Len(s) - 1
        /\ \A j \in 1..(Len(s) - 1) : t[j] = IF j < i THEN s[j] ELSE s[j + 1]
    <3> DEFINE u == SubSeq(s, 1, i - 1)
               w == SubSeq(s, i + 1, Len(s))
    <3>1. u \in Seq(S) /\ Len(u) = i - 1 /\ \A j \in 1..(i - 1) : u[j] = s[j]
      BY <2>0
    <3>2. /\ w \in Seq(S) /\ Len(w) = Len(s) - i
          /\ \A j \in 1..(Len(s) - i) : w[j] = s[i + j]
      <4>1. /\ w \in Seq(S)
            /\ Len(w) = IF i + 1 <= Len(s) THEN Len(s) - (i + 1) + 1 ELSE 0
            /\ \A j \in 1..(Len(s) - (i + 1) + 1) : w[j] = s[i + 1 + j - 1]
        BY <2>0, SubSeqProperties
      <4> HIDE DEF w
      <4>2. Len(s) - (i + 1) + 1 = Len(s) - i /\ Len(w) = Len(s) - i
        <5>1. \A n \in Nat : \A k \in 1..n :
                 n - (k + 1) + 1 = n - k /\ (k + 1 <= n \/ n - k = 0)
          OBVIOUS
        <5>2. Len(s) - (i + 1) + 1 = Len(s) - i /\ (i + 1 <= Len(s) \/ Len(s) - i = 0)
          BY <2>0, <5>1, Zenon
        <5>3. CASE i + 1 <= Len(s)
          BY <4>1, <5>2, <5>3, Zenon
        <5>4. CASE ~(i + 1 <= Len(s))
          BY <4>1, <5>2, <5>4, Zenon
        <5> QED
          BY <5>3, <5>4
      <4>3. ASSUME NEW j \in 1..(Len(s) - i)
            PROVE  w[j] = s[i + j]
        <5>1. i + 1 + j - 1 = i + j
          BY <2>0
        <5> QED
          BY <4>1, <4>2, <5>1
      <4> QED
        BY <4>1, <4>2, <4>3
    <3> HIDE DEF u, w
    <3>3. t = u \o w
      BY DEF u, w
    <3> HIDE DEF t
    <3>4. t \in Seq(S) /\ Len(t) = Len(s) - 1
      <4>1. t \in Seq(S) /\ Len(t) = Len(u) + Len(w)
        BY <3>1, <3>2, <3>3, ConcatProperties
      <4> QED
        BY <2>0, <3>1, <3>2, <4>1
    <3>5. ASSUME NEW j \in 1..(Len(s) - 1)
          PROVE  t[j] = IF j < i THEN s[j] ELSE s[j + 1]
      <4>1. CASE j < i
        BY <2>0, <3>1, <3>2, <3>3, <4>1
      <4>2. CASE ~(j < i)
        <5>1. j - (i - 1) \in 1..(Len(s) - i) /\ i + (j - (i - 1)) = j + 1
          BY <2>0, <4>2
        <5>2. t[j] = w[j - (i - 1)]
          BY <2>0, <3>1, <3>2, <3>3, <4>2
        <5>3. w[j - (i - 1)] = s[i + (j - (i - 1))]
          BY <3>2, <5>1
        <5> QED
          BY <4>2, <5>1, <5>2, <5>3
      <4> QED
        BY <4>1, <4>2
    <3> QED
      BY <3>4, <3>5
  <2> HIDE DEF t
  <2>5. DOMAIN t = 1..(Len(s) - 1)
    BY <2>0, <2>4
  <2>6. IsInjective(t)
    <3> SUFFICES ASSUME NEW a \in DOMAIN t, NEW b \in DOMAIN t, t[a] = t[b]
                 PROVE  a = b
      BY DEF IsInjective
    <3>1. \A m, n \in 1..Len(s) : s[m] = s[n] => m = n
      BY <2>0 DEF IsInjective
    <3> QED
      BY <2>0, <2>4, <2>5, <3>1
  <2>7. ToSet(t) = ToSet(s) \ {e}
    <3>1. \A x : x \in ToSet(t) <=> \E j \in 1..(Len(s) - 1) : t[j] = x
      BY <2>5 DEF ToSet
    <3>2. \A x : x \in ToSet(s) <=> \E j \in 1..Len(s) : s[j] = x
      BY <2>0 DEF ToSet
    <3>3. ASSUME NEW x \in ToSet(t)
          PROVE  x \in ToSet(s) \ {e}
      <4>1. PICK j \in 1..(Len(s) - 1) : t[j] = x
        BY <3>1, <3>3
      <4>2. PICK n \in 1..Len(s) : n # i /\ s[n] = x
        BY <2>0, <2>4, <4>1
      <4>3. x # e
        BY <1>2, <2>0, <4>2 DEF IsInjective
      <4> QED
        BY <3>2, <4>2, <4>3
    <3>4. ASSUME NEW x \in ToSet(s) \ {e}
          PROVE  x \in ToSet(t)
      <4>1. PICK n \in 1..Len(s) : s[n] = x
        BY <3>2, <3>4
      <4>2. n # i
        BY <1>2, <3>4, <4>1
      <4>3. CASE n < i
        BY <2>0, <2>4, <3>1, <4>1, <4>3
      <4>4. CASE n > i
        <5>1. n - 1 \in 1..(Len(s) - 1) /\ t[n - 1] = s[n]
          BY <2>0, <2>4, <4>4
        <5> QED
          BY <3>1, <4>1, <5>1
      <4> QED
        BY <2>0, <4>2, <4>3, <4>4
    <3> QED
      BY <3>3, <3>4
  <2> QED
    BY <2>3, <2>4, <2>6, <2>7
<1> QED
  BY <1>1, <1>2

LEMMA AppendToInjective ==
  ASSUME NEW S, NEW s \in Seq(S), NEW e \in S, IsInjective(s), e \notin ToSet(s)
  PROVE  /\ Append(s, e) \in Seq(S)
         /\ IsInjective(Append(s, e))
         /\ ToSet(Append(s, e)) = ToSet(s) \cup {e}
<1> DEFINE t == Append(s, e)
<1>1. /\ Len(s) \in Nat /\ DOMAIN s = 1..Len(s)
      /\ t \in Seq(S) /\ DOMAIN t = 1..(Len(s) + 1)
      /\ \A j \in 1..Len(s) : t[j] = s[j]
      /\ t[Len(s) + 1] = e
  OBVIOUS
<1> HIDE DEF t
<1>2. \A x : x \in ToSet(t) <=> \E j \in 1..(Len(s) + 1) : t[j] = x
  BY <1>1 DEF ToSet
<1>3. \A x : x \in ToSet(s) <=> \E j \in 1..Len(s) : s[j] = x
  BY <1>1 DEF ToSet
<1>4. \A j \in 1..(Len(s) + 1) : j \in 1..Len(s) \/ j = Len(s) + 1
  BY <1>1
<1>5. IsInjective(t)
  <2> SUFFICES ASSUME NEW a \in 1..(Len(s) + 1), NEW b \in 1..(Len(s) + 1), t[a] = t[b]
               PROVE  a = b
    BY <1>1 DEF IsInjective
  <2>1. \A m, n \in 1..Len(s) : s[m] = s[n] => m = n
    BY <1>1 DEF IsInjective
  <2> QED
    BY <1>1, <1>3, <1>4, <2>1
<1>6. ToSet(t) = ToSet(s) \cup {e}
  <2>1. \A j \in 1..Len(s) : j \in 1..(Len(s) + 1)
    BY <1>1
  <2>2. Len(s) + 1 \in 1..(Len(s) + 1)
    BY <1>1
  <2> QED
    BY <1>1, <1>2, <1>3, <1>4, <2>1, <2>2
<1> QED
  BY <1>1, <1>5, <1>6 DEF t

LEMMA TouchOrder ==
  ASSUME NEW j \in Jobs, order \in Seq(Jobs), IsInjective(order)
  PROVE  /\ Touch(j) \in Seq(Jobs) /\ IsInjective(Touch(j))
         /\ ToSet(Touch(j)) = ToSet(order) \cup {j}
<1> DEFINE rest == RemoveFirst(order, j)
<1>1. rest \in Seq(Jobs) /\ IsInjective(rest) /\ ToSet(rest) = ToSet(order) \ {j}
  BY RemoveFirstOfInjective
<1> HIDE DEF rest
<1>2. /\ Append(rest, j) \in Seq(Jobs) /\ IsInjective(Append(rest, j))
      /\ ToSet(Append(rest, j)) = ToSet(rest) \cup {j}
  BY <1>1, AppendToInjective
<1> QED
  BY <1>1, <1>2 DEF Touch, rest

-----------------------------------------------------------------------------
(* The inductive invariant.                                                *)

\* TypeOK needs to know that the order is one of jobs, and that a pass at work
\* has a job in hand.
OrderIsOfJobs == order \in Seq(Jobs)
PassHasJob == pass.pc # "idle" => pass.todo # <<>>

\* What is on the list was due when the list was made, and a retry, which alone
\* makes it young again, is remembered.
ListIsDue == ToSet(pass.todo) \subseteq old \cup raced

BatchInv == TypeOK /\ OrderIsOfJobs /\ PassHasJob /\ ListIsDue

LEMMA KeysType ==
  ASSUME NEW j
  PROVE  Keys(j) \in Seq(Objects)
<1>1. "raw" \in Objects /\ "outputs" \in Objects
  BY DEF Objects
<1> QED
  BY <1>1 DEF Keys

LEMMA InHandType ==
  ASSUME pass \in Pass, pass.todo # <<>>
  PROVE  InHand \in Jobs /\ InHand \in ToSet(pass.todo)
<1>1. pass.todo \in Seq(Jobs)
  BY DEF Pass
<1>2. 1 \in DOMAIN pass.todo /\ Head(pass.todo) = pass.todo[1] /\ pass.todo[1] \in Jobs
  BY <1>1
<1> QED
  BY <1>2 DEF InHand, ToSet

LEMMA NextInListKeeps ==
  ASSUME pass \in Pass, pass.todo # <<>>, NextInList
  PROVE  /\ pass' \in Pass
         /\ pass'.pc # "idle" => pass'.todo # <<>>
         /\ ToSet(pass'.todo) \subseteq ToSet(pass.todo)
<1>1. pass.todo \in Seq(Jobs) /\ pass.rows \in BOOLEAN
  BY DEF Pass
<1>2. CASE Len(pass.todo) = 1
  <2>1. pass' = IdlePass
    BY <1>2 DEF NextInList
  <2>2. IdlePass \in Pass /\ IdlePass.pc = "idle" /\ IdlePass.todo = <<>>
    BY DEF IdlePass, Pass
  <2>3. ToSet(<<>>) = {}
    BY DEF ToSet
  <2> QED
    BY <2>1, <2>2, <2>3
<1>3. CASE Len(pass.todo) # 1
  <2>1. pass' = [pass EXCEPT !.pc = "choosing", !.todo = Tail(@), !.left = <<>>]
    BY <1>3 DEF NextInList
  <2>2. /\ Tail(pass.todo) \in Seq(Jobs) /\ Tail(pass.todo) # <<>>
        /\ \A i \in DOMAIN Tail(pass.todo) :
             i + 1 \in DOMAIN pass.todo /\ Tail(pass.todo)[i] = pass.todo[i + 1]
    <3> DEFINE s == pass.todo
    <3>1. s \in Seq(Jobs) /\ s # <<>> /\ Len(s) # 1
      BY <1>1, <1>3
    <3> HIDE DEF s
    <3>2. /\ Tail(s) \in Seq(Jobs) /\ Len(Tail(s)) = Len(s) - 1
          /\ \A i \in 1..Len(Tail(s)) : Tail(s)[i] = s[i + 1]
      BY <3>1, HeadTailProperties
    <3>3. Len(s) \in Nat /\ Len(s) > 1 /\ DOMAIN s = 1..Len(s)
      BY <3>1
    <3>4. DOMAIN Tail(s) = 1..Len(Tail(s))
      BY <3>2
    <3>5. Tail(s) # <<>>
      <4>1. \A n \in Nat : n > 1 => n - 1 # 0
        OBVIOUS
      <4>2. Len(Tail(s)) # 0
        BY <3>2, <3>3, <4>1, Zenon
      <4>3. Len(<<>>) = 0
        OBVIOUS
      <4> QED
        BY <4>2, <4>3, Zenon
    <3> QED
      BY <3>2, <3>3, <3>4, <3>5 DEF s
  <2>3. pass'.pc = "choosing" /\ pass'.todo = Tail(pass.todo)
    BY <2>1 DEF Pass
  <2>4. pass' \in Pass
    <3>1. pass' = [pc |-> "choosing", todo |-> Tail(pass.todo), rows |-> pass.rows,
                   left |-> <<>>]
      BY <2>1 DEF Pass
    <3>2. <<>> \in Seq(Objects)
      OBVIOUS
    <3> QED
      BY <1>1, <2>2, <3>1, <3>2 DEF Pass
  <2>5. ToSet(Tail(pass.todo)) \subseteq ToSet(pass.todo)
    BY <2>2 DEF ToSet
  <2> QED
    BY <2>2, <2>3, <2>4, <2>5
<1> QED
  BY <1>2, <1>3

LEMMA BatchIsOfOrder ==
  ASSUME order \in Seq(Jobs)
  PROVE  ToSet(Batch) \subseteq Jobs
<1> DEFINE m == Min({BatchSize, Len(order)})
<1>1. BatchSize \in Nat /\ Len(order) \in Nat
  BY BatchSizeAssumption
<1>2. m \in Nat /\ m <= Len(order)
  <2>1. \E x \in {BatchSize, Len(order)} : \A y \in {BatchSize, Len(order)} : x <= y
    BY <1>1
  <2>2. m \in {BatchSize, Len(order)} /\ \A y \in {BatchSize, Len(order)} : m <= y
    BY <2>1 DEF Min
  <2> QED
    BY <1>1, <2>2
<1> HIDE DEF m
<1>3. SubSeq(order, 1, m) \in Seq(Jobs)
  <2>1. \A i \in 1..m : order[i] \in Jobs
    BY <1>1, <1>2
  <2> QED
    BY <1>2, <2>1, SubSeqProperties
<1>4. Batch \in Seq(Jobs)
  BY <1>3 DEF Batch, m
<1> HIDE DEF Batch
<1> QED
  BY <1>4 DEF ToSet

LEMMA BatchInit == Init => BatchInv
<1> SUFFICES ASSUME Init
             PROVE  BatchInv
  OBVIOUS
<1>1. order = <<>> /\ ToSet(<<>>) = {} /\ Finished = {} /\ IsInjective(<<>>)
  BY DEF Init, ToSet, Finished, IsInjective
<1>2. pass \in Pass /\ pass.pc = "idle" /\ pass.todo = <<>>
  BY DEF Init, IdlePass, Pass
<1>3. TypeOK
  BY <1>1, <1>2 DEF Init, TypeOK, Statuses, Objects
<1> QED
  BY <1>1, <1>2, <1>3 DEF BatchInv, OrderIsOfJobs, PassHasJob, ListIsDue

LEMMA JobStep ==
  ASSUME BatchInv, NEW j \in Jobs, Finish(j) \/ GrowOld(j) \/ Retry(j)
  PROVE  BatchInv'
<1>0. /\ status \in [Jobs -> Statuses] /\ old \subseteq Jobs /\ cleaned \subseteq Jobs
      /\ noted \subseteq Jobs /\ raced \subseteq Jobs /\ pass \in Pass
      /\ objects \in [Jobs -> SUBSET Objects]
      /\ order \in Seq(Jobs) /\ IsInjective(order) /\ ToSet(order) = Finished \ cleaned
      /\ spent \in [{"faults", "retries"} -> Nat]
  BY DEF BatchInv, TypeOK, OrderIsOfJobs
<1>1. UNCHANGED <<cleaned, noted, pass>>
  BY DEF Finish, GrowOld, Retry
<1>2. PassHasJob'
  BY <1>1 DEF BatchInv, PassHasJob
<1>3. /\ status' \in [Jobs -> Statuses] /\ old' \subseteq Jobs /\ raced' \subseteq Jobs
      /\ objects' \in [Jobs -> SUBSET Objects]
      /\ spent' \in [{"faults", "retries"} -> Nat]
  <2>1. CASE Finish(j)
    <3>1. status' \in [Jobs -> Statuses]
      BY <1>0, <2>1 DEF Finish, Statuses
    <3>2. objects' \in [Jobs -> SUBSET Objects]
      BY <1>0, <2>1 DEF Finish
    <3> QED
      BY <1>0, <2>1, <3>1, <3>2 DEF Finish
  <2>2. CASE GrowOld(j)
    BY <1>0, <2>2 DEF GrowOld
  <2>3. CASE Retry(j)
    <3>1. status' \in [Jobs -> Statuses]
      BY <1>0, <2>3 DEF Retry, Statuses
    <3>2. spent' \in [{"faults", "retries"} -> Nat]
      BY <1>0, <2>3 DEF Retry, Spend
    <3> QED
      BY <1>0, <2>3, <3>1, <3>2 DEF Retry
  <2> QED
    BY <2>1, <2>2, <2>3
<1>4. order' \in Seq(Jobs) /\ IsInjective(order') /\ ToSet(order') = Finished' \ cleaned'
  <2>1. CASE Finish(j)
    <3>1. Finished' = Finished \cup {j}
      <4>1. \A k \in Jobs \ {j} : status'[k] = status[k]
        BY <1>0, <2>1 DEF Finish
      <4>2. status'[j] \in {"COMPLETED", "exhausted", "limbo"}
        BY <1>0, <2>1 DEF Finish
      <4> QED
        BY <4>1, <4>2 DEF Finished
    <3>2. CASE j \in cleaned
      BY <1>0, <1>1, <2>1, <3>1, <3>2 DEF Finish
    <3>3. CASE j \notin cleaned
      <4>1. order' = Touch(j)
        BY <2>1, <3>3 DEF Finish
      <4> QED
        BY <1>0, <1>1, <3>1, <3>3, <4>1, TouchOrder
    <3> QED
      BY <3>2, <3>3
  <2>2. CASE GrowOld(j)
    <3>1. order' = order /\ Finished' = Finished
      BY <2>2 DEF GrowOld, Finished
    <3> QED
      BY <1>0, <1>1, <3>1
  <2>3. CASE Retry(j)
    <3>1. order' = RemoveFirst(order, j)
      BY <2>3 DEF Retry
    <3>2. Finished' = Finished \ {j}
      <4>1. (\A k \in Jobs \ {j} : status'[k] = status[k]) /\ status'[j] = "active"
        BY <1>0, <2>3 DEF Retry
      <4> QED
        BY <4>1 DEF Finished
    <3> QED
      BY <1>0, <1>1, <3>1, <3>2, RemoveFirstOfInjective
  <2> QED
    BY <2>1, <2>2, <2>3
<1>5. ListIsDue'
  <2>1. ToSet(pass.todo) \subseteq old \cup raced /\ ToSet(pass'.todo) = ToSet(pass.todo)
    BY <1>1 DEF BatchInv, ListIsDue
  <2>2. \A k \in ToSet(pass.todo) : k \in old \cup raced => k \in old' \cup raced'
    BY DEF Finish, GrowOld, Retry
  <2> QED
    BY <2>1, <2>2 DEF ListIsDue
<1> QED
  BY <1>0, <1>1, <1>2, <1>3, <1>4, <1>5 DEF BatchInv, TypeOK, OrderIsOfJobs

LEMMA PassStep ==
  ASSUME BatchInv, PassNext \/ PassDies
  PROVE  BatchInv'
<1>0. /\ status \in [Jobs -> Statuses] /\ old \subseteq Jobs /\ cleaned \subseteq Jobs
      /\ noted \subseteq Jobs /\ raced \subseteq Jobs /\ pass \in Pass
      /\ objects \in [Jobs -> SUBSET Objects]
      /\ order \in Seq(Jobs) /\ IsInjective(order) /\ ToSet(order) = Finished \ cleaned
      /\ spent \in [{"faults", "retries"} -> Nat]
      /\ ToSet(pass.todo) \subseteq old \cup raced
      /\ pass.pc # "idle" => pass.todo # <<>>
      /\ pass.todo \in Seq(Jobs) /\ pass.left \in Seq(Objects)
  BY DEF BatchInv, TypeOK, OrderIsOfJobs, PassHasJob, ListIsDue, Pass
<1>1. pass.pc # "idle" => InHand \in Jobs /\ InHand \in ToSet(pass.todo)
  BY <1>0, InHandType
\* The steps that leave the rows and the list alone.
<1>2. ASSUME UNCHANGED <<status, old, cleaned, noted, order>>, pass' \in Pass,
             objects' \in [Jobs -> SUBSET Objects],
             spent' \in [{"faults", "retries"} -> Nat], raced' \subseteq Jobs,
             pass'.pc # "idle" => pass'.todo # <<>>,
             ToSet(pass'.todo) \subseteq old \cup raced'
      PROVE  BatchInv'
  <2>1. Finished' = Finished
    BY <1>2 DEF Finished
  <2> QED
    BY <1>0, <1>2, <2>1 DEF BatchInv, TypeOK, OrderIsOfJobs, PassHasJob, ListIsDue
<1>3. CASE Begin
  <2>1. PICK candidates \in SetToSeqs({j \in ToSet(Batch) : IsCandidate(j)}), delete \in BOOLEAN :
          /\ candidates # <<>>
          /\ pass' = [pc |-> "deleting", todo |-> candidates, rows |-> delete,
                      left |-> Keys(Head(candidates))]
    BY <1>3 DEF Begin
  <2> DEFINE C == {j \in ToSet(Batch) : IsCandidate(j)}
  <2>2. C \subseteq Jobs /\ C \subseteq old /\ Cardinality(C) \in Nat
    <3>1. C \subseteq Jobs
      BY <1>0, BatchIsOfOrder
    <3>2. C \subseteq old
      BY DEF IsCandidate
    <3> QED
      BY <3>1, <3>2, JobsAssumption, FS_Subset, FS_CardinalityType
  <2>3. candidates \in [1..Cardinality(C) -> C]
    BY <2>1 DEF SetToSeqs
  <2> HIDE DEF C
  <2>4. candidates \in Seq(Jobs) /\ ToSet(candidates) \subseteq old
    BY <2>2, <2>3 DEF ToSet
  <2>5. pass' \in Pass /\ pass'.pc = "deleting" /\ pass'.todo = candidates
    BY <2>1, <2>4, KeysType DEF Pass
  <2>6. UNCHANGED <<status, old, cleaned, noted, order, objects, spent>> /\ raced' = {}
    BY <1>3 DEF Begin
  <2> QED
    BY <1>0, <1>2, <2>1, <2>4, <2>5, <2>6
<1>4. CASE Choose
  <2>1. /\ pass' \in Pass /\ pass'.todo = pass.todo /\ pass.pc # "idle"
    BY <1>0, <1>4, KeysType DEF Choose, Pass
  <2>2. UNCHANGED <<status, old, cleaned, noted, order, objects, raced, spent>>
    BY <1>4 DEF Choose, PassUnchanged
  <2> QED
    BY <1>0, <1>2, <2>1, <2>2
<1>5. CASE DeleteObject
  <2>1. Tail(pass.left) \in Seq(Objects)
    BY <1>0, <1>5 DEF DeleteObject
  <2>2. pass' \in Pass /\ pass'.todo = pass.todo /\ pass.pc # "idle"
    BY <1>0, <1>5, <2>1 DEF DeleteObject, Pass
  <2>3. UNCHANGED <<status, old, cleaned, noted, order, raced, spent>>
    BY <1>5 DEF DeleteObject
  <2>4. objects' \in [Jobs -> SUBSET Objects]
    BY <1>0, <1>5 DEF DeleteObject
  <2> QED
    BY <1>0, <1>2, <2>2, <2>3, <2>4
<1>6. CASE DeleteFails
  <2>1. pass' \in Pass /\ pass'.todo = pass.todo /\ pass.pc # "idle"
    BY <1>0, <1>6 DEF DeleteFails, Pass
  <2>2. UNCHANGED <<status, old, cleaned, noted, order, objects, raced>>
    BY <1>6 DEF DeleteFails
  <2>3. spent' \in [{"faults", "retries"} -> Nat]
    BY <1>0, <1>6 DEF DeleteFails, Spend
  <2> QED
    BY <1>0, <1>2, <2>1, <2>2, <2>3
<1>7. CASE PassDies
  <2>1. pass' \in Pass /\ pass'.pc = "idle" /\ pass'.todo = <<>>
    BY <1>7 DEF PassDies, IdlePass, Pass
  <2>2. UNCHANGED <<status, old, cleaned, noted, order, objects, raced>>
    BY <1>7 DEF PassDies
  <2>3. spent' \in [{"faults", "retries"} -> Nat]
    BY <1>0, <1>7 DEF PassDies, Spend
  <2>4. ToSet(<<>>) = {}
    BY DEF ToSet
  <2> QED
    BY <1>0, <1>2, <2>1, <2>2, <2>3, <2>4
\* The steps that end the work on the job in hand.
<1>8. ASSUME NoteFailure \/ CleanRow
      PROVE  BatchInv'
  <2>1. /\ pass.pc # "idle" /\ NextInList
        /\ UNCHANGED <<old, objects, raced, spent>>
    BY <1>8 DEF NoteFailure, CleanRow
  <2>2. /\ pass' \in Pass
        /\ pass'.pc # "idle" => pass'.todo # <<>>
        /\ ToSet(pass'.todo) \subseteq ToSet(pass.todo)
    BY <1>0, <2>1, NextInListKeeps
  <2>3. ASSUME status' \in [Jobs -> Statuses], cleaned' \subseteq Jobs, noted' \subseteq Jobs,
               order' \in Seq(Jobs), IsInjective(order'),
               ToSet(order') = Finished' \ cleaned'
        PROVE  BatchInv'
    BY <1>0, <2>1, <2>2, <2>3 DEF BatchInv, TypeOK, OrderIsOfJobs, PassHasJob, ListIsDue
  <2>4. CASE NoteFailure
    <3>1. UNCHANGED <<status, cleaned>> /\ noted' \subseteq Jobs /\ Finished' = Finished
      BY <1>0, <1>1, <2>1, <2>4 DEF NoteFailure, Finished
    <3>2. CASE order' = order
      BY <1>0, <2>3, <3>1, <3>2
    <3>3. CASE order' = Touch(InHand) /\ InHand \in ToSet(order)
      <4>1. /\ order' \in Seq(Jobs) /\ IsInjective(order')
            /\ ToSet(order') = ToSet(order) \cup {InHand}
        BY <1>0, <1>1, <2>1, <3>3, TouchOrder
      <4> QED
        BY <1>0, <2>3, <3>1, <3>3, <4>1
    <3> QED
      BY <2>4, <3>2, <3>3 DEF NoteFailure
  <2>5. CASE CleanRow
    <3>1. order' = RemoveFirst(order, InHand) /\ noted' \subseteq Jobs
      BY <1>0, <2>5 DEF CleanRow
    <3>2. /\ order' \in Seq(Jobs) /\ IsInjective(order')
          /\ ToSet(order') = (Finished \ cleaned) \ {InHand}
      BY <1>0, <3>1, RemoveFirstOfInjective
    <3>3. CASE pass.rows
      <4>1. status' = [status EXCEPT ![InHand] = "removed"] /\ UNCHANGED cleaned
        BY <2>5, <3>3 DEF CleanRow
      <4>2. status' \in [Jobs -> Statuses]
        BY <1>0, <4>1 DEF Statuses
      <4>3. (\A k \in Jobs \ {InHand} : status'[k] = status[k]) /\ status'[InHand] = "removed"
        BY <1>0, <1>1, <2>1, <4>1
      <4>4. Finished' = Finished \ {InHand}
        BY <4>3 DEF Finished
      <4> QED
        BY <1>0, <2>3, <3>1, <3>2, <4>1, <4>2, <4>4
    <3>4. CASE ~pass.rows
      <4>1. cleaned' = cleaned \cup {InHand} /\ UNCHANGED status
        BY <2>5, <3>4 DEF CleanRow
      <4>2. Finished' = Finished
        BY <4>1 DEF Finished
      <4> QED
        BY <1>0, <1>1, <2>1, <2>3, <3>1, <3>2, <4>1, <4>2
    <3> QED
      BY <3>3, <3>4
  <2> QED
    BY <1>8, <2>4, <2>5
<1> QED
  BY <1>3, <1>4, <1>5, <1>6, <1>7, <1>8 DEF PassNext

LEMMA BatchNext == BatchInv /\ [Next]_vars => BatchInv'
<1> SUFFICES ASSUME BatchInv, [Next]_vars
             PROVE  BatchInv'
  OBVIOUS
<1>1. CASE UNCHANGED vars
  BY <1>1 DEF vars, BatchInv, TypeOK, OrderIsOfJobs, PassHasJob, ListIsDue, Finished
<1> QED
  BY <1>1, JobStep, PassStep DEF Next

LEMMA BatchAlways == Spec => []BatchInv
BY BatchInit, BatchNext, PTL DEF Spec

-----------------------------------------------------------------------------
(* The theorems.                                                           *)

\* The order by updated_at holds every finished job that is not cleaned, and
\* each of them once, whatever the pass, the workers and the administrators do.
THEOREM BatchTypeCorrect == Spec => []TypeOK
<1>1. BatchInv => TypeOK
  BY DEF BatchInv
<1> QED
  BY <1>1, BatchAlways, PTL

\* However long its list and however late it comes to a job, the pass deletes
\* objects only of jobs past their retention, or retried with the job listed.
THEOREM RetentionAlwaysKept == Spec => RetentionKept
<1> DEFINE Kept == \A j \in Jobs : objects[j] \ objects'[j] # {} => j \in old \cup raced
<1>1. BatchInv /\ [Next]_vars => [Kept]_vars
  <2> SUFFICES ASSUME BatchInv, Next, NEW j \in Jobs, objects[j] \ objects'[j] # {}
               PROVE  j \in old \cup raced
    OBVIOUS
  <2>0. objects \in [Jobs -> SUBSET Objects] /\ pass \in Pass
    BY DEF BatchInv, TypeOK
  <2>1. ASSUME NEW k \in Jobs, Finish(k)
        PROVE  objects[j] \subseteq objects'[j]
    BY <2>0, <2>1 DEF Finish
  <2>2. CASE DeleteObject
    <3>1. InHand \in ToSet(pass.todo)
      BY <2>0, <2>2, InHandType DEF DeleteObject, BatchInv, PassHasJob
    <3>2. j = InHand
      BY <2>0, <2>2 DEF DeleteObject
    <3> QED
      BY <3>1, <3>2 DEF BatchInv, ListIsDue
  <2>3. CASE UNCHANGED objects
    BY <2>3
  <2> QED
    BY <2>1, <2>2, <2>3 DEF Next, PassNext, GrowOld, Retry, Begin, Choose, PassUnchanged,
         DeleteFails, NoteFailure, CleanRow, PassDies
<1>2. [Kept]_vars <=> [\A j \in Jobs : objects[j] \ objects'[j] # {} => j \in old \cup raced]_vars
  OBVIOUS
<1> QED
  BY <1>1, <1>2, BatchAlways, PTL DEF Spec, RetentionKept
=============================================================================
