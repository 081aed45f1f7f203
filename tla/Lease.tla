-------------------------------- MODULE Lease --------------------------------
(***************************************************************************)
(* What the reconcilers rely on: a lease that one of them holds for at     *)
(* most Ttl ticks.  Those that are using it believe they hold it; a lease  *)
(* that ran out may have passed to another meanwhile.  A lease ends when   *)
(* its time is up or when its own holder gives it back, and in no other    *)
(* way.                                                                    *)
(***************************************************************************)
EXTENDS Naturals

CONSTANTS
  Holders,   \* those who may hold the lease
  Nobody,    \* the holder of a free lease
  Ttl        \* ticks a lease lasts

VARIABLES
  holder,    \* who holds the lease
  left,      \* ticks until it runs out
  using      \* those who believe they hold it

leaseVars == <<holder, left, using>>

Init == holder = Nobody /\ left = 0 /\ using = {}

Granted(p) == holder = Nobody /\ holder' = p /\ left' = Ttl

Grant(p) == Granted(p) /\ using' = using \cup {p}

\* The holder never learns of it: the answer was lost.
GrantUnnoticed(p) == Granted(p) /\ UNCHANGED using

\* p stops using the lease, and gives it back if it still is the holder.
GiveBack(p) ==
  /\ p \in using
  /\ using' = using \ {p}
  /\ \/ holder = p /\ holder' = Nobody /\ left' = 0
     \/ holder # p /\ UNCHANGED <<holder, left>>

\* p stops using the lease without giving it back.
Abandon(p) == using' = using \ {p} /\ UNCHANGED <<holder, left>>

Pass ==
  /\ holder # Nobody
  /\ left' = left - 1
  /\ holder' = IF left > 1 THEN holder ELSE Nobody
  /\ UNCHANGED using

Next ==
  \/ \E p \in Holders : Grant(p) \/ GrantUnnoticed(p) \/ GiveBack(p) \/ Abandon(p)
  \/ Pass

Spec == Init /\ [][Next]_leaseVars
=============================================================================
