---------------------------- MODULE RateLimiter ----------------------------
(***************************************************************************)
(* The upload rate limiter: one counter in Redis per client and window of  *)
(* the clock.  A request reads the clock, increments the counter of the    *)
(* window it read, gives a new counter its expiry, and decides by what the *)
(* increment returned.                                                     *)
(*                                                                         *)
(* Three calls, so requests of several API processes interleave between    *)
(* them, time passes, a call may raise and a process may die.  Time is in  *)
(* seconds, as the code truncates it.  UploadIntake leaves the verdict of  *)
(* this module open.                                                       *)
(***************************************************************************)
EXTENDS Naturals, FiniteSets

CONSTANTS
  Requests,   \* requests to upload
  ClientOf,   \* the client identifier of each
  Limit,      \* upload_rate_limit_max_requests
  Window,     \* upload_rate_limit_window_seconds
  MaxTime,    \* bound: seconds
  MaxFaults   \* bound: processes that die and calls to Redis that raise

Clients == {ClientOf[r] : r \in Requests}

ASSUME FiniteAssumption == IsFiniteSet(Requests)
ASSUME LimitsAssumption == Limit \in Nat /\ Window \in Nat \ {0}
ASSUME LimiterBounds == {MaxTime, MaxFaults} \subseteq Nat

VARIABLES
  now,      \* the clock
  count,    \* the counter of each client and window; 0 when there is no key
  expires,  \* when the key expires; Never when it does not
  request,  \* each request, with its window and the time it was counted
  faults

vars == <<now, count, expires, request, faults>>

Times == 0..MaxTime
Never == MaxTime + Window + 1
Keys  == Clients \X Times      \* upload_rate:{client}:{window_start}

Pcs == {"new", "counting", "expiring", "passed", "limited", "unavailable", "dead"}

TypeOK ==
  /\ now \in Times
  /\ count \in [Keys -> Nat]
  /\ \A k \in Keys : count[k] <= Cardinality({r \in Requests : ClientOf[r] = k[1]})
  /\ expires \in [Keys -> 0..Never]
  /\ request \in [Requests -> [pc : Pcs, start : Times, at : Times]]
  /\ faults \in 0..MaxFaults

Init ==
  /\ now = 0
  /\ count = [k \in Keys |-> 0] /\ expires = [k \in Keys |-> Never]
  /\ request = [r \in Requests |-> [pc |-> "new", start |-> 0, at |-> 0]]
  /\ faults = 0

-----------------------------------------------------------------------------

Key(r) == <<ClientOf[r], request[r].start>>
Fault == faults < MaxFaults /\ faults' = faults + 1
Becomes(r, pc) == request' = [request EXCEPT ![r].pc = pc]

\* Variant: the windows are not aligned, every second begins one.
UnalignedStart == now

WindowStart == (now \div Window) * Window

ReadClock(r) ==
  /\ request[r].pc = "new"
  /\ request' = [request EXCEPT ![r] =
       [@ EXCEPT !.pc = "counting", !.start = WindowStart]]
  /\ UNCHANGED <<now, count, expires, faults>>

Verdict(n) == IF n > Limit THEN "limited" ELSE "passed"

\* INCR of a key that may have expired meanwhile: then it starts anew.
Incr(r) ==
  LET n == count[Key(r)] + 1
  IN /\ request[r].pc = "counting"
     /\ count' = [count EXCEPT ![Key(r)] = n]
     /\ request' = [request EXCEPT ![r] =
          [@ EXCEPT !.pc = IF n = 1 THEN "expiring" ELSE Verdict(n), !.at = now]]
     /\ UNCHANGED <<now, expires, faults>>

\* Variant: the expiry is taken from the start of the window.
ExpireAtReset(r) ==
  /\ request[r].pc = "expiring"
  /\ expires' = [expires EXCEPT ![Key(r)] = request[r].start + Window - 1]
  /\ Becomes(r, Verdict(1))
  /\ UNCHANGED <<now, count, faults>>

\* Variant: no expiry for a counter that is over the limit.
ExpireSome(r) ==
  /\ request[r].pc = "expiring"
  /\ expires' = IF count[Key(r)] > Limit THEN expires
                ELSE [expires EXCEPT ![Key(r)] = now + Window]
  /\ Becomes(r, Verdict(1))
  /\ UNCHANGED <<now, count, faults>>

\* EXPIRE of a key that is still there, then the decision.
Expire(r) ==
  /\ request[r].pc = "expiring"
  /\ expires' = [expires EXCEPT ![Key(r)] = now + Window]
  /\ Becomes(r, Verdict(1))
  /\ UNCHANGED <<now, count, faults>>

\* Variant: the request tries INCR again.
RetryIncr(r) ==
  /\ request[r].pc = "counting"
  /\ count' \in {count, [count EXCEPT ![Key(r)] = @ + 1]}
  /\ Fault
  /\ UNCHANGED <<now, expires, request>>

\* INCR or EXPIRE raises: the request is refused, whether Redis did it or not.
RedisFails(r) ==
  /\ \/ request[r].pc = "counting"
        /\ count' \in {count, [count EXCEPT ![Key(r)] = @ + 1]}
        /\ UNCHANGED expires
     \/ request[r].pc = "expiring"
        /\ expires' \in {expires, [expires EXCEPT ![Key(r)] = now + Window]}
        /\ UNCHANGED count
  /\ Becomes(r, "unavailable")
  /\ Fault
  /\ UNCHANGED now

Die(r) ==
  /\ request[r].pc \in {"counting", "expiring"}
  /\ Becomes(r, "dead")
  /\ Fault
  /\ UNCHANGED <<now, count, expires>>

\* A second passes, and Redis drops the keys that are over.
Tick ==
  /\ now < MaxTime
  /\ now' = now + 1
  /\ count' = [k \in Keys |-> IF expires[k] <= now' THEN 0 ELSE count[k]]
  /\ expires' = [k \in Keys |-> IF expires[k] <= now' THEN Never ELSE expires[k]]
  /\ UNCHANGED <<request, faults>>

Next ==
  \/ \E r \in Requests : ReadClock(r) \/ Incr(r) \/ Expire(r) \/ RedisFails(r) \/ Die(r)
  \/ Tick

Spec == Init /\ [][Next]_vars

-----------------------------------------------------------------------------
(* Properties.                                                             *)

Passed(client) == {r \in Requests : request[r].pc = "passed" /\ ClientOf[r] = client}

\* A request whose window was over when Redis counted it: no bound in the code
\* keeps it from being as late as it likes.
Late(r) == request[r].at >= request[r].start + Window

\* A window lets no more than Limit requests of a client through that are not
\* late, however all of them interleave, fail and die: only a late one may find
\* the counter expired.
WindowLimit ==
  \A c \in Clients : \A t \in Times :
    Cardinality({r \in Passed(c) : request[r].start = t /\ ~Late(r)}) <= Limit

\* Of the requests that are counted in their own windows, 2 * Limit of a client
\* at most pass in any Window seconds, wherever these begin.  The late ones come
\* on top: they are counted by keys of windows that are over, of which one
\* stretch may see any number.
PunctualRateBounded ==
  \A c \in Clients : \A t \in Times :
    Cardinality({r \in Passed(c) : request[r].at \in t..(t + Window - 1) /\ ~Late(r)})
      <= 2 * Limit

\* Every counter is going to go away: it has an expiry, or the request that
\* created it is about to give it one, as long as nothing failed between the two.
CountersExpire ==
  faults = 0 =>
    \A k \in Keys : count[k] > 0 =>
      expires[k] # Never \/ \E r \in Requests : Key(r) = k /\ request[r].pc = "expiring"
=============================================================================
