----------------------------- MODULE RateLimiter -----------------------------
(***************************************************************************)
(* One key of the fixed window counters: RedisRateLimiter, whose check is  *)
(* an INCR and, for the first request of a window, an EXPIRE after it, and *)
(* InMemoryRateLimiter, whose check has no await.                          *)
(*                                                                         *)
(* Time passes in ticks; a window lasts Window ticks.  The count above     *)
(* Limit is not distinguished from Limit + 1.  The TTL a check reads for   *)
(* resetAt changes nothing and is left out.                                *)
(***************************************************************************)
EXTENDS Integers

CONSTANTS
  Req,         \* contexts of concurrent requests
  Backends,    \* the limiters to consider, of "redis" and "memory"
  Limit,       \* config.maxRequests
  Window,      \* config.windowSeconds, in ticks
  MaxMishaps   \* bound on Reset, Crash and Restart

ASSUME LimitAssumption ==
  /\ Limit \in Nat \ {0}
  /\ Window \in Nat \ {0}
  /\ Backends \subseteq {"redis", "memory"}
  /\ MaxMishaps \in Nat

VARIABLES
  backend,     \* the limiter in use; it never changes
  count,       \* the counter, 0 when there is none
  ttl,         \* ticks until it is deleted; NoExpiry before its EXPIRE
  pc,          \* per request: "expire" between its INCR and its EXPIRE
  granted,     \* history: requests allowed since the counter was created
  recent,      \* history: recent[i] requests were allowed in this tick and the i before
  mishaps

vars == <<backend, count, ttl, pc, granted, recent, mishaps>>

NoExpiry == -1
Age == 0..(Window - 1)

\* The counter exists exactly when it has a lifetime, or none yet.
TypeOK ==
  /\ backend \in Backends
  /\ count \in 0..(Limit + 1)
  /\ ttl \in NoExpiry..Window
  /\ count = 0 <=> ttl = 0
  /\ pc \in [Req -> {"idle", "expire"}]
  /\ granted \in Nat
  /\ recent \in [Age -> Nat]
  /\ mishaps \in 0..MaxMishaps

Init ==
  /\ backend \in Backends
  /\ count = 0
  /\ ttl = 0
  /\ pc = [r \in Req |-> "idle"]
  /\ granted = 0
  /\ recent = [i \in Age |-> 0]
  /\ mishaps = 0

-------------------------------------------------------------------------------
\* Mutation: the limit is compared with the count before the increment.
AdmitsOneMore(n) == n <= Limit + 1

\* A request that finds n as the new count is allowed.
Admits(n) == n <= Limit

\* Bookkeeping of a request that found n as the new count.
Account(n) ==
  IF Admits(n)
  THEN /\ granted' = granted + 1
       /\ recent' = [i \in Age |-> recent[i] + 1]
  ELSE UNCHANGED <<granted, recent>>

Incremented == IF count > Limit THEN count ELSE count + 1

\* Mutation: every request renews the expiry.
IncrExtending(r) ==
  /\ backend = "redis"
  /\ pc[r] = "idle"
  /\ count' = Incremented
  /\ ttl' = IF count = 0 THEN NoExpiry ELSE ttl
  /\ pc' = [pc EXCEPT ![r] = "expire"]
  /\ Account(count')
  /\ UNCHANGED <<backend, mishaps>>

\* INCR creates the counter, without expiry, or increments it.
Incr(r) ==
  /\ backend = "redis"
  /\ pc[r] = "idle"
  /\ count' = Incremented
  /\ ttl' = IF count = 0 THEN NoExpiry ELSE ttl
  /\ pc' = IF count = 0 THEN [pc EXCEPT ![r] = "expire"] ELSE pc
  /\ Account(count')
  /\ UNCHANGED <<backend, mishaps>>

\* Mutation: PEXPIRE, so that windowSeconds are milliseconds.
SetExpiryMillis(r) ==
  /\ pc[r] = "expire"
  /\ pc' = [pc EXCEPT ![r] = "idle"]
  /\ ttl' = IF count = 0 THEN ttl ELSE 1
  /\ UNCHANGED <<backend, count, granted, recent, mishaps>>

\* EXPIRE starts the window; it does nothing to a counter that is gone.
SetExpiry(r) ==
  /\ pc[r] = "expire"
  /\ pc' = [pc EXCEPT ![r] = "idle"]
  /\ ttl' = IF count = 0 THEN ttl ELSE Window
  /\ UNCHANGED <<backend, count, granted, recent, mishaps>>

\* The whole check of InMemoryRateLimiter; a denied request is not counted.
CheckInMemory(r) ==
  /\ backend = "memory"
  /\ pc[r] = "idle"
  /\ count < Limit
  /\ count' = count + 1
  /\ ttl' = IF count = 0 THEN Window ELSE ttl
  /\ Account(count')
  /\ UNCHANGED <<backend, pc, mishaps>>

\* The counter goes, and with it its window.
Drop ==
  /\ count' = 0
  /\ ttl' = 0
  /\ granted' = 0

\* reset(key): EXPIRE with 0, or delete.
Reset ==
  /\ mishaps < MaxMishaps
  /\ mishaps' = mishaps + 1
  /\ Drop
  /\ UNCHANGED <<backend, pc, recent>>

\* The process dies, or EXPIRE throws, between INCR and EXPIRE.
Crash(r) ==
  /\ pc[r] = "expire"
  /\ mishaps < MaxMishaps
  /\ mishaps' = mishaps + 1
  /\ pc' = [pc EXCEPT ![r] = "idle"]
  /\ UNCHANGED <<backend, count, ttl, granted, recent>>

\* A new process starts with an empty map.
Restart ==
  /\ backend = "memory"
  /\ mishaps < MaxMishaps
  /\ mishaps' = mishaps + 1
  /\ Drop
  /\ UNCHANGED <<backend, pc, recent>>

\* A tick passes; a counter whose time is over is deleted.
Tick ==
  /\ recent' = [i \in Age |-> IF i = 0 THEN 0 ELSE recent[i - 1]]
  /\ \/ ttl = 1 /\ Drop
     \/ ttl > 1 /\ ttl' = ttl - 1 /\ UNCHANGED <<count, granted>>
     \/ ttl <= 0 /\ UNCHANGED <<count, ttl, granted>>
  /\ UNCHANGED <<backend, pc, mishaps>>

Next ==
  \/ \E r \in Req : Incr(r) \/ SetExpiry(r) \/ CheckInMemory(r) \/ Crash(r)
  \/ Reset \/ Restart \/ Tick

Spec == Init /\ [][Next]_vars

\* Time passes, and an EXPIRE that was sent arrives.
Fairness == WF_vars(Tick) /\ \A r \in Req : WF_vars(SetExpiry(r))
FairSpec == Spec /\ Fairness

-------------------------------------------------------------------------------
(* Properties                                                              *)

\* The limiter is a fixed window counter: in the life of a counter at most Limit
\* requests are allowed, whatever crashes, and however checks interleave.
Counter == INSTANCE FixedWindow
FixedWindowImplemented == Counter!WindowSpec

\* Over any Window consecutive ticks, wherever they start, at most twice the limit is
\* allowed unless a counter was reset: the price of fixed windows, and no more.
AtMostTwiceTheLimit ==
  mishaps = 0 => recent[Window - 1] <= 2 * Limit

\* Every window ends, even for a client that never stops asking, unless its EXPIRE
\* was lost.
WindowEnds == count > 0 ~> count = 0 \/ mishaps > 0

\* Once no check is under way, a counter has an expiry: the first request sets the
\* end of the window (comment in check).
CounterExpires ==
  (\A r \in Req : pc[r] = "idle") => (count > 0 => ttl # NoExpiry)
===============================================================================
