-------------------------- MODULE RateLimiterProofs --------------------------
(***************************************************************************)
(* Proofs about RateLimiter, for every limit, window and number of         *)
(* requests, and for both backends.                                        *)
(***************************************************************************)
EXTENDS RateLimiter, TLAPS

\* A request is allowed for each count up to the limit.
Counted == granted = IF count > Limit THEN Limit ELSE count

LimitInv == TypeOK /\ Counted

LEMMA LimitInit == Init => LimitInv
  BY LimitAssumption DEF Init, LimitInv, TypeOK, Counted, NoExpiry

\* Every step keeps the invariant, and grants at most one request in the window.
LEMMA LimitStep ==
  ASSUME LimitInv, [Next]_vars
  PROVE  LimitInv' /\ [Counter!Grant \/ Counter!CloseWindow]_granted
<1> DEFINE Goal == LimitInv' /\ [Counter!Grant \/ Counter!CloseWindow]_granted
<1> USE LimitAssumption DEF LimitInv, TypeOK, Counted, Counter!Grant, Counter!CloseWindow,
        NoExpiry, Age
<1>1. ASSUME NEW r \in Req, Incr(r) PROVE Goal
  BY <1>1 DEF Incr, Incremented, Account, Admits
<1>2. ASSUME NEW r \in Req, SetExpiry(r) PROVE Goal
  BY <1>2 DEF SetExpiry
<1>3. ASSUME NEW r \in Req, CheckInMemory(r) PROVE Goal
  BY <1>3 DEF CheckInMemory, Account, Admits
<1>4. ASSUME NEW r \in Req, Crash(r) PROVE Goal
  BY <1>4 DEF Crash
<1>5. ASSUME Reset \/ Restart PROVE Goal
  BY <1>5 DEF Reset, Restart, Drop
<1>6. ASSUME Tick PROVE Goal
  BY <1>6 DEF Tick, Drop
<1>7. CASE UNCHANGED vars
  BY <1>7 DEF vars
<1>8. QED
  BY <1>1, <1>2, <1>3, <1>4, <1>5, <1>6, <1>7 DEF Next

LEMMA LimitInvariance == Spec => []LimitInv
  BY LimitInit, LimitStep, PTL DEF Spec

\* The counter never has a lifetime without existing, nor the reverse.
THEOREM LimiterTyped == Spec => []TypeOK
<1>1. LimitInv => TypeOK
  BY DEF LimitInv
<1>2. QED BY <1>1, LimitInvariance, PTL

\* Both limiters allow at most Limit requests in the life of a counter.
THEOREM ImplementsFixedWindow == Spec => FixedWindowImplemented
<1>1. Init => Counter!WindowInit
  BY DEF Init, Counter!WindowInit
<1>2. LimitInv /\ [Next]_vars => [Counter!Grant \/ Counter!CloseWindow]_granted
  BY LimitStep
<1>3. QED
  BY <1>1, <1>2, LimitInvariance, PTL DEF Spec, FixedWindowImplemented, Counter!WindowSpec
-------------------------------------------------------------------------------
(* Requests over any stretch of a window length.                           *)

\* Without failures an EXPIRE is under way exactly while the counter has no lifetime,
\* and it is that of the request that created the counter.
OneExpiry ==
  /\ \A r \in Req : pc[r] = "expire" => ttl = NoExpiry
  /\ \A q, r \in Req : pc[q] = "expire" /\ pc[r] = "expire" => q = r

\* Requests of the tick are those of the current counter.  A counter with ttl ticks left
\* is at least Window - ttl ticks old, so that in these ticks its requests were the only
\* ones; further back there are those of one other counter.
Overlap ==
  /\ recent[0] <= granted
  /\ count > 0 /\ ttl # NoExpiry => \A i \in 0..(Window - ttl) : i \in Age => recent[i] <= granted
  /\ \A i \in Age : recent[i] <= Limit + granted

StretchInv == LimitInv /\ (mishaps = 0 => OneExpiry /\ Overlap)

LEMMA StretchInit == Init => StretchInv
  BY LimitInit, LimitAssumption
  DEF Init, StretchInv, OneExpiry, Overlap, Age, NoExpiry

LEMMA StretchStep == StretchInv /\ [Next]_vars => StretchInv'
<1> SUFFICES ASSUME StretchInv, [Next]_vars, mishaps' = 0
             PROVE  OneExpiry' /\ Overlap'
  BY LimitStep DEF StretchInv
<1> DEFINE Goal == OneExpiry' /\ Overlap'
<1> USE LimitAssumption DEF TypeOK, Age, NoExpiry
<1>1. LimitInv /\ LimitInv'
  BY LimitStep DEF StretchInv
<1>2. TypeOK /\ TypeOK' /\ Counted /\ Counted'
  BY <1>1 DEF LimitInv
<1>3. /\ granted \in 0..Limit /\ granted' \in 0..Limit
      /\ granted = 0 <=> count = 0
  BY <1>2 DEF Counted
<1>4. mishaps = 0 => OneExpiry /\ Overlap
  BY DEF StretchInv
<1>5. ASSUME NEW r \in Req, Incr(r) PROVE Goal
  <2>1. OneExpiry /\ Overlap
    BY <1>4, <1>5 DEF Incr
  <2>2. OneExpiry'
    BY <1>2, <1>5, <2>1 DEF Incr, OneExpiry
  <2>3. \/ granted' = granted + 1 /\ recent' = [i \in Age |-> recent[i] + 1]
        \/ granted' = granted /\ recent' = recent
    BY <1>5 DEF Incr, Account
  <2>4. ttl' = IF count = 0 THEN NoExpiry ELSE ttl
    BY <1>5 DEF Incr
  <2>5. CASE granted' = granted + 1 /\ recent' = [i \in Age |-> recent[i] + 1]
    <3>1. \A i \in Age : recent[i] \in Nat /\ recent'[i] = recent[i] + 1
      BY <1>2, <2>5
    <3>2. recent'[0] <= granted' /\ \A i \in Age : recent'[i] <= Limit + granted'
      BY <1>2, <1>3, <2>1, <2>5, <3>1 DEF Overlap
    <3>3. count' > 0 /\ ttl' # NoExpiry =>
            \A i \in 0..(Window - ttl') : i \in Age => recent'[i] <= granted'
      BY <1>2, <1>3, <2>1, <2>4, <2>5, <3>1 DEF Overlap
    <3> QED BY <2>2, <3>2, <3>3 DEF Overlap
  <2>6. CASE granted' = granted /\ recent' = recent
    BY <1>2, <1>3, <2>1, <2>2, <2>4, <2>6 DEF Overlap
  <2> QED BY <2>3, <2>5, <2>6
<1>6. ASSUME NEW r \in Req, SetExpiry(r) PROVE Goal
  BY <1>2, <1>4, <1>6 DEF SetExpiry, OneExpiry, Overlap
<1>7. ASSUME NEW r \in Req, CheckInMemory(r) PROVE Goal
  <2>1. OneExpiry /\ Overlap
    BY <1>4, <1>7 DEF CheckInMemory
  <2>2. /\ granted' = granted + 1 /\ recent' = [i \in Age |-> recent[i] + 1]
        /\ pc' = pc
        /\ ttl' = IF count = 0 THEN Window ELSE ttl
    BY <1>2, <1>7 DEF CheckInMemory, Account, Admits
  <2>3. OneExpiry'
    BY <1>2, <2>1, <2>2 DEF OneExpiry
  <2>4. Overlap'
    BY <1>2, <1>3, <2>1, <2>2 DEF Overlap
  <2> QED BY <2>3, <2>4
<1>8. ASSUME NEW r \in Req, Crash(r) PROVE Goal
  BY <1>2, <1>8 DEF Crash
<1>9. ASSUME Reset \/ Restart PROVE Goal
  BY <1>2, <1>9 DEF Reset, Restart
<1>10. ASSUME Tick PROVE Goal
  <2>1. /\ OneExpiry /\ Overlap /\ pc' = pc
        /\ recent' = [i \in Age |-> IF i = 0 THEN 0 ELSE recent[i - 1]]
    BY <1>4, <1>10 DEF Tick
  <2>2. CASE ttl = 1 /\ Drop
    BY <1>2, <1>3, <2>1, <2>2 DEF OneExpiry, Overlap, Drop
  <2>3. CASE ttl > 1 /\ ttl' = ttl - 1 /\ UNCHANGED <<count, granted>>
    BY <1>2, <1>3, <2>1, <2>3 DEF OneExpiry, Overlap
  <2>4. CASE ttl <= 0 /\ UNCHANGED <<count, ttl, granted>>
    BY <1>2, <1>3, <2>1, <2>4 DEF OneExpiry, Overlap
  <2> QED
    BY <1>10, <2>2, <2>3, <2>4 DEF Tick
<1>11. CASE UNCHANGED vars
  BY <1>4, <1>11 DEF vars, OneExpiry, Overlap
<1> QED
  BY <1>5, <1>6, <1>7, <1>8, <1>9, <1>10, <1>11 DEF Next

\* Over any stretch of Window ticks both limiters allow at most twice the limit, as long as
\* no counter is reset and no EXPIRE is lost, however the checks interleave.
THEOREM StretchBounded == Spec => []AtMostTwiceTheLimit
<1>1. StretchInv => AtMostTwiceTheLimit
  BY LimitAssumption
  DEF StretchInv, LimitInv, TypeOK, Counted, Overlap, AtMostTwiceTheLimit, Age
<1> QED
  BY <1>1, StretchInit, StretchStep, PTL DEF Spec
===============================================================================
