------------------------------ MODULE FixedWindow ------------------------------
(***************************************************************************)
(* What a rate limiter promises for one key: in each window at most Limit  *)
(* requests are allowed (RateLimitConfig.maxRequests, rate-limiter.ts).    *)
(***************************************************************************)
EXTENDS Naturals

CONSTANT Limit

VARIABLE granted   \* requests allowed in the current window

WindowInit == granted = 0

Grant ==
  /\ granted < Limit
  /\ granted' = granted + 1

CloseWindow == granted' = 0

WindowSpec == WindowInit /\ [][Grant \/ CloseWindow]_granted
================================================================================
