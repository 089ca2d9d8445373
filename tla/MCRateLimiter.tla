---------------------------- MODULE MCRateLimiter ----------------------------
(***************************************************************************)
(* Small instances of RateLimiter.                                         *)
(***************************************************************************)
EXTENDS RateLimiterProofs

CONSTANTS q1, q2, q3

ThreeRequests == {q1, q2, q3}
===============================================================================
