---------------------------- MODULE MCRateLimiter ----------------------------
(***************************************************************************)
(* An instance of the rate limiter for TLC, with a wall clock that is also *)
(* set back.                                                               *)
(***************************************************************************)
EXTENDS RateLimiter

Steps == {1, -2}
=============================================================================
