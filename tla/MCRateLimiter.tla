---------------------------- MODULE MCRateLimiter ----------------------------
(***************************************************************************)
(* Instances of RateLimiter.                                               *)
(***************************************************************************)
EXTENDS RateLimiter

CONSTANTS i0, i1, i2, t1, t2

=============================================================================
