----------------------------- MODULE TokenBucket -----------------------------
(***************************************************************************)
(* The arithmetic of one bucket of src/ratelimit.rs: what it holds after   *)
(* some seconds, and what taking a token from it answers.                  *)
(*                                                                         *)
(* Tokens are counted in sixtieths, which makes the refill of per_min / 60 *)
(* tokens a second the integer PerMin; f64 rounding is left out.           *)
(***************************************************************************)
EXTENDS Integers

CONSTANTS
    PerMin,         \* per_min of RateLimiter::new
    Burst,          \* burst of RateLimiter::new
    IDLE_EVICT      \* seconds

ASSUME RateAssumption ==
    PerMin \in Nat /\ Burst \in Nat /\ IDLE_EVICT \in Nat

Token == 60

Capacity == Token * (IF Burst > 1 THEN Burst ELSE 1)

Enabled == PerMin > 0

\* What d seconds of refill are worth.
Earned(d) == d * PerMin

\* Mutant: the refill is not clamped to the burst.
Refilled_Unclamped(tokens, elapsed) == tokens + Earned(elapsed)

\* Mutant: only whole tokens are added, and the rest of the time is lost.
Refilled_WholeTokens(tokens, elapsed) ==
    LET t == tokens + Token * (Earned(elapsed) \div Token)
    IN  IF t > Capacity THEN Capacity ELSE t

\* The refill of a bucket left alone for elapsed seconds.
Refilled(tokens, elapsed) ==
    LET t == tokens + Earned(elapsed)
    IN  IF t > Capacity THEN Capacity ELSE t

\* Mutant: a token is taken whether or not there is one.
Take_Overdraw(have) == [allowed |-> TRUE, tokens |-> have - Token]

\* One token, if there is one.
Take(have) ==
    [allowed |-> have >= Token,
     tokens  |-> IF have >= Token THEN have - Token ELSE have]

\* Dropping an idle bucket is sound when it would have refilled meanwhile.
EvictionIsSafe == Capacity <= Earned(IDLE_EVICT)
=============================================================================
