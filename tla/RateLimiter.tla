---------------------------- MODULE RateLimiter ----------------------------
(***************************************************************************)
(* RateLimiter of src/guardrails.py, a token bucket, as a record and the   *)
(* functions on it.  The code keeps tokens in floating point and adds      *)
(* rate/60 of them per second; here a token is Minute units (60 in the     *)
(* code) and a second adds `rate` units, so that the arithmetic is exact.  *)
(* The rounding of floating point is not modelled.                         *)
(***************************************************************************)
EXTENDS Integers

CONSTANT Minute  \* seconds in a minute; the units a token is worth

ASSUME MinuteAssumption == Minute \in Nat \ {0}

Limiter == [rate: Int, numeric: BOOLEAN, tokens: Int, last_refill: Nat]

\* RateLimiter(rate_per_minute): a full bucket.  float() also reads a rate
\* that is a string, with which allow() cannot calculate.
NewLimiter(rate, numeric, now) ==
  [rate |-> rate, numeric |-> numeric, tokens |-> rate * Minute,
   last_refill |-> now]

\* The refill without the ceiling of min().
TokensUncapped(lim, now) == lim.tokens + (now - lim.last_refill) * lim.rate

\* The bucket at time `now`, never above rate_per_minute.
Tokens(lim, now) ==
  LET refilled == lim.tokens + (now - lim.last_refill) * lim.rate
  IN  IF refilled < lim.rate * Minute THEN refilled ELSE lim.rate * Minute

Allows(lim, now) == lim.numeric /\ Tokens(lim, now) >= Minute

\* rate_per_minute / 60 of a string is a TypeError.
AllowRaises(lim) == ~lim.numeric

\* allow(): refill, then take one token if there is one.
AfterAllow(lim, now) ==
  [lim EXCEPT
     !.tokens = Tokens(lim, now) - (IF Allows(lim, now) THEN Minute ELSE 0),
     !.last_refill = now]

=============================================================================
