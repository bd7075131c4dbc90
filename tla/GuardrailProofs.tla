-------------------------- MODULE GuardrailProofs --------------------------
(***************************************************************************)
(* Lemmas about the functions of RateLimiter and CircuitBreaker, for every *)
(* rate, threshold and window.                                             *)
(***************************************************************************)
EXTENDS RateLimiter, CircuitBreaker, SequenceTheorems, WellFoundedInduction,
        TLAPS

-----------------------------------------------------------------------------
(* Arithmetic *)

LEMMA ProductSign ==
  ASSUME NEW a \in Nat, NEW b \in Int
  PROVE  /\ a * b \in Int /\ b * a = a * b
         /\ b >= 0 => a * b >= 0
         /\ a # 0 /\ b < 0 => a * b < 0
OBVIOUS

LEMMA Distributes ==
  ASSUME NEW a \in Int, NEW b \in Int, NEW c \in Int
  PROVE  (a + b) * c = a * c + b * c
OBVIOUS

-----------------------------------------------------------------------------
(* The token bucket *)

Sound(lim, now) ==
  /\ lim \in Limiter
  /\ lim.tokens <= lim.rate * Minute
  /\ lim.rate >= 0 => lim.tokens >= 0
  /\ lim.last_refill <= now

\* What a bucket holds is between nothing and the full bucket.
LEMMA TokensBounds ==
  ASSUME NEW lim, NEW now \in Nat, Sound(lim, now)
  PROVE  /\ Tokens(lim, now) \in Int
         /\ Tokens(lim, now) <= lim.rate * Minute
         /\ lim.rate >= 0 => Tokens(lim, now) >= 0
<1> DEFINE gain == (now - lim.last_refill) * lim.rate
           full == lim.rate * Minute
<1>1. lim.rate \in Int /\ lim.tokens \in Int /\ now - lim.last_refill \in Nat
  BY DEF Sound, Limiter
<1>2. gain \in Int /\ (lim.rate >= 0 => gain >= 0)
  BY <1>1, ProductSign
<1>3. full \in Int /\ (lim.rate >= 0 => full >= 0)
  BY <1>1, ProductSign, MinuteAssumption
<1>4. Tokens(lim, now) = IF lim.tokens + gain < full THEN lim.tokens + gain
                                                     ELSE full
  BY DEF Tokens
<1> HIDE DEF gain, full
<1>5. lim.rate >= 0 => lim.tokens >= 0
  BY DEF Sound
<1>6. /\ Tokens(lim, now) \in Int
      /\ Tokens(lim, now) <= full
      /\ lim.rate >= 0 => Tokens(lim, now) >= 0
  BY <1>1, <1>2, <1>3, <1>4, <1>5
<1> QED
  BY <1>6 DEF full

\* A second adds the rate, or fills the bucket.
LEMMA TokensGrow ==
  ASSUME NEW lim, NEW now \in Nat, NEW later \in Nat, later = now + 1,
         Sound(lim, now), lim.rate >= 0
  PROVE  /\ Tokens(lim, later) <= Tokens(lim, now) + lim.rate
         /\ \/ Tokens(lim, later) = Tokens(lim, now) + lim.rate
            \/ Tokens(lim, later) = lim.rate * Minute
<1> DEFINE gain == (now - lim.last_refill) * lim.rate
           more == (later - lim.last_refill) * lim.rate
           full == lim.rate * Minute
<1>1. lim.rate \in Nat /\ lim.tokens \in Int /\ now - lim.last_refill \in Int
  BY DEF Sound, Limiter
<1>2. later - lim.last_refill = (now - lim.last_refill) + 1
  BY DEF Sound, Limiter
<1>3. more = gain + 1 * lim.rate
  BY <1>1, <1>2, Distributes
<1>4. gain \in Int /\ full \in Int
  BY <1>1, MinuteAssumption
<1>5. Tokens(lim, now) = IF lim.tokens + gain < full THEN lim.tokens + gain
                                                     ELSE full
  BY DEF Tokens
<1>6. Tokens(lim, later) = IF lim.tokens + more < full THEN lim.tokens + more
                                                       ELSE full
  BY DEF Tokens
<1> HIDE DEF gain, more, full
<1>7. /\ Tokens(lim, later) <= Tokens(lim, now) + lim.rate
      /\ \/ Tokens(lim, later) = Tokens(lim, now) + lim.rate
         \/ Tokens(lim, later) = full
  BY <1>1, <1>3, <1>4, <1>5, <1>6
<1> QED
  BY <1>7 DEF full

\* allow() keeps a bucket sound, and what it grants it takes away.
LEMMA AllowEffect ==
  ASSUME NEW lim, NEW now \in Nat, Sound(lim, now)
  PROVE  LET after == AfterAllow(lim, now)
         IN  /\ Sound(after, now)
             /\ after.rate = lim.rate /\ after.numeric = lim.numeric
             /\ Tokens(after, now) =
                  Tokens(lim, now) - (IF Allows(lim, now) THEN Minute ELSE 0)
<1> DEFINE after == AfterAllow(lim, now)
           taken == IF Allows(lim, now) THEN Minute ELSE 0
           full  == lim.rate * Minute
<1>1. /\ Tokens(lim, now) \in Int
      /\ Tokens(lim, now) <= full
      /\ lim.rate >= 0 => Tokens(lim, now) >= 0
  BY TokensBounds
<1>2. taken \in Nat /\ full \in Int
  BY MinuteAssumption DEF Sound, Limiter
<1>3. /\ after.rate = lim.rate /\ after.numeric = lim.numeric
      /\ after.tokens = Tokens(lim, now) - taken
      /\ after.last_refill = now
      /\ after \in Limiter
  <2>1. after = [lim EXCEPT !.tokens = Tokens(lim, now) - taken,
                            !.last_refill = now]
    BY DEF AfterAllow
  <2>2. lim \in Limiter /\ Tokens(lim, now) - taken \in Int
    BY <1>1, <1>2 DEF Sound
  <2> HIDE DEF after, taken
  <2> QED
    BY <2>1, <2>2 DEF Limiter
<1>4. Allows(lim, now) => Tokens(lim, now) >= Minute
  BY DEF Allows
<1>5. Sound(after, now)
  <2>1. after.tokens <= full
    BY <1>1, <1>2, <1>3
  <2>2. lim.rate >= 0 => after.tokens >= 0
    BY <1>1, <1>3, <1>4, MinuteAssumption
  <2> QED
    BY <1>3, <2>1, <2>2 DEF Sound
<1>6. Tokens(after, now) = after.tokens
  <2>1. (now - after.last_refill) * after.rate = 0
    <3>1. after.rate \in Int /\ now - after.last_refill = 0
      BY <1>3 DEF Limiter
    <3> QED
      BY <3>1
  <2>2. Tokens(after, now) = IF after.tokens + 0 < after.rate * Minute
                             THEN after.tokens + 0 ELSE after.rate * Minute
    BY <2>1 DEF Tokens
  <2>3. after.rate * Minute = full /\ after.tokens \in Int /\ after.tokens <= full
    BY <1>3, <1>5 DEF Limiter, Sound
  <2> HIDE DEF after, full
  <2> QED
    BY <2>2, <2>3, <1>2
<1> HIDE DEF after
<1> QED
  BY <1>3, <1>5, <1>6 DEF after

\* A bucket in debt grants nothing.
LEMMA NothingOfDebt ==
  ASSUME NEW lim, NEW now \in Nat, Sound(lim, now), lim.rate < 0
  PROVE  ~Allows(lim, now)
<1>1. lim.rate * Minute < 0
  BY ProductSign, MinuteAssumption DEF Sound, Limiter
<1>2. lim.rate * Minute \in Int
  BY MinuteAssumption DEF Sound, Limiter
<1> QED
  BY <1>1, <1>2, TokensBounds, MinuteAssumption DEF Allows

-----------------------------------------------------------------------------
(* The circuit breaker *)

\* The least index of a set of indices.
LEMMA LeastIndex ==
  ASSUME NEW S \in SUBSET Nat, S # {}
  PROVE  \E x \in S : \A y \in S : x <= y
<1>1. PICK x \in S : \A y \in S : ~(<<y, x>> \in OpToRel(<, Nat))
  BY NatLessThanWellFounded, WFMin, Zenon
<1>2. ASSUME NEW y \in S, y < x PROVE FALSE
  <2>1. <<y, x>> \in Nat \X Nat
    OBVIOUS
  <2>2. <<y, x>> \in OpToRel(<, Nat)
    BY <1>2, <2>1 DEF OpToRel
  <2> QED
    BY <1>1, <2>2
<1>3. \A y \in S : x <= y
  BY <1>2
<1> QED
  BY <1>3

\* What is in the window is a suffix; what falls out is older than that.
LEMMA WindowIsSuffix ==
  ASSUME NEW f \in Seq(Nat), NEW now \in Nat
  PROVE  \E d \in 0 .. Len(f) :
           /\ InWindow(f, now) \in Seq(Nat)
           /\ Len(InWindow(f, now)) = Len(f) - d
           /\ \A i \in 1 .. Len(f) - d : InWindow(f, now)[i] = f[d + i]
           /\ \A i \in 1 .. d : f[i] < now - WindowSize
<1> DEFINE recent == {i \in DOMAIN f : f[i] >= now - WindowSize}
           first  == CHOOSE i \in recent : \A j \in recent : i <= j
<1>1. DOMAIN f = 1 .. Len(f) /\ Len(f) \in Nat /\ \A i \in 1 .. Len(f) : f[i] \in Nat
  OBVIOUS
<1>2. CASE recent = {}
  <2>1. InWindow(f, now) = <<>>
    BY <1>2 DEF InWindow
  <2>2. \A i \in 1 .. Len(f) : f[i] < now - WindowSize
    BY <1>1, <1>2, BreakerAssumption
  <2>3. /\ Len(f) \in 0 .. Len(f)
        /\ InWindow(f, now) \in Seq(Nat)
        /\ Len(InWindow(f, now)) = Len(f) - Len(f)
        /\ 1 .. Len(f) - Len(f) = {}
    BY <1>1, <2>1
  <2> QED
    BY <2>2, <2>3
<1>3. CASE recent # {}
  <2>1. recent \in SUBSET Nat
    BY <1>1
  <2>2. \E i \in recent : \A j \in recent : i <= j
    <3> HIDE DEF recent
    <3> QED
      BY <1>3, <2>1, LeastIndex
  <2>3. first \in recent /\ \A j \in recent : first <= j
    BY <2>2
  <2>4. InWindow(f, now) = SubSeq(f, first, Len(f))
    BY <1>3 DEF InWindow
  <2>5. first \in 1 .. Len(f) /\ \A j \in recent : first <= j
    BY <1>1, <2>3
  <2> HIDE DEF first
  <2>6. /\ SubSeq(f, first, Len(f)) \in Seq(Nat)
        /\ Len(SubSeq(f, first, Len(f))) = Len(f) - first + 1
        /\ \A i \in 1 .. Len(f) - first + 1 :
              SubSeq(f, first, Len(f))[i] = f[first + i - 1]
    BY <1>1, <2>5, SubSeqProperties
  <2>7. \A i \in 1 .. first - 1 : f[i] < now - WindowSize
    BY <1>1, <2>5, BreakerAssumption
  <2>8. first - 1 \in 0 .. Len(f)
    BY <1>1, <2>5
  <2>9. /\ InWindow(f, now) \in Seq(Nat)
        /\ Len(InWindow(f, now)) = Len(f) - (first - 1)
        /\ \A i \in 1 .. Len(f) - (first - 1) : InWindow(f, now)[i] = f[(first - 1) + i]
        /\ \A i \in 1 .. first - 1 : f[i] < now - WindowSize
    BY <1>1, <2>4, <2>5, <2>6, <2>7
  <2> QED
    BY <2>8, <2>9
<1> QED
  BY <1>2, <1>3

\* The last n failures are no older than t.
LateFailures(f, n, t) ==
  n <= Len(f) /\ \A i \in Len(f) - n + 1 .. Len(f) : f[i] >= t

LEMMA FewerLateFailures ==
  ASSUME NEW f \in Seq(Nat), NEW n \in Nat, NEW t \in Nat,
         LateFailures(f, n + 1, t)
  PROVE  LateFailures(f, n, t)
BY DEF LateFailures

\* record_failure keeps the types, never leaves "open", opens the circuit
\* when enough failures are left in the window, and drops none of the failures
\* since a time that is in the window.
LEMMA FailureRecorded ==
  ASSUME NEW b \in Breaker, NEW now \in Nat, b.opened_at <= now
  PROVE  LET r == RecordFailure(b, now)
         IN  /\ r \in Breaker
             /\ b.opened_at <= r.opened_at /\ r.opened_at <= now
             /\ b.state = "open" => r.state = "open"
             /\ r.state = "closed" => Len(r.failures) < FailureThreshold
             /\ Len(r.failures) >= FailureThreshold =>
                  r.state = "open" /\ r.opened_at = now
             /\ \A n \in Nat, t \in Nat :
                  /\ LateFailures(b.failures, n, t)
                  /\ now - WindowSize <= t /\ t <= now
                  => LateFailures(r.failures, n + 1, t)
<1> DEFINE f == Append(b.failures, now)
           w == InWindow(f, now)
           r == RecordFailure(b, now)
<1>1. b.failures \in Seq(Nat) /\ b.opened_at \in Nat /\ b.state \in CircuitState
  BY DEF Breaker
<1>2. /\ f \in Seq(Nat) /\ Len(f) = Len(b.failures) + 1
      /\ \A i \in 1 .. Len(b.failures) : f[i] = b.failures[i]
      /\ f[Len(b.failures) + 1] = now
  BY <1>1, AppendProperties
<1>3. PICK d \in 0 .. Len(f) :
        /\ w \in Seq(Nat)
        /\ Len(w) = Len(f) - d
        /\ \A i \in 1 .. Len(f) - d : w[i] = f[d + i]
        /\ \A i \in 1 .. d : f[i] < now - WindowSize
  BY <1>2, WindowIsSuffix
<1>4. r = IF Len(w) >= FailureThreshold
          THEN [state |-> "open", failures |-> w, opened_at |-> now]
          ELSE [b EXCEPT !.failures = w]
  BY DEF RecordFailure
<1>5. /\ r \in Breaker
      /\ r.failures = w
      /\ Len(w) >= FailureThreshold => r.state = "open" /\ r.opened_at = now
      /\ ~(Len(w) >= FailureThreshold) =>
           r.state = b.state /\ r.opened_at = b.opened_at
  <2> HIDE DEF w, r
  <2> QED
    BY <1>3, <1>4 DEF Breaker, CircuitState
<1>6. /\ b.opened_at <= r.opened_at /\ r.opened_at <= now
      /\ b.state = "open" => r.state = "open"
      /\ r.state = "closed" => Len(r.failures) < FailureThreshold
  <2> HIDE DEF w, r
  <2>1. Len(w) \in Nat
    BY <1>3
  <2> QED
    BY <1>1, <1>5, <2>1, BreakerAssumption
<1>7. ASSUME NEW n \in Nat, NEW t \in Nat, LateFailures(b.failures, n, t),
             now - WindowSize <= t, t <= now
      PROVE  LateFailures(r.failures, n + 1, t)
  <2> HIDE DEF f, w, r
  <2>1. Len(b.failures) \in Nat /\ \A i \in 1 .. Len(b.failures) : b.failures[i] \in Nat
    BY <1>1
  <2>2. n <= Len(b.failures)
    BY <1>7 DEF LateFailures
  <2>2a. Len(f) = Len(b.failures) + 1 /\ Len(f) \in Nat /\ d \in 0 .. Len(f)
    BY <1>2, <1>3, <2>1
  <2>3. \A i \in Len(f) - n .. Len(f) : f[i] >= t
    <3> SUFFICES ASSUME NEW i \in Len(f) - n .. Len(f) PROVE f[i] >= t
      OBVIOUS
    <3>1. CASE i = Len(f)
      BY <1>2, <1>7, <3>1
    <3>2. CASE i # Len(f)
      <4>1. i \in Len(b.failures) - n + 1 .. Len(b.failures)
        BY <1>2, <2>1, <2>2, <3>2
      <4>2. i \in 1 .. Len(b.failures)
        BY <2>1, <2>2, <4>1
      <4> QED
        BY <1>2, <1>7, <4>1, <4>2 DEF LateFailures
    <3> QED
      BY <3>1, <3>2
  <2>4. d <= Len(f) - n - 1
    <3>1. SUFFICES ASSUME d >= Len(f) - n PROVE FALSE
      BY <2>2a
    <3>2. d \in 1 .. d /\ d \in Len(f) - n .. Len(f)
      BY <2>2a, <2>2, <3>1
    <3>3. f[d] < now - WindowSize /\ f[d] >= t /\ f[d] \in Nat
      BY <1>2, <1>3, <2>3, <3>2
    <3> QED
      BY <1>7, <3>3, BreakerAssumption
  <2>5. n + 1 <= Len(w)
    <3>1. Len(w) = Len(f) - d
      BY <1>3
    <3> QED
      BY <2>2a, <2>4, <3>1
  <2>6. ASSUME NEW i \in Len(w) - (n + 1) + 1 .. Len(w) PROVE w[i] >= t
    <3>1. i \in 1 .. Len(f) - d /\ d + i \in Len(f) - n .. Len(f)
      <4>1. Len(w) = Len(f) - d
        BY <1>3
      <4> QED
        BY <2>2a, <2>4, <4>1
    <3> QED
      BY <1>3, <2>3, <3>1
  <2> QED
    BY <1>5, <2>5, <2>6 DEF LateFailures
<1> QED
  BY <1>5, <1>6, <1>7

\* Asking is_open() keeps the types, the failures and the time of the opening.
LEMMA OpennessAsked ==
  ASSUME NEW b \in Breaker, NEW now \in Nat
  PROVE  LET a == AfterIsOpen(b, now)
         IN  /\ a \in Breaker
             /\ a.failures = b.failures /\ a.opened_at = b.opened_at
             /\ a.state = "closed" <=> b.state = "closed"
             /\ IsOpen(b, now) => a = b
BY DEF AfterIsOpen, Breaker, CircuitState, IsOpen

=============================================================================
