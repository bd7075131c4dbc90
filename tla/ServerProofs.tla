---------------------------- MODULE ServerProofs ----------------------------
(***************************************************************************)
(* Proofs, for any configurations, rates, thresholds, windows and numbers  *)
(* of audit failures, of the safety of Server: types, the rate of every    *)
(* limiter in every interval, the tokens nobody loses, and the bound on    *)
(* bursts of failures.                                                     *)
(***************************************************************************)
EXTENDS Server, GuardrailProofs

\* The limiters are those of the configuration.
Configured ==
  \A k \in Kinds : /\ limiters[k].rate = Guardrails[source][k].rate
                   /\ limiters[k].numeric = Guardrails[source][k].numeric

\* What a limiter granted since watch.since and what is left in it come from
\* a full bucket and the refills since; one that cannot calculate, or whose
\* rate is negative, grants nothing.
GrantsAccounted ==
  LET lim == limiters[watch.kind]
  IN  /\ watch.since <= clock
      /\ lim.numeric /\ lim.rate >= 0 =>
           watch.granted * Minute + Tokens(lim, clock)
             <= (Minute + (clock - watch.since)) * lim.rate
      /\ ~(lim.numeric /\ lim.rate >= 0) => watch.granted = 0

\* What a limiter granted since watch.since and what is left in it are at
\* least the refills since, up to a full bucket.
RefillsAccounted ==
  LET lim == limiters[watch.kind]
  IN  lim.numeric /\ lim.rate >= 0 =>
        Span * lim.rate <= watch.granted * Minute + Tokens(lim, clock)

\* Within a window, the reads that failed in a row are the last failures of
\* the breaker, and FailureThreshold of them have opened the circuit, which
\* stays open and lets no read begin.
BurstRecorded ==
  RecoveryTimeout >= WindowSize /\ clock - watch.since < WindowSize =>
    /\ LateFailures(breaker.failures, watch.failed, watch.since)
    /\ watch.failed <= FailureThreshold
    /\ watch.failed = FailureThreshold =>
         /\ breaker.state = "open" /\ breaker.opened_at >= watch.since
         /\ serving # "reading"

\* TypeOK in two parts, of which each disturbs few variables.
LimitersOK ==
  /\ clock \in 0 .. MaxClock
  /\ source \in Startable
  /\ limiters \in [Kinds -> Limiter]
  /\ \A k \in Kinds : Sound(limiters[k], clock)
  /\ watch \in [kind: Kinds, since: 0 .. MaxClock, granted: Nat, failed: Nat]

BreakerSound(b) ==
  /\ b \in Breaker
  /\ b.opened_at <= clock
  /\ b.state = "closed" => Len(b.failures) < FailureThreshold

BreakerOK ==
  /\ BreakerSound(breaker)
  /\ serving \in {"idle", "reading", "dead"}
  /\ faults \in 0 .. MaxFaults

ServerInv ==
  /\ LimitersOK
  /\ BreakerOK
  /\ Configured
  /\ GrantsAccounted
  /\ RefillsAccounted
  /\ BurstRecorded

LEMMA TypesInParts == TypeOK <=> LimitersOK /\ BreakerOK
BY DEF TypeOK, LimitersOK, BreakerOK, BreakerSound, Sound

-----------------------------------------------------------------------------
(* The configuration *)

\* The value a level gives is a value, and the rates are read by precedence.
LEMMA LoadedRate ==
  ASSUME NEW s \in Startable, NEW k \in Kinds
  PROVE  LET v   == Load(Found[s])[RateKey[k]]
             key == RateKey[k]
         IN  /\ v \in Value /\ v.kind \in {"number", "digits"}
             /\ v = IF key \in DOMAIN Found[s].env THEN Number(Found[s].env[key].n)
                    ELSE IF key \in DOMAIN Found[s].repo THEN Found[s].repo[key]
                    ELSE IF key \in DOMAIN Found[s].master THEN Found[s].master[key]
                    ELSE Defaults[key]
<1> DEFINE key == RateKey[k]
           f   == Found[s]
<1>1. key \in RateKeys /\ key \in Keys
  BY DEF RateKey, Kinds, RateKeys, Keys
<1>2. f \in {Found[x] : x \in DOMAIN Found} /\ IsSource(f) /\ Starts(f)
  BY ServerAssumption DEF Startable
<1> HIDE DEF key, f
<1>3. /\ IsLevel(f.master) /\ IsLevel(f.repo) /\ IsLevel(f.env)
      /\ Load(f)[key].kind \in {"number", "digits"}
  BY <1>1, <1>2 DEF IsSource, Starts, Loads
<1>4. Load(f)[key] = IF key \in DOMAIN f.env THEN Number(f.env[key].n)
                     ELSE IF key \in DOMAIN f.repo THEN f.repo[key]
                     ELSE IF key \in DOMAIN f.master THEN f.master[key]
                     ELSE Defaults[key]
  BY <1>1 DEF Load, Override, Converted
<1>5. Defaults[key] \in Value
  BY <1>1, ServerAssumption DEF Defaults, RateKeys, Number, Value
<1>6. Load(f)[key] \in Value
  <2>1. key \in DOMAIN f.env => Number(f.env[key].n) \in Value
    BY <1>3 DEF IsLevel, Number, Value
  <2>2. key \in DOMAIN f.repo => f.repo[key] \in Value
    BY <1>3 DEF IsLevel
  <2>3. key \in DOMAIN f.master => f.master[key] \in Value
    BY <1>3 DEF IsLevel
  <2> QED
    BY <1>4, <1>5, <2>1, <2>2, <2>3
<1> QED
  BY <1>3, <1>4, <1>6 DEF key, f

\* New limiters are full buckets at the rates of the configuration.
LEMMA LimitersStart ==
  ASSUME NEW s \in Startable, NEW now \in Nat
  PROVE  /\ NewLimiters(s, now) \in [Kinds -> Limiter]
         /\ \A k \in Kinds :
              /\ Sound(NewLimiters(s, now)[k], now)
              /\ NewLimiters(s, now)[k].rate = Guardrails[s][k].rate
              /\ NewLimiters(s, now)[k].numeric = Guardrails[s][k].numeric
<1>1. ASSUME NEW k \in Kinds
      PROVE  LET lim == NewLimiters(s, now)[k]
             IN  /\ lim \in Limiter /\ Sound(lim, now)
                 /\ lim.rate = Guardrails[s][k].rate
                 /\ lim.numeric = Guardrails[s][k].numeric
  <2> DEFINE v == Load(Found[s])[RateKey[k]]
             r == IF k = "dangerous" THEN v.n * Minute ELSE v.n
             g == Guardrails[s][k]
             lim == NewLimiters(s, now)[k]
  <2>1. v.n \in Int
    BY LoadedRate DEF Value
  <2>2. r \in Int
    BY <2>1, MinuteAssumption
  <2>3. g = [rate |-> r, numeric |-> (v.kind = "number"), tokens |-> r * Minute,
             last_refill |-> 0]
    BY DEF Guardrails, NewLimiter
  <2>4. lim = [g EXCEPT !.last_refill = now]
    BY DEF NewLimiters
  <2> HIDE DEF v, r, g, lim
  <2>5. lim = [rate |-> r, numeric |-> (v.kind = "number"), tokens |-> r * Minute,
               last_refill |-> now]
    BY <2>3, <2>4
  <2>6. r * Minute \in Int /\ (r >= 0 => r * Minute >= 0)
    BY <2>2, MinuteAssumption, ProductSign
  <2>7. lim \in Limiter /\ Sound(lim, now)
    BY <2>2, <2>5, <2>6 DEF Limiter, Sound
  <2>8. lim.rate = g.rate /\ lim.numeric = g.numeric
    BY <2>3, <2>5
  <2> QED
    BY <2>7, <2>8 DEF lim, g
<1>2. NewLimiters(s, now) = [k \in Kinds |-> NewLimiters(s, now)[k]]
  BY DEF NewLimiters
<1> QED
  BY <1>1, <1>2

\* The rate in force is that of the limiter, or nothing.
LEMMA RateOfGuardrails ==
  ASSUME source \in Startable, NEW k \in Kinds
  PROVE  LET g == Guardrails[source][k]
         IN  /\ g.rate \in Int
             /\ RateInForce(k) = IF g.numeric /\ g.rate >= 0 THEN g.rate ELSE 0
             /\ k # "dangerous" => ConfiguredRate(k) = RateInForce(k)
<1> DEFINE v == Load(Found[source])[RateKey[k]]
           g == Guardrails[source][k]
           factor == IF k = "dangerous" THEN Minute ELSE 1
<1>1. v.n \in Int /\ factor \in Nat \ {0}
  BY LoadedRate, MinuteAssumption DEF Value
<1>2. /\ RateInForce(k) = IF v.kind # "number" \/ v.n < 0 THEN 0 ELSE v.n * factor
      /\ k # "dangerous" => ConfiguredRate(k) = RateInForce(k)
  <2>1. ConfiguredRate(k) = IF v.kind # "number" \/ v.n < 0 THEN 0 ELSE v.n
    BY LoadedRate DEF ConfiguredRate
  <2>2. RateInForce(k) = ConfiguredRate(k) * factor
    BY DEF RateInForce
  <2> HIDE DEF v
  <2>3. 0 * factor = 0 /\ v.n * 1 = v.n
    BY <1>1
  <2> QED
    BY <1>1, <2>1, <2>2, <2>3
<1>3. /\ g.numeric = (v.kind = "number")
      /\ g.rate = IF k = "dangerous" THEN v.n * Minute ELSE v.n
  BY DEF Guardrails, NewLimiter
<1>4. g.rate = v.n * factor
  BY <1>1, <1>3
<1> HIDE DEF v, g, factor
<1>5. /\ v.n * factor \in Int
      /\ v.n >= 0 => v.n * factor >= 0
      /\ v.n < 0 => v.n * factor < 0
  BY <1>1, ProductSign
<1>6. RateInForce(k) = IF g.numeric /\ g.rate >= 0 THEN g.rate ELSE 0
  <2>1. CASE v.kind = "number" /\ v.n >= 0
    <3>1. g.numeric
      BY <1>3, <2>1, Zenon
    <3>2. RateInForce(k) = g.rate /\ g.rate >= 0
      BY <1>1, <1>2, <1>4, <1>5, <2>1
    <3> QED
      BY <3>1, <3>2
  <2>2. CASE v.kind = "number" /\ v.n < 0
    BY <1>1, <1>2, <1>4, <1>5, <2>2
  <2>3. CASE v.kind # "number"
    <3>1. ~g.numeric
      BY <1>3, <2>3, Zenon
    <3> QED
      BY <1>2, <2>3, <3>1
  <2> QED
    BY <1>1, <2>1, <2>2, <2>3
<1> QED
  BY <1>2, <1>4, <1>5, <1>6 DEF g

-----------------------------------------------------------------------------
(* Limiters: types, rates and grants *)

GrantsInv == LimitersOK /\ Configured /\ GrantsAccounted

\* With new limiters, or a new observation, the account is opened anew.
LEMMA AccountOpened ==
  ASSUME NEW lim, NEW now \in Nat, Sound(lim, now)
  PROVE  0 * Minute + Tokens(lim, now) <= (Minute + (now - now)) * lim.rate
<1>1. 0 * Minute = 0 /\ Minute + (now - now) = Minute
  BY MinuteAssumption
<1>2. lim.rate * Minute = Minute * lim.rate /\ Minute * lim.rate \in Int
  BY ProductSign, MinuteAssumption DEF Sound, Limiter
<1>3. Tokens(lim, now) <= lim.rate * Minute /\ Tokens(lim, now) \in Int
  BY TokensBounds
<1> QED
  BY <1>1, <1>2, <1>3

LEMMA GrantsStart ==
  ASSUME Init PROVE GrantsInv
<1>1. /\ clock = 0 /\ clock \in 0 .. MaxClock /\ source \in Startable
      /\ limiters = NewLimiters(source, clock)
      /\ watch \in [kind: Kinds, since: 0 .. MaxClock, granted: Nat, failed: Nat]
      /\ watch.since = clock /\ watch.granted = 0 /\ watch.kind \in Kinds
  BY ServerAssumption DEF Init, Watching
<1>2. LimitersOK /\ Configured
  BY <1>1, LimitersStart DEF LimitersOK, Configured
<1>3. GrantsAccounted
  <2>1. 0 * Minute + Tokens(limiters[watch.kind], clock)
          <= (Minute + (clock - clock)) * limiters[watch.kind].rate
    BY <1>1, <1>2, AccountOpened DEF LimitersOK
  <2> QED
    BY <1>1, <2>1 DEF GrantsAccounted
<1> QED
  BY <1>2, <1>3 DEF GrantsInv

\* Steps that leave the limiters, the clock and what was granted alone.
LEMMA GrantsKept ==
  ASSUME GrantsInv, UNCHANGED <<clock, limiters, source>>,
         \/ UNCHANGED watch
         \/ \E n \in Nat : watch' = [watch EXCEPT !.failed = n]
  PROVE  GrantsInv'
<1>1. /\ watch' \in [kind: Kinds, since: 0 .. MaxClock, granted: Nat, failed: Nat]
      /\ watch'.kind = watch.kind /\ watch'.since = watch.since
      /\ watch'.granted = watch.granted
  BY DEF GrantsInv, LimitersOK
<1> QED
  BY <1>1 DEF GrantsInv, LimitersOK, Configured, GrantsAccounted, Tokens, Sound

\* A check takes out of the bucket what it grants.
LEMMA CheckStep ==
  ASSUME GrantsInv, NEW k \in Kinds, Check(k), UNCHANGED <<clock, source>>
  PROVE  GrantsInv'
<1> USE DEF GrantsInv
<1>1. CASE IsOpen(breaker, clock)
  <2>1. UNCHANGED <<limiters, watch>>
    BY <1>1 DEF Check, Admits
  <2> QED
    BY <2>1, GrantsKept
<1>2. CASE ~IsOpen(breaker, clock)
  <2> DEFINE lim == limiters[k]
             after == AfterAllow(lim, clock)
  <2>1. /\ clock \in Nat /\ Sound(lim, clock)
        /\ limiters \in [Kinds -> Limiter]
    BY ServerAssumption DEF LimitersOK
  <2>2. limiters' = [limiters EXCEPT ![k] = after]
    BY <1>2 DEF Check
  <2>3. /\ Sound(after, clock)
        /\ after.rate = lim.rate /\ after.numeric = lim.numeric
        /\ Tokens(after, clock) <= Tokens(lim, clock)
        /\ Allows(lim, clock) => Tokens(after, clock) + Minute <= Tokens(lim, clock)
    <3>1. /\ Sound(after, clock)
          /\ after.rate = lim.rate /\ after.numeric = lim.numeric
          /\ Tokens(after, clock) =
               Tokens(lim, clock) - (IF Allows(lim, clock) THEN Minute ELSE 0)
      BY <2>1, AllowEffect
    <3>2. Tokens(lim, clock) \in Int
      BY <2>1, TokensBounds
    <3> QED
      BY <3>1, <3>2, MinuteAssumption
  <2> HIDE DEF after
  <2>4. LimitersOK' /\ Configured'
    <3>1. limiters' \in [Kinds -> Limiter]
      BY <2>1, <2>2, <2>3 DEF Sound
    <3>2. \A j \in Kinds : /\ Sound(limiters'[j], clock)
                           /\ limiters'[j].rate = limiters[j].rate
                           /\ limiters'[j].numeric = limiters[j].numeric
      BY <2>1, <2>2, <2>3 DEF LimitersOK
    <3>3. watch' \in [kind: Kinds, since: 0 .. MaxClock, granted: Nat, failed: Nat]
      BY DEF Check, LimitersOK
    <3> QED
      BY <3>1, <3>2, <3>3 DEF LimitersOK, Configured, Sound
  <2>5. /\ watch.kind \in Kinds /\ watch.granted \in Nat
        /\ watch'.kind = watch.kind /\ watch'.since = watch.since
        /\ watch'.granted = IF Admits(k) /\ k = watch.kind THEN watch.granted + 1
                                                          ELSE watch.granted
    BY DEF Check, LimitersOK
  <2>6. CASE k # watch.kind
    <3>1. limiters'[watch.kind] = limiters[watch.kind]
      BY <2>1, <2>2, <2>6
    <3> QED
      BY <2>4, <2>5, <2>6, <3>1 DEF GrantsAccounted, Tokens
  <2>7. CASE k = watch.kind
    <3>1. limiters'[watch.kind] = after
      BY <2>1, <2>2, <2>7
    <3>2. Admits(k) <=> Allows(lim, clock)
      BY <1>2 DEF Admits
    <3> DEFINE bound == (Minute + (clock - watch.since)) * lim.rate
               before == Tokens(lim, clock)
               left == Tokens(after, clock)
    <3>3. before \in Int /\ left \in Int
      BY <2>1, <2>3, TokensBounds
    <3>4. CASE lim.numeric /\ lim.rate >= 0
      <4>1. watch.granted * Minute + before <= bound
        BY <2>7, <3>4 DEF GrantsAccounted
      <4>2. bound \in Int /\ watch.granted * Minute \in Int
        BY <2>1, <2>5, MinuteAssumption DEF LimitersOK, Sound, Limiter
      <4>3. (watch.granted + 1) * Minute = watch.granted * Minute + 1 * Minute
        BY <2>5, MinuteAssumption, Distributes
      <4>4. left <= before /\ (Allows(lim, clock) => left + Minute <= before)
        BY <2>3
      <4> HIDE DEF bound, before, left
      <4>5. watch'.granted * Minute + left <= bound
        BY <2>5, <2>7, <3>2, <3>3, <4>1, <4>2, <4>3, <4>4, MinuteAssumption
      <4> QED
        BY <2>3, <2>4, <2>5, <3>1, <3>4, <4>5
           DEF GrantsAccounted, bound, left, Tokens
    <3>5. CASE ~(lim.numeric /\ lim.rate >= 0)
      <4>1. ~Allows(lim, clock)
        <5>1. CASE ~lim.numeric
          BY <5>1 DEF Allows
        <5>2. CASE lim.rate < 0
          BY <2>1, <5>2, NothingOfDebt
        <5>3. lim.rate \in Int
          BY <2>1 DEF Sound, Limiter
        <5> QED
          BY <3>5, <5>1, <5>2, <5>3
      <4>2. watch'.granted = 0
        BY <2>5, <2>7, <3>2, <3>5, <4>1 DEF GrantsAccounted
      <4> QED
        BY <2>3, <2>4, <2>5, <2>7, <3>1, <3>5, <4>2 DEF GrantsAccounted
    <3> QED
      BY <3>4, <3>5
  <2> QED
    BY <2>4, <2>6, <2>7
<1> QED
  BY <1>1, <1>2

LEMMA RestartStep ==
  ASSUME GrantsInv, Restart PROVE GrantsInv'
<1>1. /\ clock \in 0 .. MaxClock /\ clock \in Nat /\ source' \in Startable
      /\ clock' = clock /\ limiters' = NewLimiters(source', clock)
      /\ watch' \in [kind: Kinds, since: 0 .. MaxClock, granted: Nat, failed: Nat]
      /\ watch'.since = clock /\ watch'.granted = 0 /\ watch'.kind \in Kinds
  BY ServerAssumption DEF GrantsInv, LimitersOK, Restart, Watching
<1> DEFINE new == NewLimiters(source', clock)
<1>2. /\ new \in [Kinds -> Limiter]
      /\ \A k \in Kinds : /\ Sound(new[k], clock)
                          /\ new[k].rate = Guardrails[source'][k].rate
                          /\ new[k].numeric = Guardrails[source'][k].numeric
  BY <1>1, LimitersStart
<1> HIDE DEF new
<1>3. limiters' = new
  BY <1>1 DEF new
<1>4. LimitersOK' /\ Configured'
  BY <1>1, <1>2, <1>3 DEF LimitersOK, Configured, Sound
<1>5. 0 * Minute + Tokens(new[watch'.kind], clock)
        <= (Minute + (clock - clock)) * new[watch'.kind].rate
  BY <1>1, <1>2, AccountOpened
<1>6. GrantsAccounted'
  BY <1>1, <1>3, <1>5 DEF GrantsAccounted, Tokens
<1> QED
  BY <1>4, <1>6 DEF GrantsInv

LEMMA WatchStep ==
  ASSUME GrantsInv, Watch PROVE GrantsInv'
<1>1. /\ clock \in 0 .. MaxClock /\ clock \in Nat
      /\ UNCHANGED <<clock, limiters, source>>
      /\ watch' \in [kind: Kinds, since: 0 .. MaxClock, granted: Nat, failed: Nat]
      /\ watch'.since = clock /\ watch'.granted = 0
      /\ watch'.kind \in Kinds /\ Sound(limiters[watch'.kind], clock)
  BY ServerAssumption DEF GrantsInv, LimitersOK, Watch, Watching
<1>2. LimitersOK' /\ Configured'
  BY <1>1 DEF GrantsInv, LimitersOK, Configured, Sound
<1>3. 0 * Minute + Tokens(limiters[watch'.kind], clock)
        <= (Minute + (clock - clock)) * limiters[watch'.kind].rate
  BY <1>1, AccountOpened
<1>4. GrantsAccounted'
  BY <1>1, <1>3 DEF GrantsAccounted, Tokens
<1> QED
  BY <1>2, <1>4 DEF GrantsInv

\* A second adds at most the rate to the bucket, and exactly that to the bound.
LEMMA TickStep ==
  ASSUME GrantsInv, Tick PROVE GrantsInv'
<1> DEFINE lim == limiters[watch.kind]
           now == clock + 1
           spent == watch.granted * Minute
           age == Minute + (clock - watch.since)
<1>1. /\ clock \in Nat /\ now \in 0 .. MaxClock /\ now \in Nat /\ clock' = now
      /\ UNCHANGED <<limiters, source, watch>>
      /\ watch \in [kind: Kinds, since: 0 .. MaxClock, granted: Nat, failed: Nat]
      /\ \A k \in Kinds : Sound(limiters[k], clock)
      /\ watch.since <= clock
  BY ServerAssumption DEF GrantsInv, LimitersOK, GrantsAccounted, Tick
<1>2. \A k \in Kinds : Sound(limiters[k], now)
  BY <1>1 DEF Sound, Limiter
<1>3. LimitersOK' /\ Configured'
  BY <1>1, <1>2 DEF GrantsInv, LimitersOK, Configured, Sound
<1>4. CASE lim.numeric /\ lim.rate >= 0
  <2>1. Tokens(lim, now) <= Tokens(lim, clock) + lim.rate
    BY <1>1, <1>4, TokensGrow
  <2>2. spent + Tokens(lim, clock) <= age * lim.rate
    BY <1>4 DEF GrantsInv, GrantsAccounted
  <2>3. lim.rate \in Int /\ age \in Int /\ spent \in Int
    BY <1>1, MinuteAssumption DEF Sound, Limiter
  <2>4. (age + 1) * lim.rate = age * lim.rate + 1 * lim.rate
    BY <2>3, Distributes
  <2>5. Tokens(lim, now) \in Int /\ Tokens(lim, clock) \in Int
    BY <1>1, <1>2, TokensBounds
  <2>6. age * lim.rate \in Int
    BY <2>3
  <2>7. Minute + (now - watch.since) = age + 1
    BY <1>1, MinuteAssumption
  <2> HIDE DEF lim, now, spent, age
  <2>8. spent + Tokens(lim, now) <= (age + 1) * lim.rate
    BY <2>1, <2>2, <2>3, <2>4, <2>5, <2>6
  <2>9. spent + Tokens(lim, now) <= (Minute + (now - watch.since)) * lim.rate
    BY <2>7, <2>8
  <2>10. watch.since <= now
    BY <1>1 DEF now
  <2> QED
    BY <1>1, <1>3, <1>4, <2>9, <2>10
       DEF GrantsInv, GrantsAccounted, lim, spent, Tokens
<1>5. CASE ~(lim.numeric /\ lim.rate >= 0)
  <2>1. watch.since <= now
    BY <1>1
  <2> QED
    BY <1>1, <1>3, <1>5, <2>1 DEF GrantsInv, GrantsAccounted
<1> QED
  BY <1>4, <1>5

LEMMA GrantsStep ==
  ASSUME GrantsInv, BreakerOK, Next PROVE GrantsInv'
<1>1. CASE RejectInvalid \/ ValidateRaises \/ \E k \in Kinds : CheckRaises(k)
  BY <1>1, GrantsKept DEF RejectInvalid, ValidateRaises, CheckRaises
<1>2. CASE ReadSucceeds \/ ReadFails
  <2>1. watch.failed + 1 \in Nat /\ 0 \in Nat
    BY DEF GrantsInv, LimitersOK
  <2> QED
    BY <1>2, <2>1, GrantsKept DEF ReadSucceeds, ReadFails
<1>3. CASE RefuseRead \/ BeginRead \/ \E type \in DOMAIN LimiterOf : Pend(type)
  <2>1. \A type \in DOMAIN LimiterOf : LimiterOf[type] \in Kinds
    BY DEF LimiterOf, Kinds
  <2>2. "read" \in Kinds
    BY DEF Kinds
  <2> QED
    BY <1>3, <2>1, <2>2, CheckStep DEF RefuseRead, BeginRead, Pend
<1> QED
  BY <1>1, <1>2, <1>3, RestartStep, TickStep, WatchStep DEF Next, Request

-----------------------------------------------------------------------------
(* Limiters: nothing but grants costs tokens *)

\* With new limiters, or a new observation, nothing was refilled.
LEMMA RefillsOpened ==
  ASSUME NEW lim, NEW now \in Nat, Sound(lim, now), lim.rate >= 0
  PROVE  0 * lim.rate <= 0 * Minute + Tokens(lim, now)
<1>1. 0 * lim.rate = 0 /\ 0 * Minute = 0
  BY MinuteAssumption DEF Sound, Limiter
<1>2. Tokens(lim, now) \in Int /\ Tokens(lim, now) >= 0
  BY TokensBounds
<1> QED
  BY <1>1, <1>2

LEMMA RefillsStart ==
  ASSUME Init, GrantsInv PROVE RefillsAccounted
<1>1. /\ clock \in Nat /\ watch.kind \in Kinds /\ Sound(limiters[watch.kind], clock)
      /\ watch.since = clock /\ watch.granted = 0
  BY ServerAssumption DEF Init, Watching, GrantsInv, LimitersOK
<1>2. Span = 0
  BY <1>1, MinuteAssumption DEF Span
<1> QED
  BY <1>1, <1>2, RefillsOpened DEF RefillsAccounted

\* Steps that leave the limiters, the clock and what was granted alone.
LEMMA RefillsKept ==
  ASSUME RefillsAccounted, UNCHANGED <<clock, limiters>>,
         watch'.kind = watch.kind, watch'.since = watch.since,
         watch'.granted = watch.granted
  PROVE  RefillsAccounted'
BY DEF RefillsAccounted, Span, Tokens

\* A check takes out of the bucket no more than it grants.
LEMMA RefillsCheck ==
  ASSUME GrantsInv, RefillsAccounted, NEW k \in Kinds, Check(k), UNCHANGED clock
  PROVE  RefillsAccounted'
<1>0. /\ clock \in Nat /\ limiters \in [Kinds -> Limiter]
      /\ watch.kind \in Kinds /\ watch.granted \in Nat /\ watch.since \in Nat
      /\ watch.since <= clock
      /\ watch'.kind = watch.kind /\ watch'.since = watch.since
      /\ watch'.granted = IF Admits(k) /\ k = watch.kind THEN watch.granted + 1
                                                        ELSE watch.granted
  BY ServerAssumption DEF Check, GrantsInv, LimitersOK, GrantsAccounted
<1>1. CASE IsOpen(breaker, clock) \/ k # watch.kind
  <2>1. /\ limiters'[watch.kind] = limiters[watch.kind]
        /\ watch'.granted = watch.granted
    BY <1>0, <1>1 DEF Check, Admits
  <2> QED
    BY <1>0, <2>1 DEF RefillsAccounted, Span, Tokens
<1>2. CASE ~IsOpen(breaker, clock) /\ k = watch.kind
  <2> DEFINE lim == limiters[k]
             after == AfterAllow(lim, clock)
             taken == IF Allows(lim, clock) THEN Minute ELSE 0
             before == Tokens(lim, clock)
             left == Tokens(after, clock)
             due == Span * lim.rate
  <2>1. Sound(lim, clock)
    BY DEF GrantsInv, LimitersOK
  <2>2. limiters'[watch.kind] = after
    BY <1>0, <1>2 DEF Check
  <2>3. /\ Sound(after, clock)
        /\ after.rate = lim.rate /\ after.numeric = lim.numeric
        /\ left = before - taken
    BY <1>0, <2>1, AllowEffect
  <2>4. before \in Int
    BY <1>0, <2>1, TokensBounds
  <2>5. due \in Int
    <3>1. Span \in Int /\ lim.rate \in Int
      BY <1>0, <2>1, MinuteAssumption DEF Span, Sound, Limiter
    <3> QED
      BY <3>1
  <2>6. watch'.granted * Minute = watch.granted * Minute + taken
    <3>1. watch'.granted = IF Allows(lim, clock) THEN watch.granted + 1
                                                 ELSE watch.granted
      BY <1>0, <1>2 DEF Admits
    <3>2. (watch.granted + 1) * Minute = watch.granted * Minute + 1 * Minute
      BY <1>0, MinuteAssumption, Distributes
    <3>3. watch.granted * Minute \in Int /\ 1 * Minute = Minute
      BY <1>0, MinuteAssumption
    <3> QED
      BY <3>1, <3>2, <3>3
  <2>7. watch.granted * Minute \in Int /\ taken \in Int
    BY <1>0, MinuteAssumption
  <2> SUFFICES ASSUME lim.numeric, lim.rate >= 0
               PROVE  due <= watch'.granted * Minute + left
    BY <1>0, <2>2, <2>3 DEF RefillsAccounted, Span, Tokens
  <2>8. due <= watch.granted * Minute + before
    BY <1>2 DEF RefillsAccounted
  <2> HIDE DEF due, left, before, taken
  <2> QED
    BY <2>3, <2>4, <2>5, <2>6, <2>7, <2>8
<1> QED
  BY <1>1, <1>2

\* A new process and a new observation open the account anew.
LEMMA RefillsAnew ==
  ASSUME GrantsInv, GrantsInv', Restart \/ Watch
  PROVE  RefillsAccounted'
<1>1. clock' = clock /\ watch'.since = clock /\ watch'.granted = 0
  BY DEF Restart, Watch, Watching
<1>2. /\ clock \in Nat /\ watch'.kind \in Kinds
      /\ Sound(limiters'[watch'.kind], clock)
  BY <1>1, ServerAssumption DEF GrantsInv, LimitersOK
<1>3. Span' = 0
  BY <1>1, <1>2, MinuteAssumption DEF Span
<1>4. limiters'[watch'.kind].rate >= 0 =>
        0 * limiters'[watch'.kind].rate
          <= 0 * Minute + Tokens(limiters'[watch'.kind], clock)
  BY <1>2, RefillsOpened
<1> QED
  BY <1>1, <1>3, <1>4 DEF RefillsAccounted, Tokens

\* A second adds the rate to the bucket and to what is due, unless the bucket
\* is full, and then no more is due than it holds.
LEMMA RefillsTick ==
  ASSUME GrantsInv, RefillsAccounted, Tick PROVE RefillsAccounted'
<1> DEFINE lim == limiters[watch.kind]
           now == clock + 1
           next == IF now - watch.since < Minute THEN now - watch.since ELSE Minute
           spent == watch.granted * Minute
           r == lim.rate
<1>1. /\ clock \in Nat /\ now \in Nat /\ clock' = now
      /\ UNCHANGED <<limiters, watch>>
      /\ watch.granted \in Nat /\ watch.since \in Nat /\ watch.since <= clock
      /\ Sound(lim, clock)
  BY ServerAssumption DEF GrantsInv, LimitersOK, GrantsAccounted, Tick
<1>2. Span' = next
  BY <1>1 DEF Span
<1>3. SUFFICES ASSUME lim.numeric, r >= 0
               PROVE  next * r <= spent + Tokens(lim, now)
  BY <1>1, <1>2 DEF RefillsAccounted, Tokens
<1>4. /\ r \in Nat /\ next \in Nat /\ next <= Minute /\ Span \in Nat
      /\ next = Span + 1 \/ next = Span
      /\ spent \in Nat
  <2>1. r \in Nat
    BY <1>1, <1>3 DEF Sound, Limiter
  <2>2. spent \in Nat
    BY <1>1, MinuteAssumption
  <2>3. /\ next \in Nat /\ next <= Minute /\ Span \in Nat
        /\ next = Span + 1 \/ next = Span
    BY <1>1, MinuteAssumption DEF Span
  <2> QED
    BY <2>1, <2>2, <2>3
<1>5. /\ \/ Tokens(lim, now) = Tokens(lim, clock) + r
         \/ Tokens(lim, now) = r * Minute
      /\ Tokens(lim, clock) \in Int
  BY <1>1, <1>3, TokensGrow, TokensBounds
<1>6. Span * r <= spent + Tokens(lim, clock)
  BY <1>3 DEF RefillsAccounted
<1> HIDE DEF lim, now, next, spent, r
<1>7. CASE Tokens(lim, now) = r * Minute
  <2>1. (Minute - next) * r = Minute * r + (0 - next) * r
    <3>1. Minute \in Int /\ Minute - next = Minute + (0 - next)
      BY <1>4, MinuteAssumption
    <3> QED
      BY <1>4, <3>1, Distributes
  <2>2. (0 - next) * r = 0 - next * r
    BY <1>4
  <2>3. (Minute - next) * r >= 0 /\ next * r \in Int /\ Minute * r \in Int
    BY <1>4, MinuteAssumption, ProductSign
  <2>4. Minute * r = r * Minute
    BY <1>4, MinuteAssumption, ProductSign
  <2> QED
    BY <1>4, <1>7, <2>1, <2>2, <2>3, <2>4
<1>8. CASE Tokens(lim, now) = Tokens(lim, clock) + r
  <2>1. (Span + 1) * r = Span * r + 1 * r
    BY <1>4, Distributes
  <2>2. Span * r \in Int /\ 1 * r = r
    BY <1>4
  <2>3. next * r = Span * r + r \/ next * r = Span * r
    BY <1>4, <2>1, <2>2
  <2> QED
    BY <1>4, <1>5, <1>6, <1>8, <2>2, <2>3
<1> QED
  BY <1>5, <1>7, <1>8

LEMMA RefillsStep ==
  ASSUME GrantsInv, GrantsInv', RefillsAccounted, Next PROVE RefillsAccounted'
<1>1. CASE RejectInvalid \/ ValidateRaises \/ \E k \in Kinds : CheckRaises(k)
  BY <1>1, RefillsKept DEF RejectInvalid, ValidateRaises, CheckRaises
<1>2. CASE ReadSucceeds \/ ReadFails
  <2>1. /\ UNCHANGED <<clock, limiters>>
        /\ watch'.kind = watch.kind /\ watch'.since = watch.since
        /\ watch'.granted = watch.granted
    BY <1>2 DEF ReadSucceeds, ReadFails, GrantsInv, LimitersOK
  <2> QED
    BY <2>1, RefillsKept
<1>3. CASE RefuseRead \/ BeginRead \/ \E type \in DOMAIN LimiterOf : Pend(type)
  <2>1. \A type \in DOMAIN LimiterOf : LimiterOf[type] \in Kinds
    BY DEF LimiterOf, Kinds
  <2>2. "read" \in Kinds
    BY DEF Kinds
  <2> QED
    BY <1>3, <2>1, <2>2, RefillsCheck DEF RefuseRead, BeginRead, Pend
<1> QED
  BY <1>1, <1>2, <1>3, RefillsAnew, RefillsTick DEF Next, Request

-----------------------------------------------------------------------------
(* The breaker: types and bursts of failures *)

BurstInv == LimitersOK /\ BreakerOK /\ watch.since <= clock /\ BurstRecorded

\* What the breaker remembers when `n` reads have failed since `since`.
Recorded(b, n, since) ==
  /\ LateFailures(b.failures, n, since)
  /\ n <= FailureThreshold
  /\ n = FailureThreshold => b.state = "open" /\ b.opened_at >= since

\* An error is recorded: what was remembered is.
LEMMA RecordedKept ==
  ASSUME NEW b, BreakerSound(b), clock \in Nat, NEW n \in Nat, NEW since \in Nat,
         Recorded(b, n, since), since <= clock, clock - since < WindowSize
  PROVE  Recorded(RecordFailure(b, clock), n, since)
<1> DEFINE r == RecordFailure(b, clock)
<1>1. /\ r \in Breaker /\ b \in Breaker
      /\ b.opened_at <= r.opened_at
      /\ b.state = "open" => r.state = "open"
  BY FailureRecorded DEF BreakerSound
<1>2. LateFailures(r.failures, n + 1, since)
  <2>1. clock - WindowSize <= since
    BY BreakerAssumption
  <2> QED
    BY <2>1, FailureRecorded DEF BreakerSound, Recorded
<1> HIDE DEF r
<1>3. LateFailures(r.failures, n, since)
  BY <1>1, <1>2, FewerLateFailures DEF Breaker
<1>4. b.opened_at \in Nat /\ r.opened_at \in Nat
  BY <1>1 DEF Breaker
<1>5. Recorded(r, n, since)
  BY <1>1, <1>3, <1>4 DEF Recorded
<1> QED
  BY <1>5 DEF r

\* A read fails: one more is remembered.
LEMMA RecordedMore ==
  ASSUME NEW b, BreakerSound(b), clock \in Nat, NEW n \in Nat, NEW since \in Nat,
         Recorded(b, n, since), n < FailureThreshold,
         since <= clock, clock - since < WindowSize
  PROVE  Recorded(RecordFailure(b, clock), n + 1, since)
<1> DEFINE r == RecordFailure(b, clock)
<1>1. /\ r \in Breaker
      /\ Len(r.failures) >= FailureThreshold => r.state = "open" /\ r.opened_at = clock
  BY FailureRecorded DEF BreakerSound
<1>2. LateFailures(r.failures, n + 1, since)
  <2>1. clock - WindowSize <= since
    BY BreakerAssumption
  <2> QED
    BY <2>1, FailureRecorded DEF BreakerSound, Recorded
<1> HIDE DEF r
<1>3. n + 1 <= Len(r.failures)
  BY <1>2 DEF LateFailures
<1>4. n + 1 <= FailureThreshold
  BY BreakerAssumption
<1>5. Recorded(r, n + 1, since)
  BY <1>1, <1>2, <1>3, <1>4 DEF Recorded
<1> QED
  BY <1>5 DEF r

LEMMA SoundAfterFailure ==
  ASSUME NEW b, BreakerSound(b), clock \in Nat
  PROVE  BreakerSound(RecordFailure(b, clock))
BY FailureRecorded DEF BreakerSound

\* What an audit entry can do to the breaker.
LEMMA AuditStep ==
  ASSUME NEW b, Audit(b), BreakerSound(b), clock \in Nat, faults \in 0 .. MaxFaults
  PROVE  /\ breaker' \in {b, RecordFailure(b, clock)}
         /\ BreakerSound(breaker')
         /\ serving' \in {"idle", "dead"}
         /\ faults' \in 0 .. MaxFaults
BY SoundAfterFailure, ServerAssumption DEF Audit

LEMMA ExceptStep ==
  ASSUME NEW b, Except(b), BreakerSound(b), clock \in Nat, faults \in 0 .. MaxFaults
  PROVE  /\ breaker' = RecordFailure(b, clock)
         /\ BreakerSound(breaker')
         /\ serving' \in {"idle", "dead"}
         /\ faults' \in 0 .. MaxFaults
BY SoundAfterFailure, ServerAssumption DEF Except, AuditFails

\* Asking loses nothing of what is remembered.
LEMMA RecordedAsked ==
  ASSUME NEW b, BreakerSound(b), clock \in Nat, NEW n \in Nat, NEW since \in Nat,
         Recorded(b, n, since), since <= clock,
         RecoveryTimeout >= WindowSize, clock - since < WindowSize
  PROVE  /\ Recorded(AfterIsOpen(b, clock), n, since)
         /\ ~IsOpen(b, clock) => n < FailureThreshold
<1> DEFINE a == AfterIsOpen(b, clock)
<1>1. /\ a.failures = b.failures /\ a.opened_at = b.opened_at
      /\ IsOpen(b, clock) => a = b
  BY OpennessAsked DEF BreakerSound
<1>2. b.opened_at \in Nat
  BY DEF BreakerSound, Breaker
<1>3. n = FailureThreshold => IsOpen(b, clock)
  BY <1>2, BreakerAssumption DEF Recorded, IsOpen
<1> HIDE DEF a
<1>4. Recorded(a, n, since)
  BY <1>1, <1>3 DEF Recorded
<1>5. ~IsOpen(b, clock) => n < FailureThreshold
  BY <1>3, BreakerAssumption DEF Recorded
<1> QED
  BY <1>4, <1>5 DEF a

LEMMA SoundAfterAsking ==
  ASSUME NEW b, BreakerSound(b), clock \in Nat
  PROVE  BreakerSound(AfterIsOpen(b, clock))
BY OpennessAsked DEF BreakerSound

LEMMA BurstStart ==
  ASSUME Init PROVE BurstInv
<1>1. LimitersOK
  BY GrantsStart DEF GrantsInv
<1>2. /\ clock = 0 /\ faults = 0 /\ serving = "idle" /\ breaker = NewBreaker
      /\ watch.since = clock /\ watch.failed = 0
  BY DEF Init, Watching
<1>3. BreakerSound(breaker) /\ LateFailures(breaker.failures, 0, clock)
  BY <1>2, BreakerAssumption
     DEF BreakerSound, NewBreaker, Breaker, CircuitState, LateFailures
<1>4. BreakerOK
  BY <1>2, <1>3, ServerAssumption DEF BreakerOK
<1>5. BurstRecorded
  BY <1>2, <1>3, BreakerAssumption DEF BurstRecorded
<1> QED
  BY <1>1, <1>2, <1>4, <1>5 DEF BurstInv

\* Steps between two reads: the breaker is as before, asked, or has recorded
\* an error; no read ends or begins.
LEMMA BurstKept ==
  ASSUME BurstInv, NEW b, b \in {breaker, AfterIsOpen(breaker, clock)},
         breaker' \in {b, RecordFailure(b, clock)}, BreakerSound(breaker'),
         serving' \in {"idle", "dead"} \/ serving' = serving,
         faults' \in 0 .. MaxFaults, UNCHANGED clock, LimitersOK',
         watch'.since = watch.since, watch'.failed = watch.failed
  PROVE  BurstInv'
<1>1. /\ clock \in Nat /\ watch.failed \in Nat /\ watch.since \in Nat
      /\ watch.since <= clock
      /\ BreakerSound(breaker)
      /\ serving \in {"idle", "reading", "dead"}
  BY ServerAssumption DEF BurstInv, LimitersOK, BreakerOK
<1>2. BreakerSound(b)
  BY <1>1, SoundAfterAsking
<1>3. BreakerOK'
  BY <1>1 DEF BreakerOK, BreakerSound
<1>4. BurstRecorded'
  <2> SUFFICES ASSUME RecoveryTimeout >= WindowSize,
                      clock - watch.since < WindowSize
               PROVE  /\ Recorded(breaker', watch.failed, watch.since)
                      /\ watch.failed = FailureThreshold => serving' # "reading"
    BY DEF BurstRecorded, Recorded
  <2>1. /\ Recorded(breaker, watch.failed, watch.since)
        /\ watch.failed = FailureThreshold => serving # "reading"
    BY DEF BurstInv, BurstRecorded, Recorded
  <2>2. Recorded(b, watch.failed, watch.since)
    BY <1>1, <2>1, RecordedAsked
  <2>3. Recorded(RecordFailure(b, clock), watch.failed, watch.since)
    BY <1>1, <1>2, <2>2, RecordedKept
  <2> QED
    BY <2>1, <2>2, <2>3
<1> QED
  BY <1>1, <1>3, <1>4 DEF BurstInv

\* A read begins only when the circuit is not open, hence before the last
\* failure of the burst.
LEMMA BurstBegin ==
  ASSUME BurstInv, BeginRead, LimitersOK' PROVE BurstInv'
<1> DEFINE b == AfterIsOpen(breaker, clock)
<1>1. /\ clock \in Nat /\ watch.failed \in Nat /\ watch.since \in Nat
      /\ watch.since <= clock
      /\ BreakerSound(breaker) /\ faults \in 0 .. MaxFaults
  BY ServerAssumption DEF BurstInv, LimitersOK, BreakerOK
<1>2. /\ breaker' = b /\ serving' = "reading" /\ UNCHANGED <<clock, faults>>
      /\ watch'.since = watch.since /\ watch'.failed = watch.failed
      /\ ~IsOpen(breaker, clock)
  BY DEF BeginRead, Check, Admits, BurstInv, LimitersOK
<1>3. BreakerSound(b)
  BY <1>1, SoundAfterAsking
<1>4. BreakerOK'
  BY <1>1, <1>2, <1>3 DEF BreakerOK, BreakerSound
<1>5. BurstRecorded'
  <2> SUFFICES ASSUME RecoveryTimeout >= WindowSize,
                      clock - watch.since < WindowSize
               PROVE  /\ Recorded(b, watch.failed, watch.since)
                      /\ watch.failed < FailureThreshold
    BY <1>1, <1>2, BreakerAssumption DEF BurstRecorded, Recorded
  <2>1. Recorded(breaker, watch.failed, watch.since)
    BY DEF BurstInv, BurstRecorded, Recorded
  <2> QED
    BY <1>1, <1>2, <2>1, RecordedAsked
<1> QED
  BY <1>1, <1>2, <1>4, <1>5 DEF BurstInv

LEMMA BurstSuccess ==
  ASSUME BurstInv, ReadSucceeds, LimitersOK' PROVE BurstInv'
<1> DEFINE b == RecordSuccess(breaker)
<1>1. /\ clock \in Nat /\ watch.since \in Nat /\ watch.since <= clock
      /\ BreakerSound(breaker) /\ faults \in 0 .. MaxFaults
  BY ServerAssumption DEF BurstInv, LimitersOK, BreakerOK
<1>2. BreakerSound(b)
  <2>1. /\ b \in Breaker /\ b.failures = <<>> /\ b.opened_at = breaker.opened_at
    <3>1. breaker \in Breaker /\ <<>> \in Seq(Nat) /\ "closed" \in CircuitState
      BY <1>1 DEF BreakerSound, CircuitState
    <3>2. b = [breaker EXCEPT !.failures = <<>>, !.state = "closed"]
      BY DEF RecordSuccess
    <3> HIDE DEF b
    <3> QED
      BY <3>1, <3>2 DEF Breaker
  <2> HIDE DEF b
  <2> QED
    BY <1>1, <2>1, BreakerAssumption DEF BreakerSound
<1>3. /\ BreakerSound(breaker')
      /\ serving' \in {"idle", "dead"} /\ faults' \in 0 .. MaxFaults
  BY <1>1, <1>2, AuditStep DEF ReadSucceeds
<1>4. /\ watch'.since = watch.since /\ watch'.failed = 0 /\ UNCHANGED clock
  BY DEF ReadSucceeds, BurstInv, LimitersOK
<1>5. BreakerOK'
  BY <1>3, <1>4 DEF BreakerOK, BreakerSound
<1>6. LateFailures(breaker'.failures, 0, watch.since)
  BY <1>3 DEF LateFailures, BreakerSound, Breaker
<1>7. BurstRecorded'
  BY <1>4, <1>6, BreakerAssumption DEF BurstRecorded
<1> QED
  BY <1>1, <1>4, <1>5, <1>7 DEF BurstInv

LEMMA BurstFailure ==
  ASSUME BurstInv, ReadFails, LimitersOK' PROVE BurstInv'
<1>1. /\ clock \in Nat /\ watch.failed \in Nat /\ watch.since \in Nat
      /\ watch.since <= clock
      /\ BreakerSound(breaker) /\ faults \in 0 .. MaxFaults
  BY ServerAssumption DEF BurstInv, LimitersOK, BreakerOK
<1>2. /\ breaker' = RecordFailure(breaker, clock) /\ BreakerSound(breaker')
      /\ serving' \in {"idle", "dead"} /\ faults' \in 0 .. MaxFaults
  BY <1>1, ExceptStep DEF ReadFails
<1>3. /\ watch'.since = watch.since /\ watch'.failed = watch.failed + 1
      /\ UNCHANGED clock /\ serving = "reading"
  BY DEF ReadFails, BurstInv, LimitersOK
<1>4. BreakerOK'
  BY <1>2, <1>3 DEF BreakerOK, BreakerSound
<1>5. BurstRecorded'
  <2> SUFFICES ASSUME RecoveryTimeout >= WindowSize,
                      clock - watch.since < WindowSize
               PROVE  Recorded(breaker', watch.failed + 1, watch.since)
    BY <1>2, <1>3 DEF BurstRecorded, Recorded
  <2>1. /\ Recorded(breaker, watch.failed, watch.since)
        /\ watch.failed # FailureThreshold
    BY <1>3 DEF BurstInv, BurstRecorded, Recorded
  <2>2. watch.failed < FailureThreshold
    BY <1>1, <2>1, BreakerAssumption DEF Recorded
  <2> QED
    BY <1>1, <1>2, <2>1, <2>2, RecordedMore
<1> QED
  BY <1>1, <1>3, <1>4, <1>5 DEF BurstInv

\* A new process or a new observation has no failures to remember.
LEMMA BurstForgotten ==
  ASSUME BurstInv, Restart \/ Watch, LimitersOK' PROVE BurstInv'
<1>1. /\ clock \in Nat /\ BreakerOK
  BY ServerAssumption DEF BurstInv, LimitersOK
<1>2. /\ watch'.since = clock /\ watch'.failed = 0 /\ UNCHANGED <<clock, faults>>
      /\ breaker' \in {breaker, NewBreaker} /\ serving' \in {serving, "idle"}
  BY DEF Restart, Watch, Watching
<1>3. BreakerSound(NewBreaker)
  BY <1>1, BreakerAssumption DEF BreakerSound, NewBreaker, Breaker, CircuitState
<1>4. BreakerOK' /\ BreakerSound(breaker')
  BY <1>1, <1>2, <1>3 DEF BreakerOK, BreakerSound
<1>5. LateFailures(breaker'.failures, 0, clock)
  BY <1>1, <1>4 DEF LateFailures, BreakerSound, Breaker
<1>6. BurstRecorded'
  BY <1>2, <1>5, BreakerAssumption DEF BurstRecorded
<1> QED
  BY <1>1, <1>2, <1>4, <1>6 DEF BurstInv

LEMMA BurstStep ==
  ASSUME BurstInv, Next, LimitersOK' PROVE BurstInv'
<1>1. /\ clock \in Nat /\ watch.since \in Nat /\ watch.since <= clock
      /\ BreakerSound(breaker) /\ BreakerSound(AfterIsOpen(breaker, clock))
      /\ faults \in 0 .. MaxFaults
      /\ watch \in [kind: Kinds, since: 0 .. MaxClock, granted: Nat, failed: Nat]
  BY ServerAssumption, SoundAfterAsking DEF BurstInv, LimitersOK, BreakerOK
<1>2. CASE RejectInvalid \/ ValidateRaises
  <2>1. faults' \in 0 .. MaxFaults
    BY <1>1, <1>2, ServerAssumption DEF RejectInvalid, ValidateRaises, AuditFails
  <2> QED
    BY <1>1, <1>2, <2>1, BurstKept
       DEF RejectInvalid, ValidateRaises, BreakerSound
<1>3. CASE RefuseRead \/ \E type \in DOMAIN LimiterOf : Pend(type)
  <2>1. /\ Audit(AfterIsOpen(breaker, clock)) /\ UNCHANGED clock
        /\ watch'.since = watch.since /\ watch'.failed = watch.failed
    BY <1>1, <1>3 DEF RefuseRead, Pend, Check
  <2> QED
    BY <1>1, <2>1, AuditStep, BurstKept
<1>4. CASE \E k \in Kinds : CheckRaises(k)
  <2>1. Except(AfterIsOpen(breaker, clock)) /\ UNCHANGED <<clock, watch>>
    BY <1>4 DEF CheckRaises
  <2> QED
    BY <1>1, <2>1, ExceptStep, BurstKept
<1>5. CASE Tick
  <2>1. clock' = clock + 1 /\ UNCHANGED <<breaker, serving, faults, watch>>
    BY <1>5 DEF Tick
  <2>2. BreakerOK'
    BY <1>1, <2>1 DEF BurstInv, BreakerOK, BreakerSound, Breaker
  <2>3. BurstRecorded'
    BY <1>1, <2>1, BreakerAssumption DEF BurstInv, BurstRecorded, LateFailures
  <2> QED
    BY <1>1, <2>1, <2>2, <2>3 DEF BurstInv
<1> QED
  BY <1>2, <1>3, <1>4, <1>5, BurstBegin, BurstSuccess, BurstFailure,
     BurstForgotten DEF Next, Request

-----------------------------------------------------------------------------
(* Theorems *)

\* Types, the account of every limiter and the memory of the breaker hold
\* in every reachable state.
THEOREM ServerInvariant == Spec => []ServerInv
<1>1. Init => ServerInv
  BY GrantsStart, RefillsStart, BurstStart DEF ServerInv, GrantsInv, BurstInv
<1>2. ServerInv /\ [Next]_serverVars => ServerInv'
  <2> SUFFICES ASSUME ServerInv, [Next]_serverVars PROVE ServerInv'
    OBVIOUS
  <2>1. GrantsInv /\ BurstInv /\ BreakerOK
    BY DEF ServerInv, GrantsInv, BurstInv, GrantsAccounted
  <2>2. CASE UNCHANGED serverVars
    BY <2>2 DEF serverVars, ServerInv, LimitersOK, BreakerOK, BreakerSound,
                Configured, GrantsAccounted, RefillsAccounted, Span,
                BurstRecorded, Sound, Tokens
  <2>3. CASE Next
    <3>1. GrantsInv'
      BY <2>1, <2>3, GrantsStep
    <3>2. BurstInv'
      BY <2>1, <2>3, <3>1, BurstStep DEF GrantsInv
    <3>3. RefillsAccounted'
      BY <2>1, <2>3, <3>1, RefillsStep DEF ServerInv
    <3> QED
      BY <3>1, <3>2, <3>3 DEF ServerInv, GrantsInv, BurstInv
  <2> QED
    BY <2>2, <2>3
<1> QED
  BY <1>1, <1>2, PTL DEF Spec

\* Every variable of the server has its type.
THEOREM ServerTyped == Spec => []TypeOK
<1>1. ServerInv => TypeOK
  BY TypesInParts DEF ServerInv
<1> QED
  BY <1>1, ServerInvariant, PTL

\* Reads and writes are let through in no interval more often than the
\* configured number per minute allows.  (Nothing is claimed of dangerous
\* operations, whose limiter has 60 times the configured number.)
THEOREM RatesHold == Spec => []RateRespected
<1>1. ServerInv => RateRespected
  <2> SUFFICES ASSUME ServerInv, watch.kind # "dangerous"
               PROVE  watch.granted * Minute <=
                        (Minute + (clock - watch.since)) * ConfiguredRate(watch.kind)
    BY DEF RateRespected
  <2> DEFINE lim == limiters[watch.kind]
             age == Minute + (clock - watch.since)
             spent == watch.granted * Minute
             r == ConfiguredRate(watch.kind)
  <2>1. /\ clock \in Nat /\ watch.kind \in Kinds /\ Sound(lim, clock)
        /\ source \in Startable /\ watch.granted \in Nat /\ watch.since \in Nat
        /\ watch.since <= clock
    BY ServerAssumption DEF ServerInv, LimitersOK, GrantsAccounted
  <2>2. lim.rate \in Int /\ age \in Nat /\ spent \in Int
    BY <2>1, MinuteAssumption DEF Sound, Limiter
  <2>3. CASE lim.numeric /\ lim.rate >= 0
    <3>1. r = lim.rate
      BY <2>1, <2>3, RateOfGuardrails DEF ServerInv, Configured
    <3>2. spent + Tokens(lim, clock) <= age * lim.rate
      BY <2>3 DEF ServerInv, GrantsAccounted
    <3>3. Tokens(lim, clock) \in Int /\ Tokens(lim, clock) >= 0
      BY <2>1, <2>3, TokensBounds
    <3>4. age * lim.rate \in Int
      BY <2>2
    <3> HIDE DEF lim, age, spent, r
    <3>5. spent <= age * r
      BY <2>2, <3>1, <3>2, <3>3, <3>4
    <3> QED
      BY <3>5 DEF spent, age, r
  <2>4. CASE ~(lim.numeric /\ lim.rate >= 0)
    <3>1. r = 0
      BY <2>1, <2>4, RateOfGuardrails DEF ServerInv, Configured
    <3>2. watch.granted = 0
      BY <2>4 DEF ServerInv, GrantsAccounted
    <3>3. spent = 0 /\ age * 0 = 0
      BY <2>2, <3>2, MinuteAssumption
    <3> HIDE DEF age, spent, r
    <3>4. spent <= age * r
      BY <3>1, <3>3
    <3> QED
      BY <3>4 DEF spent, age, r
  <2> QED
    BY <2>3, <2>4
<1> QED
  BY <1>1, ServerInvariant, PTL

\* A limiter refuses only who would otherwise have had more than the rate in
\* force refills.
THEOREM RefusalsEarned == Spec => []RefusalEarned
<1>1. ServerInv => RefusalEarned
  <2> SUFFICES ASSUME ServerInv, ~Allows(limiters[watch.kind], clock)
               PROVE  (watch.granted + 1) * Minute > Span * RateInForce(watch.kind)
    BY DEF RefusalEarned
  <2> DEFINE lim == limiters[watch.kind]
             spent == watch.granted * Minute
             r == RateInForce(watch.kind)
             left == Tokens(lim, clock)
  <2>1. /\ clock \in Nat /\ watch.kind \in Kinds /\ Sound(lim, clock)
        /\ source \in Startable /\ watch.granted \in Nat /\ watch.since \in Nat
        /\ watch.since <= clock
    BY ServerAssumption DEF ServerInv, LimitersOK, GrantsAccounted
  <2>2. lim.rate \in Int /\ Span \in Nat /\ spent \in Nat /\ left \in Int
    <3>1. lim.rate \in Int /\ left \in Int
      BY <2>1, TokensBounds DEF Sound, Limiter
    <3>2. Span \in Nat /\ spent \in Nat
      BY <2>1, MinuteAssumption DEF Span
    <3> QED
      BY <3>1, <3>2
  <2>3. (watch.granted + 1) * Minute = spent + Minute
    <3>1. (watch.granted + 1) * Minute = spent + 1 * Minute
      BY <2>1, MinuteAssumption, Distributes
    <3> QED
      BY <3>1, MinuteAssumption
  <2>4. CASE lim.numeric /\ lim.rate >= 0
    <3>1. r = lim.rate
      BY <2>1, <2>4, RateOfGuardrails DEF ServerInv, Configured
    <3>2. Span * lim.rate <= spent + left
      BY <2>4 DEF ServerInv, RefillsAccounted
    <3>3. left < Minute
      BY <2>2, <2>4, MinuteAssumption DEF Allows
    <3>4. Span * lim.rate \in Int
      BY <2>2
    <3> HIDE DEF lim, spent, r, left
    <3>5. spent + Minute > Span * r
      BY <2>2, <3>1, <3>2, <3>3, <3>4, MinuteAssumption
    <3> QED
      BY <2>3, <3>5 DEF r
  <2>5. CASE ~(lim.numeric /\ lim.rate >= 0)
    <3>1. r = 0
      BY <2>1, <2>5, RateOfGuardrails DEF ServerInv, Configured
    <3>2. Span * 0 = 0
      BY <2>2
    <3> HIDE DEF spent, r
    <3>3. spent + Minute > Span * r
      BY <2>2, <3>1, <3>2, MinuteAssumption
    <3> QED
      BY <2>3, <3>3 DEF r
  <2> QED
    BY <2>4, <2>5
<1> QED
  BY <1>1, ServerInvariant, PTL

\* No more than FailureThreshold reads fail in a row within a window.
THEOREM BurstsBounded == Spec => []FailureBurst
<1>1. ServerInv => FailureBurst
  BY DEF ServerInv, BurstRecorded, FailureBurst
<1> QED
  BY <1>1, ServerInvariant, PTL

=============================================================================
