------------------------------- MODULE Server -------------------------------
(***************************************************************************)
(* EtsyMCPServer of src/server.py with its configuration and Guardrails:   *)
(* main() reads one request, answers it and reads the next.  A read is     *)
(* executed at once and takes time, during which nothing else is served;   *)
(* every other request is one step.  Requests that change nothing          *)
(* (list_tools, an unknown method or tool) are not modelled.               *)
(*                                                                         *)
(* AuditLogger.log can raise wherever it is called (the disk is full, the  *)
(* directory is gone).  Inside call_tool the except clause catches that,   *)
(* records an error and logs once more; what is raised there, or before    *)
(* the try, ends the process, which the MCP host starts again.             *)
(***************************************************************************)
EXTENDS RateLimiter, CircuitBreaker, Config

CONSTANTS
  Found,      \* what Config.load may find when the process starts
  MaxClock,   \* bound of the model's clock
  MaxFaults   \* bound on the writes of the audit log that fail

ASSUME ServerAssumption ==
  /\ ReadRate \in Nat /\ WriteRate \in Nat /\ DangerousRate \in Nat
  /\ \A s \in DOMAIN Found : IsSource(Found[s])
  /\ MaxClock \in Nat
  /\ MaxFaults \in Nat

VARIABLES
  clock,     \* time.time(), in seconds
  limiters,  \* the three buckets of Guardrails
  breaker,   \* Guardrails.circuit_breaker
  source,    \* what Config.load has found (of Found)
  serving,   \* "idle", "reading" (in op_def.execute) or "dead"
  faults,    \* failed audit writes so far
  watch      \* history: what happened since a chosen moment

serverVars == <<clock, limiters, breaker, source, serving, faults, watch>>

Kinds == {"read", "write", "dangerous"}

RateKey == [read |-> "read_rate_limit", write |-> "write_rate_limit",
            dangerous |-> "dangerous_rate_limit"]

\* EtsyMCPServer.__init__ returns: so does Config.load, the key is one to
\* decrypt, and float() reads every rate (that of the dangerous operations
\* after `* 60`, which repeats a string; no number has a sign in its middle).
Starts(s) ==
  /\ Loads(s)
  /\ \A k \in Keys \ RateKeys : Load(s)[k].kind \in {"digits", "word"}
  /\ \A k \in RateKeys : Load(s)[k].kind \in {"number", "digits"}
  /\ LET dangerous == Load(s).dangerous_rate_limit
     IN  dangerous.kind = "digits" => dangerous.n >= 0

Startable == {s \in DOMAIN Found : Starts(Found[s])}

\* The limiters Guardrails makes of each configuration at time 0: the rate of
\* dangerous operations is multiplied by 60.
Guardrails ==
  [s \in Startable |-> [k \in Kinds |->
     LET rate == Load(Found[s])[RateKey[k]]
     IN  NewLimiter(IF k = "dangerous" THEN rate.n * Minute ELSE rate.n,
                    rate.kind = "number", 0)]]

NewLimiters(s, now) ==
  [k \in Kinds |-> [Guardrails[s][k] EXCEPT !.last_refill = now]]

\* The limiter each kind of pending operation is checked against.
LimiterOf == [write |-> "write", bulk |-> "write", orchestrated |-> "dangerous"]

\* A history record: since time `since`, the tokens the limiter `kind` has
\* granted, and the reads that failed with none succeeding in between.
Watching(kind, now) == [kind |-> kind, since |-> now, granted |-> 0, failed |-> 0]

Init ==
  /\ clock = 0
  /\ source \in Startable
  /\ limiters = NewLimiters(source, clock)
  /\ breaker = NewBreaker
  /\ serving = "idle"
  /\ faults = 0
  /\ \E k \in Kinds : watch = Watching(k, clock)

-----------------------------------------------------------------------------
(* Guardrails *)

\* What a check answers, unless it raises.
Admits(k) == ~IsOpen(breaker, clock) /\ Allows(limiters[k], clock)

\* The bucket is asked first, and pays for what an open circuit refuses.
CheckTakesAnyway(k) ==
  /\ ~AllowRaises(limiters[k])
  /\ limiters' = [limiters EXCEPT ![k] = AfterAllow(@, clock)]
  /\ watch' = IF Admits(k) /\ k = watch.kind
              THEN [watch EXCEPT !.granted = @ + 1] ELSE watch

\* check_read, check_write, check_dangerous: an open circuit takes no token.
Check(k) ==
  /\ ~IsOpen(breaker, clock) => ~AllowRaises(limiters[k])
  /\ limiters' = IF IsOpen(breaker, clock) THEN limiters
                 ELSE [limiters EXCEPT ![k] = AfterAllow(@, clock)]
  /\ watch' = IF Admits(k) /\ k = watch.kind
              THEN [watch EXCEPT !.granted = @ + 1] ELSE watch

-----------------------------------------------------------------------------
(* Audit entries and the except clause of call_tool *)

AuditFails == faults < MaxFaults /\ faults' = faults + 1

\* The except clause, with the breaker at b: record_error, then log.
Except(b) ==
  /\ breaker' = RecordFailure(b, clock)
  /\ \/ serving' = "idle" /\ UNCHANGED faults
     \/ AuditFails /\ serving' = "dead"

\* audit.log inside the try, with the breaker at b.  A failing write is
\* followed by the except clause, whose own write may fail as well.
Audit(b) ==
  \/ breaker' = b /\ serving' = "idle" /\ UNCHANGED faults
  \/ /\ faults < MaxFaults
     /\ breaker' = RecordFailure(b, clock)
     /\ \/ serving' = "idle" /\ faults' = faults + 1
        \/ serving' = "dead" /\ faults + 1 < MaxFaults /\ faults' = faults + 2

-----------------------------------------------------------------------------
(* Requests *)

\* op_def.validate finds errors; its entry is written outside the try.
RejectInvalid ==
  /\ serving = "idle"
  /\ AuditFails
  /\ serving' = "dead"
  /\ UNCHANGED <<clock, limiters, breaker, source, watch>>

\* op_def.validate raises (a comparison of a string with a number): nothing
\* catches it.
ValidateRaises ==
  /\ serving = "idle"
  /\ serving' = "dead"
  /\ UNCHANGED <<clock, limiters, breaker, source, faults, watch>>

\* _execute_read, refused.
RefuseRead ==
  /\ serving = "idle"
  /\ ~Admits("read")
  /\ Check("read")
  /\ Audit(AfterIsOpen(breaker, clock))
  /\ UNCHANGED <<clock, source>>

\* _execute_read, let through: op_def.execute calls Etsy.
BeginRead ==
  /\ serving = "idle"
  /\ Admits("read")
  /\ Check("read")
  /\ breaker' = AfterIsOpen(breaker, clock)
  /\ serving' = "reading"
  /\ UNCHANGED <<clock, source, faults>>

\* record_success, then the entry.
ReadSucceeds ==
  /\ serving = "reading"
  /\ Audit(RecordSuccess(breaker))
  /\ watch' = [watch EXCEPT !.failed = 0]
  /\ UNCHANGED <<clock, limiters, source>>

\* op_def.execute raises.
ReadFails ==
  /\ serving = "reading"
  /\ Except(breaker)
  /\ watch' = [watch EXCEPT !.failed = @ + 1]
  /\ UNCHANGED <<clock, limiters, source>>

\* _execute_write_pending, _execute_bulk_pending, _execute_orchestrated_pending:
\* check and log; the operation itself is stored nowhere.
Pend(type) ==
  /\ serving = "idle"
  /\ Check(LimiterOf[type])
  /\ Audit(AfterIsOpen(breaker, clock))
  /\ UNCHANGED <<clock, source>>

\* After is_open has moved the circuit on, allow() raises inside the try.
CheckRaises(k) ==
  /\ serving = "idle"
  /\ ~IsOpen(breaker, clock)
  /\ AllowRaises(limiters[k])
  /\ Except(AfterIsOpen(breaker, clock))
  /\ UNCHANGED <<clock, limiters, source, watch>>

\* The host starts a new process, with the configuration of that moment:
\* guardrails start afresh.
Restart ==
  /\ serving = "dead"
  /\ source' \in Startable
  /\ limiters' = NewLimiters(source', clock)
  /\ breaker' = NewBreaker
  /\ serving' = "idle"
  /\ watch' = Watching(watch.kind, clock)
  /\ UNCHANGED <<clock, faults>>

Tick ==
  /\ clock < MaxClock
  /\ clock' = clock + 1
  /\ UNCHANGED <<limiters, breaker, source, serving, faults, watch>>

\* The observer looks from now on.
Watch ==
  /\ watch.since < clock
  /\ watch' = Watching(watch.kind, clock)
  /\ UNCHANGED <<clock, limiters, breaker, source, serving, faults>>

Request ==
  \/ RejectInvalid \/ ValidateRaises
  \/ RefuseRead \/ BeginRead
  \/ \E type \in DOMAIN LimiterOf : Pend(type)
  \/ \E k \in Kinds : CheckRaises(k)

Next == Request \/ ReadSucceeds \/ ReadFails \/ Restart \/ Tick \/ Watch

Spec == Init /\ [][Next]_serverVars

\* Time passes, a call of Etsy ends (requests time out), and a client goes
\* on asking to read.
FairSpec ==
  /\ Spec
  /\ WF_serverVars(Tick)
  /\ WF_serverVars(ReadSucceeds \/ ReadFails)
  /\ WF_serverVars(RefuseRead \/ BeginRead \/ CheckRaises("read"))
  /\ WF_serverVars(Restart)

-----------------------------------------------------------------------------
(* Properties *)

\* Types; a bucket is never overfull, and in debt only if its rate is
\* negative; a closed circuit holds fewer failures than would open it.
TypeOK ==
  /\ clock \in 0 .. MaxClock
  /\ limiters \in [Kinds -> Limiter]
  /\ \A k \in Kinds : LET lim == limiters[k] IN
       /\ lim.tokens <= lim.rate * Minute
       /\ lim.rate >= 0 => lim.tokens >= 0
       /\ lim.last_refill <= clock
  /\ breaker \in Breaker
  /\ breaker.opened_at <= clock
  /\ breaker.state = "closed" => Len(breaker.failures) < FailureThreshold
  /\ source \in Startable
  /\ serving \in {"idle", "reading", "dead"}
  /\ faults \in 0 .. MaxFaults
  /\ watch \in [kind: Kinds, since: 0 .. MaxClock, granted: Nat, failed: Nat]

\* The number the configuration holds for a limiter: the environment before
\* the file of the directory, before that of the user, before the code
\* (docs/ARCHITECTURE.md, "4-Level").  What is no positive number allows
\* nothing.
ConfiguredRate(k) ==
  LET s     == Found[source]
      key   == RateKey[k]
      value == IF key \in DOMAIN s.env    THEN Number(s.env[key].n)
               ELSE IF key \in DOMAIN s.repo   THEN s.repo[key]
               ELSE IF key \in DOMAIN s.master THEN s.master[key]
               ELSE Defaults[key]
  IN  IF value.kind # "number" \/ value.n < 0 THEN 0 ELSE value.n

\* What Guardrails makes of it, in tokens per minute.  For dangerous
\* operations that is not what the configuration asks for: see FiveMinuteRate.
RateInForce(k) == ConfiguredRate(k) * (IF k = "dangerous" THEN Minute ELSE 1)

\* In any interval whatsoever no more reads, and no more writes, are let
\* through than a full bucket and what the interval refills at the configured
\* number per minute, however requests, refusals and an open circuit are
\* interleaved with it, and whatever the four levels of the configuration
\* hold.
RateRespected ==
  watch.kind # "dangerous" =>
    watch.granted * Minute <=
      (Minute + (clock - watch.since)) * ConfiguredRate(watch.kind)

\* The seconds since the observer began to look, up to those that fill a
\* bucket.
Span == IF clock - watch.since < Minute THEN clock - watch.since ELSE Minute

\* A refusal is earned: who finds no token in a limiter would, with one more
\* in any interval behind, have had more than the rate in force refills in
\* it.  Neither refusals nor an open circuit nor long pauses cost a client
\* tokens.  (Dangerous operations get even more than they are meant to.)
RefusalEarned ==
  ~Allows(limiters[watch.kind], clock) =>
    (watch.granted + 1) * Minute > Span * RateInForce(watch.kind)

\* In any interval shorter than the window no more than FailureThreshold
\* reads fail at Etsy without one succeeding in between, although a half
\* open circuit lets every request through.  It takes a recovery timeout
\* that is not shorter than the window, as in Guardrails (60 and 60).
FailureBurst ==
  RecoveryTimeout >= WindowSize /\ clock - watch.since < WindowSize =>
    watch.failed <= FailureThreshold

\* An open circuit is left again: whoever goes on asking is let through once
\* the recovery timeout is over, however many requests are refused meanwhile.
\* Only an error recorded meanwhile starts the timeout anew, and a write of
\* the audit log that fails is recorded as one.  (An opened_at so late that
\* the model's clock stops before the timeout is over promises nothing.)
CircuitReopens ==
  LET recoverable == breaker.opened_at + RecoveryTimeout <= MaxClock
  IN  breaker.state = "open" /\ recoverable
        ~> breaker.state # "open" \/ ~recoverable

\* "dangerous ops per 5 minutes" (src/config.py), "Dangerous operations: 1
\* token/5 minutes" (docs/DESIGN.md): in any interval no more of them are let
\* through than the configured number and what the interval refills at that
\* number per five minutes.
FiveMinuteRate ==
  watch.kind = "dangerous" =>
    watch.granted * 5 * Minute <=
      (5 * Minute + (clock - watch.since)) * ConfiguredRate("dangerous")

\* "HALF_OPEN - Recovery timeout passed, testing single request"
\* (docs/DESIGN.md): once the test request has ended, the circuit is closed
\* or open again.
SingleProbe ==
  [][breaker.state = "half_open" /\ serving = "reading" /\ serving' = "idle"
     => breaker'.state # "half_open"]_serverVars

=============================================================================
