------------------------------- MODULE Config -------------------------------
(***************************************************************************)
(* Config.load of src/config.py: the defaults of the code, overridden by   *)
(* ~/.etsy-mcp/config.json, by ./.etsy-mcp/config.json and by environment  *)
(* variables.  Kept are the keys that decide whether and how the server    *)
(* runs; of a value, what the code tells apart: a number, a string that    *)
(* reads as a number ("digits"), any other string ("word"), the empty      *)
(* string, and null (a container is refused wherever null is).             *)
(***************************************************************************)
EXTENDS Integers

CONSTANTS
  ReadRate, WriteRate, DangerousRate,  \* the defaults of the code
  Corrupt                              \* a file that is no JSON object

Number(n) == [kind |-> "number", n |-> n]
Digits(n) == [kind |-> "digits", n |-> n]
Word      == [kind |-> "word", n |-> 0]
Empty     == [kind |-> "empty", n |-> 0]
Null      == [kind |-> "null", n |-> 0]

RateKeys == {"read_rate_limit", "write_rate_limit", "dangerous_rate_limit"}
Keys     == RateKeys \cup {"etsy_api_key", "vault_password"}

Value == [kind: {"number", "digits", "word", "empty", "null"}, n: Int]

\* A level gives some keys a value; a file that is missing gives none.
IsLevel(level) ==
  /\ DOMAIN level \subseteq Keys
  /\ \A k \in DOMAIN level : level[k] \in Value

\* What load() finds; environment variables are strings.
IsSource(s) ==
  /\ s.master # Corrupt => IsLevel(s.master)
  /\ s.repo # Corrupt => IsLevel(s.repo)
  /\ IsLevel(s.env)
  /\ \A k \in DOMAIN s.env : s.env[k].kind \in {"digits", "word", "empty"}

Defaults == [read_rate_limit      |-> Number(ReadRate),
             write_rate_limit     |-> Number(WriteRate),
             dangerous_rate_limit |-> Number(DangerousRate),
             etsy_api_key         |-> Empty,
             vault_password       |-> Empty]

\* setattr for the keys the object has; the others are skipped.
Override(config, level) ==
  [k \in Keys |-> IF k \in DOMAIN level THEN level[k] ELSE config[k]]

\* int(value) for the rates.  (tls_verify and request_timeout, converted as
\* well, are read by nothing.)
Converted(env) ==
  [k \in DOMAIN env |-> IF k \in RateKeys THEN Number(env[k].n) ELSE env[k]]

\* The files are taken in the wrong order.
LoadMasterLast(s) ==
  Override(Override(Override(Defaults, s.repo), s.master), Converted(s.env))

\* load(), when it returns.
Load(s) ==
  Override(Override(Override(Defaults, s.master), s.repo), Converted(s.env))

Truthy(v) == v.kind \in {"digits", "word"} \/ (v.kind = "number" /\ v.n # 0)

\* load() returns: both files are objects, int() reads the rates of the
\* environment, and there are a key and a password.
Loads(s) ==
  /\ s.master # Corrupt /\ s.repo # Corrupt
  /\ \A k \in DOMAIN s.env \cap RateKeys : s.env[k].kind = "digits"
  /\ Truthy(Load(s).etsy_api_key)
  /\ Truthy(Load(s).vault_password)

=============================================================================
