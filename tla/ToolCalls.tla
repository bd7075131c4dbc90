----------------------------- MODULE ToolCalls -----------------------------
(***************************************************************************)
(* One call of a tool, from the request to the answer: call_tool of        *)
(* src/server.py with the operation definitions and EtsyAPI behind it.     *)
(* The server takes one request at a time.  A read is executed at once; a  *)
(* write is answered with "pending_approval", and whoever keeps operations *)
(* may have it executed later with the same arguments, as the queue does,  *)
(* without validating them again.  Rate limits and the audit log are in    *)
(* module Server: here they only make some calls end early.                *)
(***************************************************************************)
EXTENDS Tools, FiniteSets

CONSTANTS
  Ints,     \* the numbers clients try
  Texts,    \* the strings clients try
  MaxArgs,  \* bound on the arguments of a call
  NoCall

ASSUME ArgumentsAssumption == Ints \subseteq Int /\ MaxArgs \in Nat

VARIABLES
  process,  \* "ready", "serving", "executing", "answered" or "dead"
  call,     \* the tool call in hand
  sent,     \* the request made to Etsy for it, if any
  answer    \* what the client has been told

callVars == <<process, call, sent, answer>>

\* Any arguments, declared or not, of any type.
Arguments(tool) ==
  LET names == DOMAIN Parameters[tool] \cup {"undeclared"}
  IN  {NotAnObject} \cup
        UNION {[D -> Values(Ints, Texts)] :
                 D \in {D \in SUBSET names : Cardinality(D) <= MaxArgs}}

\* The server either has a call in hand or none.
ASSUME NoCallAssumption ==
  \A tool \in Tools : \A args \in Arguments(tool) :
    [tool |-> tool, args |-> args] # NoCall

Init ==
  /\ process = "ready"
  /\ call = NoCall
  /\ sent = {}
  /\ answer = "none"

\* handle_request of a call_tool; the registry knows the tool.
Receive(tool, args) ==
  /\ process = "ready"
  /\ process' = "serving"
  /\ call' = [tool |-> tool, args |-> args]
  /\ UNCHANGED <<sent, answer>>

Answer(text) ==
  /\ process' = "answered"
  /\ answer' = text
  /\ UNCHANGED <<call, sent>>

\* op_def.execute(api, arguments)
Execute ==
  /\ process' = "executing"
  /\ sent' = {Request(call.tool, call.args)}
  /\ UNCHANGED <<call, answer>>

\* validate raises outside the try, and main catches JSON errors only.
Die ==
  /\ process = "serving"
  /\ Raises(call.tool, call.args)
  /\ process' = "dead"
  /\ UNCHANGED <<call, sent, answer>>

Reject ==
  /\ process = "serving"
  /\ ~Raises(call.tool, call.args)
  /\ ~Valid(call.tool, call.args)
  /\ Answer("validation_failed")

\* The limiter has no token, or the circuit is open.
Refuse ==
  /\ process = "serving"
  /\ Valid(call.tool, call.args)
  /\ Answer("rate_limit_exceeded")

\* _execute_read
ExecuteRead ==
  /\ process = "serving"
  /\ Valid(call.tool, call.args)
  /\ call.tool \in ReadTools
  /\ Execute

\* _execute_write_pending
Pend ==
  /\ process = "serving"
  /\ Valid(call.tool, call.args)
  /\ call.tool \notin ReadTools
  /\ Answer("pending_approval")

\* The operation is kept, and the queue executes it.
ExecuteStored ==
  /\ process = "answered"
  /\ answer = "pending_approval"
  /\ Execute

\* Etsy answers with what the method of EtsyAPI can read ...
Succeed == process = "executing" /\ Answer("result")

\* ... or the method raises: no answer in time, an HTTP error, no JSON, or a
\* body without the shape expected.
Fail == process = "executing" /\ Answer("error")

\* The call is not let go of.
NextRequestKept ==
  /\ process \in {"answered", "dead"}
  /\ process' = "ready"
  /\ sent' = {}
  /\ answer' = "none"
  /\ UNCHANGED call

\* The answer is printed and the next line read; a dead server is started
\* again by its host.
NextRequest ==
  /\ process \in {"answered", "dead"}
  /\ process' = "ready"
  /\ call' = NoCall
  /\ sent' = {}
  /\ answer' = "none"

Next ==
  \/ \E tool \in Tools : \E args \in Arguments(tool) : Receive(tool, args)
  \/ Die \/ Reject \/ Refuse \/ ExecuteRead \/ Pend \/ ExecuteStored
  \/ Succeed \/ Fail \/ NextRequest

Spec == Init /\ [][Next]_callVars

-----------------------------------------------------------------------------
(* Properties *)

\* Types.
TypeOK ==
  /\ process \in {"ready", "serving", "executing", "answered", "dead"}
  /\ call # NoCall => call.tool \in Tools
  /\ process = "ready" <=> call = NoCall
  /\ Cardinality(sent) <= 1
  /\ answer \in {"none", "validation_failed", "rate_limit_exceeded",
                 "pending_approval", "result", "error"}

\* Whatever a client sends, a request that leaves for Etsy makes sense,
\* although each limit is checked in another place: in the schema, in the
\* tool, in the method of EtsyAPI, or in none.
RequestsWellFormed == \A r \in sent : WellFormed(r)

\* The schema that list_tools advertises is the contract: a call that keeps
\* to it does not end the server, and what is executed or promised keeps to
\* it, but for booleans given as integers and what get_shop_info is sent.
SchemaIsContract ==
  call # NoCall =>
    LET t == call.tool
        a == call.args
    IN  /\ Conforms(t, a) => process # "dead"
        /\ sent # {} \/ answer = "pending_approval" =>
             \/ t = "get_shop_info"
             \/ Conforms(t, a)
             \/ \E p \in DOMAIN a : a[p].kind = "bool"

\* A call that ends the server was wrong already: the base class has found an
\* error by the time the comparison raises, so no call is lost that would
\* otherwise be executed.
OnlyInvalidCallsKill ==
  process = "dead" =>
    call.args = NotAnObject \/ ~BaseValid(call.tool, call.args)

=============================================================================
