----------------------------- MODULE ToolProofs -----------------------------
(***************************************************************************)
(* Proofs, for any numbers, strings and number of arguments a client may   *)
(* try, of the safety of ToolCalls.                                        *)
(***************************************************************************)
EXTENDS ToolCalls, FiniteSetTheorems, TLAPS

-----------------------------------------------------------------------------
(* The tables *)

\* The names of the tools.
LEMMA ToolNames ==
  /\ ReadTools = {"get_shop_info", "list_listings", "get_listing",
                  "get_listing_inventory", "list_orders", "get_order"}
  /\ Tools = ReadTools \cup
               {"update_listing", "update_listing_inventory", "publish_listing",
                "deactivate_listing", "update_shop_info"}
BY DEF ReadTools, Tools, ReadParameters, WriteParameters

\* The parameters of the reads ...
LEMMA ReadTable ==
  /\ DOMAIN Parameters["get_shop_info"] = {}
  /\ DOMAIN Parameters["list_listings"] = {"status", "limit", "offset", "sort_by"}
  /\ DOMAIN Parameters["list_orders"] = {"limit", "offset"}
  /\ DOMAIN Parameters["get_listing"] = {"listing_id"}
  /\ DOMAIN Parameters["get_listing_inventory"] = {"listing_id"}
  /\ DOMAIN Parameters["get_order"] = {"order_id"}
  /\ Parameters["list_listings"]["status"] = Status
  /\ Parameters["list_listings"]["sort_by"] = SortBy
  /\ \A t \in ListTools : /\ Parameters[t]["limit"] = Limit
                          /\ Parameters[t]["offset"] = Offset
  /\ \A t \in {"get_listing", "get_listing_inventory"} :
       Parameters[t]["listing_id"] = Id
  /\ Parameters["get_order"]["order_id"] = Id
<1>1. \A t \in ReadTools : t \in Tools /\ Parameters[t] = ReadParameters[t]
  BY DEF Parameters, Tools
<1> QED
  BY <1>1, ToolNames DEF ReadParameters, ListTools

\* ... and of the writes.
LEMMA WriteTable ==
  /\ DOMAIN Parameters["update_listing"] = {"listing_id", "updates"}
  /\ DOMAIN Parameters["update_listing_inventory"] =
       {"listing_id", "inventory_updates"}
  /\ DOMAIN Parameters["publish_listing"] = {"listing_id"}
  /\ DOMAIN Parameters["deactivate_listing"] = {"listing_id"}
  /\ DOMAIN Parameters["update_shop_info"] = {"updates"}
  /\ \A t \in {"update_listing", "update_listing_inventory", "publish_listing",
               "deactivate_listing"} : Parameters[t]["listing_id"] = Id
  /\ \A t \in {"update_listing", "update_shop_info"} :
       Parameters[t]["updates"] = Object
  /\ Parameters["update_listing_inventory"]["inventory_updates"] = Array
<1>1. \A t \in Tools \ ReadTools : Parameters[t] = WriteParameters[t]
  BY DEF Parameters
<1> QED
  BY <1>1, ToolNames DEF WriteParameters

-----------------------------------------------------------------------------
(* Values *)

\* What takes the place of an integer has a number.
LEMMA IntegersHaveNumbers ==
  ASSUME NEW v \in Values(Ints, Texts), IsInstance(v, "integer")
  PROVE  v.kind \in {"int", "bool"} /\ v.n \in Int /\ Integral(v)
<1>1. v.kind \in {"int", "bool"}
  BY DEF IsInstance, PythonTypes
<1>2. CASE v \in {Number(kind, n) : kind \in {"int", "float"}, n \in Ints}
  <2>1. PICK kind \in {"int", "float"}, n \in Ints : v = Number(kind, n)
    BY <1>2
  <2> QED
    BY <1>1, <2>1, ArgumentsAssumption DEF Number, Integral
<1>3. CASE v \in {Number("bool", n) : n \in {0, 1}}
  BY <1>1, <1>3 DEF Number, Integral
<1>4. CASE \/ v \in {Text(text) : text \in Texts}
           \/ v \in {Dict(empty) : empty \in BOOLEAN}
           \/ v \in {List(items) : items \in SUBSET Items}
           \/ v = Null
  <2>1. v.kind \in {"str", "dict", "list", "NoneType"}
    BY <1>4 DEF Text, Dict, List, Null
  <2> QED
    BY <1>1, <2>1
<1> QED
  BY <1>2, <1>3, <1>4 DEF Values

\* What the base class accepts for the schemas of the tools.
LEMMA AcceptedValues ==
  ASSUME NEW v \in Values(Ints, Texts)
  PROVE  /\ ValueValid(v, Id) => Integral(v) /\ v.n \in Int /\ v.n >= 1
         /\ ValueValid(v, Limit) => Integral(v) /\ v.n \in 1 .. 100
         /\ ValueValid(v, Offset) => Integral(v) /\ v.n \in Int /\ v.n >= 0
         /\ ValueValid(v, Status) => v.text \in Status.enum_values
         /\ ValueValid(v, SortBy) => v.text \in SortBy.enum_values
<1>1. Id.param_type = "integer" /\ Limit.param_type = "integer"
      /\ Offset.param_type = "integer"
  BY DEF Id, Limit, Offset, ParameterSchema
<1>2. IsInstance(v, "integer") => /\ v.kind \in Numeric /\ v.n \in Int
                                  /\ Integral(v)
  BY IntegersHaveNumbers DEF Numeric
<1>3. /\ Id.min_value = {1} /\ Offset.min_value = {0}
      /\ Limit.min_value = {1} /\ Limit.max_value = {100}
      /\ Status.enum_values # {} /\ SortBy.enum_values # {}
  BY DEF Id, Limit, Offset, Status, SortBy, ParameterSchema
<1> QED
  BY <1>1, <1>2, <1>3 DEF ValueValid

-----------------------------------------------------------------------------
(* Requests *)

\* The arguments of a call that passed validation: an object, and unless
\* get_shop_info is called, with the required parameters, declared ones only,
\* each acceptable to the base class and to the tool.
LEMMA AcceptedArguments ==
  ASSUME NEW tool \in Tools, tool # "get_shop_info",
         NEW args \in Arguments(tool), Valid(tool, args)
  PROVE  /\ args # NotAnObject
         /\ \A p \in DOMAIN args : args[p] \in Values(Ints, Texts)
         /\ Required(tool) \subseteq DOMAIN args
         /\ DOMAIN args \subseteq DOMAIN Parameters[tool]
         /\ \A p \in DOMAIN args : ValueValid(args[p], Parameters[tool][p])
         /\ ToolValid(tool, args)
<1>1. ~Raises(tool, args) /\ BaseValid(tool, args) /\ ToolValid(tool, args)
  BY DEF Valid
<1>2. args # NotAnObject
  BY <1>1 DEF Raises
<1>3. PICK D : args \in [D -> Values(Ints, Texts)]
  BY <1>2 DEF Arguments
<1> QED
  BY <1>1, <1>2, <1>3 DEF BaseValid

\* What is taken of a page is one.
LEMMA PageFits ==
  ASSUME NEW tool \in ListTools, NEW args \in Arguments(tool),
         Valid(tool, args)
  PROVE  LET q == Query(tool, args)
         IN  /\ Integral(q.limit) /\ q.limit.n \in 1 .. 100
             /\ Integral(q.offset) /\ q.offset.n >= 0
<1> DEFINE limit  == Get(args, "limit", Number("int", 20))
           offset == Get(args, "offset", Number("int", 0))
<1>1. /\ tool \in Tools /\ tool # "get_shop_info"
      /\ Parameters[tool]["limit"] = Limit
      /\ Parameters[tool]["offset"] = Offset
  BY ToolNames, ReadTable DEF ListTools
<1>2. Integral(limit) /\ limit.n \in 1 .. 100
  <2>1. CASE "limit" \in DOMAIN args
    BY <1>1, <2>1, AcceptedArguments, AcceptedValues DEF Get
  <2>2. CASE "limit" \notin DOMAIN args
    BY <2>2 DEF Get, Number, Integral
  <2> QED
    BY <2>1, <2>2
<1>3. Integral(offset) /\ offset.n >= 0
  <2>1. CASE "offset" \in DOMAIN args
    BY <1>1, <2>1, AcceptedArguments, AcceptedValues DEF Get
  <2>2. CASE "offset" \notin DOMAIN args
    BY <2>2 DEF Get, Number, Integral
  <2> QED
    BY <2>1, <2>2
<1> HIDE DEF limit, offset
<1>4. Capped(limit) = limit
  BY <1>2 DEF Capped
<1>5. Query(tool, args).limit = Capped(limit) /\ Query(tool, args).offset = offset
  BY DEF Query, ListTools, limit, offset
<1> QED
  BY <1>2, <1>3, <1>4, <1>5

\* What is taken of the filters is known to Etsy.
LEMMA FilterFits ==
  ASSUME NEW args \in Arguments("list_listings"), Valid("list_listings", args)
  PROVE  LET q == Query("list_listings", args)
         IN  /\ q.status.text \in Status.enum_values
             /\ q.sort_by.text \in SortBy.enum_values
<1> DEFINE status  == Get(args, "status", Text("active"))
           sort_by == Get(args, "sort_by", Text("created"))
<1>1. /\ "list_listings" \in Tools
      /\ Parameters["list_listings"]["status"] = Status
      /\ Parameters["list_listings"]["sort_by"] = SortBy
  BY ToolNames, ReadTable
<1>2. status.text \in Status.enum_values
  <2>1. CASE "status" \in DOMAIN args
    BY <1>1, <2>1, AcceptedArguments, AcceptedValues DEF Get
  <2>2. CASE "status" \notin DOMAIN args
    BY <2>2 DEF Get, Text, Status, ParameterSchema
  <2> QED
    BY <2>1, <2>2
<1>3. sort_by.text \in SortBy.enum_values
  <2>1. CASE "sort_by" \in DOMAIN args
    BY <1>1, <2>1, AcceptedArguments, AcceptedValues DEF Get
  <2>2. CASE "sort_by" \notin DOMAIN args
    BY <2>2 DEF Get, Text, SortBy, ParameterSchema
  <2> QED
    BY <2>1, <2>2
<1> QED
  BY <1>2, <1>3 DEF Query

\* The id in a path is a positive integer.
LEMMA IdsFit ==
  ASSUME NEW tool \in Tools, NEW args \in Arguments(tool), Valid(tool, args)
  PROVE  \A v \in PathIds(tool, args) : Integral(v) /\ v.n >= 1
<1> DEFINE ids == DOMAIN Parameters[tool] \cap {"listing_id", "order_id"}
<1>1. ids # {} => /\ tool # "get_shop_info"
                  /\ Required(tool) = DOMAIN Parameters[tool]
  BY ReadTable, ToolNames DEF Required, ListTools
<1>2. \A p \in ids : Parameters[tool][p] = Id
  BY ReadTable, WriteTable, ToolNames
<1>3. \A p \in ids : Integral(args[p]) /\ args[p].n >= 1
  BY <1>1, <1>2, AcceptedArguments, AcceptedValues
<1> QED
  BY <1>3 DEF PathIds

\* A write has a body that says something, a read has none.
LEMMA BodyFits ==
  ASSUME NEW tool \in Tools, NEW args \in Arguments(tool), Valid(tool, args)
  PROVE  /\ Body(tool, args) = {} <=> Method(tool) = "GET"
         /\ \A b \in Body(tool, args) :
              \/ b.kind = "dict" /\ ~b.empty
              \/ b.kind = "list" /\ b.items = {"complete"}
              \/ b.kind = "str" /\ b.text \in {"active", "inactive"}
<1>1. CASE tool \in ReadTools
  BY <1>1, ToolNames DEF Body, Method
<1>2. CASE tool \in {"update_listing", "update_shop_info"}
  <2>1. "updates" \in DOMAIN args
    BY <1>2, WriteTable, ToolNames, AcceptedArguments DEF Required, ListTools
  <2>2. UpdatesValid(args["updates"])
    BY <1>2, <2>1, AcceptedArguments DEF ToolValid
  <2> QED
    BY <1>2, <2>2, ToolNames DEF Body, Method, UpdatesValid
<1>3. CASE tool = "update_listing_inventory"
  <2>1. "inventory_updates" \in DOMAIN args
    BY <1>3, WriteTable, ToolNames, AcceptedArguments DEF Required, ListTools
  <2>2. InventoryValid(args["inventory_updates"])
    BY <1>3, <2>1, AcceptedArguments DEF ToolValid
  <2> QED
    BY <1>3, <2>2, ToolNames DEF Body, Method, InventoryValid
<1>4. CASE tool \in {"publish_listing", "deactivate_listing"}
  <2>1. tool \notin ReadTools /\ Method(tool) # "GET"
    BY <1>4, ToolNames DEF Method
  <2>2. PICK text \in {"active", "inactive"} : Body(tool, args) = {Text(text)}
    BY <1>4 DEF Body
  <2>3. Text(text).kind = "str" /\ Text(text).text = text
    BY DEF Text
  <2> QED
    BY <2>1, <2>2, <2>3
<1> QED
  BY <1>1, <1>2, <1>3, <1>4, ToolNames

\* So whatever passes validation becomes a request that makes sense.
LEMMA RequestFits ==
  ASSUME NEW tool \in Tools, NEW args \in Arguments(tool), Valid(tool, args)
  PROVE  WellFormed(Request(tool, args))
<1> DEFINE r == Request(tool, args)
           q == Query(tool, args)
<1>1. /\ r.ids = PathIds(tool, args) /\ r.query = q
      /\ r.body = Body(tool, args) /\ r.method = Method(tool)
  BY DEF Request
<1> HIDE DEF r
<1>2. /\ "limit" \in DOMAIN q \/ "offset" \in DOMAIN q => tool \in ListTools
      /\ "status" \in DOMAIN q \/ "sort_by" \in DOMAIN q => tool = "list_listings"
  BY DEF Query, ListTools
<1>3. /\ "limit" \in DOMAIN q => Integral(q.limit) /\ q.limit.n \in 1 .. 100
      /\ "offset" \in DOMAIN q => Integral(q.offset) /\ q.offset.n >= 0
  BY <1>2, PageFits
<1>4. /\ "status" \in DOMAIN q => q.status.text \in Status.enum_values
      /\ "sort_by" \in DOMAIN q => q.sort_by.text \in SortBy.enum_values
  BY <1>2, FilterFits
<1> HIDE DEF q
<1>5. WellFormed(r)
  BY <1>1, <1>3, <1>4, IdsFit, BodyFits DEF WellFormed
<1> QED
  BY <1>5 DEF r

-----------------------------------------------------------------------------
(* Steps *)

\* The call in hand is one a client can send; a request has left, or an
\* approval is promised, only for arguments that passed validation, and the
\* process has died only of arguments on which validation raises.
CallInv ==
  /\ process \in {"ready", "serving", "executing", "answered", "dead"}
  /\ answer \in {"none", "validation_failed", "rate_limit_exceeded",
                 "pending_approval", "result", "error"}
  /\ process = "ready" <=> call = NoCall
  /\ call # NoCall => call.tool \in Tools /\ call.args \in Arguments(call.tool)
  /\ process \in {"ready", "serving"} => answer = "none" /\ sent = {}
  /\ sent # {} => /\ call # NoCall
                  /\ sent = {Request(call.tool, call.args)}
                  /\ Valid(call.tool, call.args)
  /\ answer = "pending_approval" => call # NoCall /\ Valid(call.tool, call.args)
  /\ process = "dead" => Raises(call.tool, call.args)

LEMMA CallStep == CallInv /\ [Next]_callVars => CallInv'
<1> SUFFICES ASSUME CallInv, [Next]_callVars PROVE CallInv'
  OBVIOUS
<1>1. ASSUME NEW tool \in Tools, NEW args \in Arguments(tool), Receive(tool, args)
      PROVE  CallInv'
  BY <1>1, NoCallAssumption DEF Receive, CallInv
<1>2. CASE Die
  BY <1>2 DEF Die, CallInv
<1>3. CASE Reject \/ Refuse
  BY <1>3 DEF Reject, Refuse, Answer, CallInv
<1>4. CASE ExecuteRead \/ ExecuteStored
  BY <1>4 DEF ExecuteRead, ExecuteStored, Execute, CallInv
<1>5. CASE Pend
  BY <1>5 DEF Pend, Answer, CallInv
<1>6. CASE Succeed \/ Fail
  BY <1>6 DEF Succeed, Fail, Answer, CallInv
<1>7. CASE NextRequest
  BY <1>7 DEF NextRequest, CallInv
<1>8. CASE UNCHANGED callVars
  BY <1>8 DEF callVars, CallInv
<1> QED
  BY <1>1, <1>2, <1>3, <1>4, <1>5, <1>6, <1>7, <1>8 DEF Next

\* What raises is no object, or has a limit or an offset of a type the base
\* class and the schema refuse.
LEMMA RaisesOnRefused ==
  ASSUME NEW tool \in Tools, NEW args, Raises(tool, args), args # NotAnObject
  PROVE  ~BaseValid(tool, args) /\ ~Conforms(tool, args)
<1>1. /\ tool \in ListTools
      /\ \E p \in {"limit", "offset"} \cap DOMAIN args : args[p].kind \notin Numeric
  BY DEF Raises
<1>2. PICK p \in {"limit", "offset"} \cap DOMAIN args : args[p].kind \notin Numeric
  BY <1>1
<1>3. /\ p \in DOMAIN Parameters[tool]
      /\ Parameters[tool][p].param_type = "integer"
  BY <1>1, <1>2, ReadTable DEF ListTools, Limit, Offset, ParameterSchema
<1>4. PythonTypes["integer"] \subseteq Numeric /\ JsonTypes["integer"] \subseteq Numeric
  BY DEF PythonTypes, JsonTypes, Numeric
<1>5. ~ValueValid(args[p], Parameters[tool][p])
      /\ ~SchemaAllows(args[p], Parameters[tool][p])
  BY <1>2, <1>3, <1>4 DEF ValueValid, SchemaAllows, IsInstance
<1> QED
  BY <1>2, <1>3, <1>5 DEF BaseValid, Conforms

\* What passes validation keeps to the schema, but for booleans.
LEMMA ValidConforms ==
  ASSUME NEW tool \in Tools, NEW args \in Arguments(tool), Valid(tool, args),
         tool # "get_shop_info", ~ \E p \in DOMAIN args : args[p].kind = "bool"
  PROVE  Conforms(tool, args)
<1>1. \A p \in DOMAIN args \cap DOMAIN Parameters[tool] :
        SchemaAllows(args[p], Parameters[tool][p])
  <2> SUFFICES ASSUME NEW p \in DOMAIN args \cap DOMAIN Parameters[tool]
               PROVE  SchemaAllows(args[p], Parameters[tool][p])
    OBVIOUS
  <2> DEFINE schema == Parameters[tool][p]
  <2>1. ValueValid(args[p], schema) /\ args[p].kind # "bool"
    BY AcceptedArguments
  <2>2. schema.param_type \in {"integer", "string", "object", "array"}
    BY ToolNames, ReadTable, WriteTable
       DEF ListTools, Id, Limit, Offset, Status, SortBy, Object, Array,
           ParameterSchema
  <2>3. args[p].kind \in JsonTypes[schema.param_type]
    BY <2>1, <2>2 DEF ValueValid, IsInstance, PythonTypes, JsonTypes
  <2> QED
    BY <2>1, <2>3 DEF ValueValid, SchemaAllows
<1> QED
  BY <1>1, AcceptedArguments DEF Conforms

-----------------------------------------------------------------------------
(* Theorems *)

\* The invariant of a call holds in every reachable state.
THEOREM CallInvariant == Spec => []CallInv
<1>1. Init => CallInv
  BY DEF Init, CallInv
<1> QED
  BY <1>1, CallStep, PTL DEF Spec

\* Every variable has its type, and at most one request leaves for a call.
THEOREM CallsTyped == Spec => []TypeOK
<1>1. CallInv => TypeOK
  <2> SUFFICES ASSUME CallInv PROVE TypeOK
    OBVIOUS
  <2>1. Cardinality(sent) <= 1
    <3>1. CASE sent = {}
      BY <3>1, FS_EmptySet
    <3>2. CASE sent # {}
      <4>1. PICK r : sent = {r}
        BY <3>2 DEF CallInv
      <4>2. Cardinality({r}) = 1
        BY FS_Singleton
      <4> QED
        BY <4>1, <4>2
    <3> QED
      BY <3>1, <3>2
  <2> QED
    BY <2>1 DEF CallInv, TypeOK
<1> QED
  BY <1>1, CallInvariant, PTL

\* Whatever numbers and strings clients send, and however many arguments,
\* every request that leaves for Etsy makes sense.
THEOREM RequestsFit == Spec => []RequestsWellFormed
<1>1. CallInv => RequestsWellFormed
  BY RequestFits DEF CallInv, RequestsWellFormed
<1> QED
  BY <1>1, CallInvariant, PTL

\* A call that keeps to the advertised schema does not end the server, and
\* what is executed or promised keeps to it, but for booleans as integers.
THEOREM SchemaHolds == Spec => []SchemaIsContract
<1>1. CallInv => SchemaIsContract
  <2> SUFFICES ASSUME CallInv, call # NoCall
               PROVE  /\ Conforms(call.tool, call.args) => process # "dead"
                      /\ sent # {} \/ answer = "pending_approval" =>
                           \/ call.tool = "get_shop_info"
                           \/ Conforms(call.tool, call.args)
                           \/ \E p \in DOMAIN call.args : call.args[p].kind = "bool"
    BY DEF SchemaIsContract
  <2>1. Conforms(call.tool, call.args) => process # "dead"
    BY RaisesOnRefused DEF CallInv, Conforms
  <2>2. sent # {} \/ answer = "pending_approval" =>
          \/ call.tool = "get_shop_info"
          \/ Conforms(call.tool, call.args)
          \/ \E p \in DOMAIN call.args : call.args[p].kind = "bool"
    BY ValidConforms DEF CallInv
  <2> QED
    BY <2>1, <2>2
<1> QED
  BY <1>1, CallInvariant, PTL

\* A call that ends the server was one the base class found an error in.
THEOREM OnlyInvalidKill == Spec => []OnlyInvalidCallsKill
<1>1. CallInv => OnlyInvalidCallsKill
  BY RaisesOnRefused DEF CallInv, OnlyInvalidCallsKill
<1> QED
  BY <1>1, CallInvariant, PTL

=============================================================================
