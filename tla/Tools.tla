------------------------------- MODULE Tools -------------------------------
(***************************************************************************)
(* The operation definitions of src/tools: their parameters, validate(),   *)
(* and the request to Etsy that execute() makes through EtsyAPI.           *)
(*                                                                         *)
(* An argument is a JSON value as Python reads it.  What validation and    *)
(* execution tell apart is kept: its Python type, the number of an int, a  *)
(* bool (0 or 1) or a float, the text of a string, whether a dict is       *)
(* empty, and which kinds of elements a list has.  The list of errors is   *)
(* abstracted to whether it is empty.                                      *)
(***************************************************************************)
EXTENDS Integers

CONSTANT NotAnObject  \* the "arguments" of a request that are no JSON object

Number(kind, n) == [kind |-> kind, n |-> n]
Text(text)      == [kind |-> "str", text |-> text]
Dict(empty)     == [kind |-> "dict", empty |-> empty]
List(items)     == [kind |-> "list", items |-> items]
Null            == [kind |-> "NoneType"]

Numeric == {"int", "bool", "float"}

\* What the elements of inventory_updates can be: a dict with both keys, a
\* dict that lacks one, no dict.
Items == {"complete", "partial", "scalar"}

Values(Ints, Texts) ==
  {Number(kind, n) : kind \in {"int", "float"}, n \in Ints}
    \cup {Number("bool", n) : n \in {0, 1}}
    \cup {Text(text) : text \in Texts}
    \cup {Dict(empty) : empty \in BOOLEAN}
    \cup {List(items) : items \in SUBSET Items}
    \cup {Null}

-----------------------------------------------------------------------------
(* ParameterSchema and the tables of the tools *)

\* None is the empty set; min_value and max_value are sets of one number.
ParameterSchema(type, enum, min, max) ==
  [param_type |-> type, enum_values |-> enum,
   min_value |-> min, max_value |-> max]

Id     == ParameterSchema("integer", {}, {1}, {})
Limit  == ParameterSchema("integer", {}, {1}, {100})
Offset == ParameterSchema("integer", {}, {0}, {})
Status == ParameterSchema("string", {"active", "draft", "sold_out"}, {}, {})
SortBy == ParameterSchema("string", {"created", "updated", "price"}, {}, {})
Object == ParameterSchema("object", {}, {}, {})
Array  == ParameterSchema("array", {}, {}, {})

ReadParameters == [
  get_shop_info         |-> [p \in {} |-> Id],
  list_listings         |-> [status |-> Status, limit |-> Limit,
                             offset |-> Offset, sort_by |-> SortBy],
  get_listing           |-> [listing_id |-> Id],
  get_listing_inventory |-> [listing_id |-> Id],
  list_orders           |-> [limit |-> Limit, offset |-> Offset],
  get_order             |-> [order_id |-> Id]]

WriteParameters == [
  update_listing           |-> [listing_id |-> Id, updates |-> Object],
  update_listing_inventory |-> [listing_id |-> Id, inventory_updates |-> Array],
  publish_listing          |-> [listing_id |-> Id],
  deactivate_listing       |-> [listing_id |-> Id],
  update_shop_info         |-> [updates |-> Object]]

ReadTools == DOMAIN ReadParameters

\* REGISTRY, once both modules of src/tools are imported.
Tools == ReadTools \cup DOMAIN WriteParameters

Parameters == [t \in Tools |-> IF t \in ReadTools THEN ReadParameters[t]
                                                  ELSE WriteParameters[t]]

ListTools == {"list_listings", "list_orders"}

\* required_params
Required(tool) == IF tool \in ListTools THEN {} ELSE DOMAIN Parameters[tool]

-----------------------------------------------------------------------------
(* validate *)

\* Any number is taken for an integer.
PythonTypesLoose == [string |-> {"str"}, integer |-> Numeric,
                     number |-> Numeric, boolean |-> {"bool"},
                     array |-> {"list"}, object |-> {"dict"}]

\* type_mapping; a bool is an int to isinstance.
PythonTypes == [string |-> {"str"}, integer |-> {"int", "bool"},
                number |-> Numeric, boolean |-> {"bool"},
                array |-> {"list"}, object |-> {"dict"}]

IsInstance(v, type) == v.kind \in PythonTypes[type]

\* The type check alone.
ValueValidByType(v, schema) == IsInstance(v, schema.param_type)

\* No error of the base class for a declared parameter.
ValueValid(v, schema) ==
  /\ IsInstance(v, schema.param_type)
  /\ schema.enum_values # {} => v.text \in schema.enum_values
  /\ v.kind \in Numeric => /\ \A m \in schema.min_value : v.n >= m
                           /\ \A m \in schema.max_value : v.n <= m

\* BaseOperationDef.validate returns no error.
BaseValid(tool, args) ==
  /\ Required(tool) \subseteq DOMAIN args
  /\ DOMAIN args \subseteq DOMAIN Parameters[tool]
  /\ \A p \in DOMAIN args : ValueValid(args[p], Parameters[tool][p])

\* The tools look at most arguments once more: at limit and offset whatever
\* their type is, at ids and containers after their type.
PageValid(p, v) == IF p = "limit" THEN 1 <= v.n /\ v.n <= 100 ELSE v.n >= 0

IdValid(v) == IsInstance(v, "integer") /\ v.n >= 1

UpdatesValid(v) == v.kind = "dict" /\ ~v.empty

InventoryValid(v) == v.kind = "list" /\ v.items = {"complete"}

\* The tool's own validate adds no error.
ToolValid(tool, args) ==
  \A p \in DOMAIN args :
    CASE p \in {"limit", "offset"} /\ tool \in ListTools -> PageValid(p, args[p])
      [] p \in {"listing_id", "order_id"} -> IdValid(args[p])
      [] p = "updates"                    -> UpdatesValid(args[p])
      [] p = "inventory_updates"          -> InventoryValid(args[p])
      [] OTHER                            -> TRUE

\* A parameter that is not given is compared as well: None, or a KeyError.
RaisesUnlessGiven(tool, args) ==
  \/ tool # "get_shop_info" /\ args = NotAnObject
  \/ /\ args # NotAnObject
     /\ tool \in ListTools
     /\ \E p \in {"limit", "offset"} :
          p \notin DOMAIN args \/ args[p].kind \notin Numeric

\* validate raises: the arguments have no items(), or a comparison of limit
\* or offset with a number is a TypeError.  get_shop_info looks at nothing.
Raises(tool, args) ==
  \/ tool # "get_shop_info" /\ args = NotAnObject
  \/ /\ args # NotAnObject
     /\ tool \in ListTools
     /\ \E p \in {"limit", "offset"} \cap DOMAIN args :
          args[p].kind \notin Numeric

\* validate returns an empty list.
Valid(tool, args) ==
  tool # "get_shop_info" =>
    ~Raises(tool, args) /\ BaseValid(tool, args) /\ ToolValid(tool, args)

-----------------------------------------------------------------------------
(* get_tool_schema: what list_tools tells a client, read as JSON Schema.    *)
(* There neither a boolean nor 1.0 is an integer (draft 4), and undeclared  *)
(* properties are allowed.                                                  *)

JsonTypes == [PythonTypes EXCEPT !["integer"] = {"int"}]

SchemaAllows(v, schema) ==
  /\ v.kind \in JsonTypes[schema.param_type]
  /\ schema.enum_values # {} => v.text \in schema.enum_values
  /\ v.kind \in Numeric => /\ \A m \in schema.min_value : v.n >= m
                           /\ \A m \in schema.max_value : v.n <= m

Conforms(tool, args) ==
  /\ args # NotAnObject
  /\ Required(tool) \subseteq DOMAIN args
  /\ \A p \in DOMAIN args \cap DOMAIN Parameters[tool] :
       SchemaAllows(args[p], Parameters[tool][p])

-----------------------------------------------------------------------------
(* execute, and the method of EtsyAPI it calls *)

\* arguments.get(p, default)
Get(args, p, default) == IF p \in DOMAIN args THEN args[p] ELSE default

\* min(limit, 100)
Capped(v) == IF v.n > 100 THEN Number("int", 100) ELSE v

Method(tool) == IF tool \in ReadTools THEN "GET"
                ELSE IF tool = "update_listing_inventory" THEN "PUT" ELSE "PATCH"

Path == [
  get_shop_info            |-> "/shops/{shop_id}",
  list_listings            |-> "/shops/{shop_id}/listings",
  get_listing              |-> "/listings/{id}",
  get_listing_inventory    |-> "/listings/{id}/inventory",
  list_orders              |-> "/shops/{shop_id}/orders",
  get_order                |-> "/orders/{id}",
  update_listing           |-> "/listings/{id}",
  update_listing_inventory |-> "/listings/{id}/inventory",
  publish_listing          |-> "/listings/{id}",
  deactivate_listing       |-> "/listings/{id}",
  update_shop_info         |-> "/shops/{shop_id}"]

\* The id in the path, if there is one.
PathIds(tool, args) ==
  {args[p] : p \in DOMAIN Parameters[tool] \cap {"listing_id", "order_id"}}

\* The query of the two listings.
Query(tool, args) ==
  CASE tool = "list_listings" ->
         [status  |-> Get(args, "status", Text("active")),
          limit   |-> Capped(Get(args, "limit", Number("int", 20))),
          offset  |-> Get(args, "offset", Number("int", 0)),
          sort_by |-> Get(args, "sort_by", Text("created"))]
    [] tool = "list_orders" ->
         [limit   |-> Capped(Get(args, "limit", Number("int", 20))),
          offset  |-> Get(args, "offset", Number("int", 0))]
    [] OTHER -> [p \in {} |-> Null]

\* The JSON body of a write.
Body(tool, args) ==
  CASE tool \in {"update_listing", "update_shop_info"} -> {args["updates"]}
    [] tool = "update_listing_inventory"              -> {args["inventory_updates"]}
    [] tool = "publish_listing"                       -> {Text("active")}
    [] tool = "deactivate_listing"                    -> {Text("inactive")}
    [] OTHER                                          -> {}

Request(tool, args) ==
  [method |-> Method(tool), path |-> Path[tool], ids |-> PathIds(tool, args),
   query |-> Query(tool, args), body |-> Body(tool, args)]

\* Written without a fraction (a boolean reads True or False).
Integral(v) == v.kind \in {"int", "bool"}

\* A request Etsy can make sense of: a page of one to a hundred rows, a known
\* filter, a positive id, and a body that says something.
WellFormed(r) ==
  /\ \A v \in r.ids : Integral(v) /\ v.n >= 1
  /\ "limit" \in DOMAIN r.query =>
       Integral(r.query.limit) /\ r.query.limit.n \in 1 .. 100
  /\ "offset" \in DOMAIN r.query =>
       Integral(r.query.offset) /\ r.query.offset.n >= 0
  /\ "status" \in DOMAIN r.query => r.query.status.text \in Status.enum_values
  /\ "sort_by" \in DOMAIN r.query => r.query.sort_by.text \in SortBy.enum_values
  /\ r.body = {} <=> r.method = "GET"
  /\ \A b \in r.body : \/ b.kind = "dict" /\ ~b.empty
                       \/ b.kind = "list" /\ b.items = {"complete"}
                       \/ b.kind = "str" /\ b.text \in {"active", "inactive"}

=============================================================================
