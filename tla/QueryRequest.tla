---------------------------- MODULE QueryRequest ----------------------------
(***************************************************************************)
(* From the arguments of execute_query() to the query_options the core is  *)
(* given: the request builders of cluster and scope, QueryRequest, and     *)
(* build_query_options of the bindings.                                    *)
(*                                                                         *)
(* A call is its positional arguments (a sequence of values, in which      *)
(* <<"QueryOptions", f>> and <<"CancelToken", t>> stand out), its keyword  *)
(* arguments, and the names of database and scope, empty for a cluster.    *)
(* JSON text is abstracted to the value it encodes.                        *)
(***************************************************************************)
EXTENDS OptionsBuilder, SequencesExt

CONSTANTS AnalyticsTimeout,  \* the core's timeout_defaults::analytics_timeout, in milliseconds
          Characters(_)      \* the characters of a string, each of them a string

QueryOptions(options) == <<"QueryOptions", options>>
CancelToken(t) == <<"CancelToken", t>>
Tagged(args, tag) == SelectSeq(args, LAMBDA a : a[1] = tag)

-----------------------------------------------------------------------------
(* build_query_request of ClusterRequestBuilder and ScopeRequestBuilder.    *)

\* The keyword argument, or the first positional one; further tokens behind it
\* are parameters.
TokenOf(args, kwargs) ==
    IF Get(kwargs, "cancel_token", None)[1] = "CancelToken" THEN kwargs["cancel_token"]
    ELSE IF Tagged(args, "CancelToken") # <<>> THEN Tagged(args, "CancelToken")[1] ELSE None

\* The last QueryOptions counts.
OptionsOf(args) ==
    IF Tagged(args, "QueryOptions") = <<>> THEN NoOptions
    ELSE OptionsClass(Last(Tagged(args, "QueryOptions"))[2])

\* With a token in the keyword arguments, or after the first one, a CancelToken
\* is just another parameter.
ParametersOf(args, kwargs) ==
    LET first == IF Get(kwargs, "cancel_token", None)[1] = "CancelToken" THEN 0
                 ELSE SelectInSeq(args, LAMBDA a : a[1] = "CancelToken")
    IN  SelectSeq(IF first = 0 THEN args ELSE RemoveAt(args, first),
                  LAMBDA a : a[1] # "QueryOptions")

NonEmptyOption(key, value, contents) == IF contents = <<>> THEN NoOptions ELSE Entry(key, value)

WithParameters_OptionsWin(built, positional, named) ==
    built
    ++ NonEmptyOption("positional_parameters", List(positional), positional)
    ++ NonEmptyOption("named_parameters", Dict(named), named)

\* Parameters of the call replace those of the options.
WithParameters(built, positional, named) ==
    NonEmptyOption("positional_parameters", List(positional), positional)
    ++ NonEmptyOption("named_parameters", Dict(named), named)
    ++ built

\* ClusterRequestBuilder.
BuildQueryRequest(call, default) ==
    LET kwargs == Without(call.kwargs, {"cancel_token"})
        built == BuildOptions("QueryOptions", Only(kwargs, QueryKeys), OptionsOf(call.args))
        options == WithParameters(built[2], ParametersOf(call.args, call.kwargs),
                                  Without(kwargs, QueryKeys))
    IN  IF Raises(built) THEN built
        ELSE Ok([options |-> Without(options, {"deserializer"}),
                 deserializer |-> Get(options, "deserializer", default),
                 token |-> TokenOf(call.args, call.kwargs)])

\* The names of database and scope, which a cluster's query does not have.
Place(call) ==
    IF call.scope = "" THEN NoOptions
    ELSE [database_name |-> call.database, scope_name |-> call.scope]

\* A request with the names of its place.
InPlace(place, built) == IF Raises(built) THEN built ELSE Ok(Entry("place", place) ++ built[2])

\* ScopeRequestBuilder does the same, and adds its names.
BuildScopedRequest(call, default) == InPlace(Place(call), BuildQueryRequest(call, default))

\* execute_query of the asyncio API: tokens and lazy_execute have no effect.
PrepareAsyncQuery(call, default) == BuildScopedRequest(call, default)

\* execute_query of Cluster and Scope before anything is submitted.
PrepareQuery(call, default) ==
    LET built == BuildScopedRequest(call, default)
        lazy == Get(built[2].options, "lazy_execute", None) = Bool(TRUE)
    IN  IF Raises(built) THEN built
        ELSE Check(~(lazy /\ built[2].token # None),
                   [built[2] EXCEPT !.options = Without(@, {"lazy_execute"})], "RuntimeError")

-----------------------------------------------------------------------------
(* QueryRequest.to_req_dict: everything but flags and names is encoded.     *)

Encodable(v) == v[1] \notin {"object", "QueryOptions", "CancelToken", "timedelta"}

WithDollars(named) ==
    [name \in {"$" \o k : k \in DOMAIN named} |->
        named[CHOOSE k \in DOMAIN named : "$" \o k = name]]

\* What a loop over v takes: members, characters, or keys, in some order.
IsIterable(v) == v[1] \in {"list", "str", "dict"}
Iterated(v) ==
    CASE v[1] = "list" -> v[2]
      [] v[1] = "str" -> Characters(v[2])
      [] v[1] = "dict" -> LET keys == SetToSeq(DOMAIN v[2])
                          IN  [i \in DOMAIN keys |-> Str(keys[i])]

\* Iterating what cannot be, and items() of what is no dictionary, raise too.
EncodeOption(k, v) ==
    CASE k = "positional_parameters" ->
            IF ~IsIterable(v) THEN Raise("TypeError")
            ELSE Check(\A i \in DOMAIN Iterated(v) : Encodable(Iterated(v)[i]),
                       List(Iterated(v)), "TypeError")
      [] k \in {"named_parameters", "raw"} ->
            IF v[1] # "dict" THEN Raise("AttributeError")
            ELSE Check(\A n \in DOMAIN v[2] : Encodable(v[2][n]),
                       IF k = "raw" THEN v ELSE Dict(WithDollars(v[2])), "TypeError")
      [] OTHER -> Ok(v)

ToReqDict(request) ==
    LET encoded == [k \in DOMAIN request.options |-> EncodeOption(k, request.options[k])]
        failing == {k \in DOMAIN encoded : Raises(encoded[k])}
    IN  IF failing # {} THEN encoded[CHOOSE k \in failing : TRUE]
        ELSE Ok([k \in DOMAIN encoded |-> encoded[k][2]]
                ++ request.place)

-----------------------------------------------------------------------------
(* build_query_options: what the bindings read.                             *)

IsTrue(args, k) == Get(args, k, None) = Bool(TRUE)

\* Without a timeout of its own a query gets the core's default.
QueryTimeout(args) ==
    IF Has(args, "timeout") THEN args["timeout"][2] \div 1000 ELSE AnalyticsTimeout

Contents(args, k) == IF Has(args, k) THEN args[k][2] ELSE <<>>

OptionsRefused_RawOnly(args) == "" \in DOMAIN Contents(args, "raw")

\* The error is looked at after all has been read: a negative timeout, or a raw
\* option without a name.
OptionsRefused(args) ==
    \/ Has(args, "timeout") /\ args["timeout"][2] < 0
    \/ "" \in DOMAIN Contents(args, "raw")

BuildQueryOptions(args) ==
    IF OptionsRefused(args)
    THEN Raise(IF "" \in DOMAIN Contents(args, "raw") THEN "ValueError" ELSE "OverflowError")
    ELSE Ok([database_name |-> Get(args, "database_name", ""),
             scope_name |-> Get(args, "scope_name", ""),
             priority |-> IsTrue(args, "priority"), read_only |-> IsTrue(args, "readonly"),
             scan_consistency |-> Get(args, "scan_consistency", Str("unset"))[2],
             timeout |-> QueryTimeout(args),
             raw |-> Contents(args, "raw"),
             positional_parameters |-> Contents(args, "positional_parameters"),
             named_parameters |-> Contents(args, "named_parameters")])
=============================================================================
