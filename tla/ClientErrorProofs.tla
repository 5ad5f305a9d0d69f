------------------------- MODULE ClientErrorProofs -------------------------
(***************************************************************************)
(* What OptionsBuilder does for every option and every value, and that     *)
(* errors reach the application as they should, for all options and        *)
(* parameters, and for every error of the core that the assumption of      *)
(* ClientCalls admits.                                                     *)
(***************************************************************************)
EXTENDS ClientCalls, TLAPS

-----------------------------------------------------------------------------
(* OptionsBuilder: what it can raise, and which option of what was passed  *)
(* each built option is.                                                   *)

\* What arguments are refused with, and the validators of the option classes.
ArgumentErrors == {"ValueError", "FileNotFoundError"}
Kinds == {"bool", "str", "dict", "deserializer", "int", "str_list", "path", "timedelta",
          "duration", "IpProtocol", "QueryScanConsistency", "any"}
Classes == {"ClusterOptions", "SecurityOptions", "TimeoutOptions", "QueryOptions"}

\* A validator raises ValueError, or FileNotFoundError for a path.
LEMMA ConvertRaises ==
  ASSUME NEW kind \in Kinds, NEW v, Raises(Convert(kind, v))
  PROVE  Convert(kind, v)[2] \in ArgumentErrors
<1> USE DEF Raises, Check, Ok, Raise, ArgumentErrors
<1>1. CASE kind \in {"bool", "str", "dict", "deserializer"}
  BY <1>1 DEF Convert
<1>2. CASE kind = "int"
  BY <1>2 DEF Convert
<1>3. CASE kind = "str_list"
  BY <1>3 DEF Convert
<1>4. CASE kind = "path"
  BY <1>4 DEF Convert, ValidatePath
<1>5. CASE kind = "timedelta"
  BY <1>5 DEF Convert, TimedeltaAsMicroseconds
<1>6. CASE kind = "duration"
  BY <1>6 DEF Convert, ToMicroseconds
<1>7. CASE kind \in {"IpProtocol", "QueryScanConsistency"}
  BY <1>7 DEF Convert, EnumToStr
<1>8. CASE kind = "any"
  BY <1>8 DEF Convert
<1> QED BY <1>1, <1>2, <1>3, <1>4, <1>5, <1>6, <1>7, <1>8 DEF Kinds

\* A merge of tables has the validators of both, ...
LEMMA MergedKinds ==
  ASSUME NEW f, NEW g, NEW kinds,
         \A k \in DOMAIN f : f[k][2] \in kinds, \A k \in DOMAIN g : g[k][2] \in kinds
  PROVE  \A k \in DOMAIN (f ++ g) : (f ++ g)[k][2] \in kinds
BY DEF ++

\* ... a table of one kind has that, ...
LEMMA SameKind ==
  ASSUME NEW kind, NEW keys, NEW kinds, kind \in kinds
  PROVE  \A k \in DOMAIN Same(kind, keys) : Same(kind, keys)[k][2] \in kinds
BY DEF Same

\* ... and every key of an option class has one of the validators.
LEMMA TransformKinds ==
  ASSUME NEW class \in Classes, NEW k \in TransformDetails(class)[1]
  PROVE  TransformDetails(class)[2][k][2] \in Kinds
<1>1. CASE class = "ClusterOptions"
  <2> DEFINE bools == Same("bool", {"allow_unknown_qstr_options",
                                    "disable_mozilla_ca_certificates",
                                    "dump_configuration", "enable_clustermap_notification"})
             timedeltas == Same("timedelta", {"config_poll_floor", "config_poll_interval"})
             strs == Same("str", {"dns_nameserver", "network", "user_agent_extra"})
             anys == Same("any", {"security_options", "timeout_options"})
             others == [deserializer |-> <<"deserializer", "deserializer">>,
                        dns_port |-> <<"dns_port", "int">>,
                        ip_protocol |-> <<"use_ip_protocol", "IpProtocol">>]
             AllOf(f) == \A name \in DOMAIN f : f[name][2] \in Kinds
  <2>1. ClusterTransforms = bools ++ timedeltas ++ strs ++ anys ++ others
    BY DEF ClusterTransforms
  <2>2. {"bool", "timedelta", "str", "any"} \subseteq Kinds
    BY DEF Kinds
  <2>3. AllOf(bools) /\ AllOf(timedeltas) /\ AllOf(strs) /\ AllOf(anys)
    BY <2>2, SameKind
  <2>4. AllOf(others)
    BY DEF Kinds
  <2>5. k \in DOMAIN ClusterTransforms
    <3>1. k \in ClusterKeys
      BY <1>1 DEF TransformDetails
    <3> QED BY <3>1 DEF ClusterKeys, ClusterTransforms, Same, ++
  <2> HIDE DEF bools, timedeltas, strs, anys, others
  <2>6. AllOf(bools ++ timedeltas)
    BY <2>3, MergedKinds
  <2>7. AllOf(bools ++ timedeltas ++ strs)
    BY <2>3, <2>6, MergedKinds
  <2>8. AllOf(bools ++ timedeltas ++ strs ++ anys)
    BY <2>3, <2>7, MergedKinds
  <2>9. AllOf(ClusterTransforms)
    BY <2>1, <2>4, <2>8, MergedKinds
  <2>10. TransformDetails(class)[2] = ClusterTransforms
    BY <1>1 DEF TransformDetails
  <2> QED BY <2>5, <2>9, <2>10
<1>2. CASE class = "SecurityOptions"
  BY <1>2 DEF TransformDetails, SecurityKeys, SecurityTransforms, Same, Kinds, ++
<1>3. CASE class = "TimeoutOptions"
  BY <1>3 DEF TransformDetails, TimeoutKeys, TimeoutTransforms, Same, Kinds, ++
<1>4. CASE class = "QueryOptions"
  BY <1>4 DEF TransformDetails, QueryKeys, QueryTransforms, Same, Kinds, ++
<1> QED BY <1>1, <1>2, <1>3, <1>4 DEF Classes

\* So OptionsBuilder raises what a validator raises, ...
LEMMA BuildOptionsRaises ==
  ASSUME NEW class \in Classes, NEW kwargs, NEW options,
         Raises(BuildOptions(class, kwargs, options))
  PROVE  BuildOptions(class, kwargs, options)[2] \in ArgumentErrors
<1> DEFINE copied == GetOptionsCopy(kwargs, options)
           transforms == TransformDetails(class)[2]
           allowed == DOMAIN copied \cap TransformDetails(class)[1]
           converted == [k \in allowed |-> Convert(transforms[k][2], copied[k])]
           failing == {k \in allowed : Raises(converted[k])}
           chosen == CHOOSE k \in failing : TRUE
<1>1. CASE failing # {}
  <2>1. BuildOptions(class, kwargs, options) = converted[chosen]
    BY <1>1 DEF BuildOptions, Transformed
  <2>2. chosen \in failing
    BY <1>1
  <2>3. transforms[chosen][2] \in Kinds
    BY <2>2, TransformKinds
  <2>4. Raises(Convert(transforms[chosen][2], copied[chosen]))
    BY <2>2
  <2> QED BY <2>1, <2>2, <2>3, <2>4, ConvertRaises
<1>2. CASE failing = {}
  BY <1>2 DEF BuildOptions, Transformed, Raises, Ok
<1> QED BY <1>1, <1>2

\* ... for nested options too, ...
LEMMA BuildClusterOptionsRaises ==
  ASSUME NEW kwargs, NEW options, Raises(BuildClusterOptions(kwargs, options))
  PROVE  BuildClusterOptions(kwargs, options)[2] \in ArgumentErrors
BY BuildOptionsRaises DEF BuildClusterOptions, Classes

-----------------------------------------------------------------------------
\* What the bindings read under the name of option k is the validated option k,
\* when no other option has the name.
LEMMA BuiltOption ==
  ASSUME NEW class, NEW kwargs, NEW options, NEW k \in TransformDetails(class)[1],
         \A j \in TransformDetails(class)[1] :
            TransformDetails(class)[2][j][1] = TransformDetails(class)[2][k][1] => j = k,
         ~Raises(BuildOptions(class, kwargs, options))
  PROVE  LET copied == GetOptionsCopy(kwargs, options)
             name == TransformDetails(class)[2][k][1]
             value == Convert(TransformDetails(class)[2][k][2], copied[k])
             built == BuildOptions(class, kwargs, options)[2]
         IN  /\ Has(built, name) <=> Has(copied, k) /\ value # Ok(None)
             /\ Has(copied, k) => ~Raises(value)
             /\ Has(built, name) => built[name] = value[2]
<1> DEFINE copied == GetOptionsCopy(kwargs, options)
           transforms == TransformDetails(class)[2]
           name == transforms[k][1]
           allowed == DOMAIN copied \cap TransformDetails(class)[1]
           converted == [j \in allowed |-> Convert(transforms[j][2], copied[j])]
           failing == {j \in allowed : Raises(converted[j])}
           kept == {j \in allowed : converted[j] # Ok(None)}
           keyOf(n) == CHOOSE j \in kept : transforms[j][1] = n
           result == [n \in {transforms[j][1] : j \in kept} |-> converted[keyOf(n)][2]]
<1>1. failing = {}
  <2>1. SUFFICES ASSUME failing # {} PROVE Raises(BuildOptions(class, kwargs, options))
    OBVIOUS
  <2>2. BuildOptions(class, kwargs, options) = converted[CHOOSE j \in failing : TRUE]
    BY <2>1 DEF BuildOptions, Transformed
  <2> QED BY <2>1, <2>2
<1>2. BuildOptions(class, kwargs, options) = Ok(result)
  <2>1. BuildOptions(class, kwargs, options) =
          IF failing # {} THEN converted[CHOOSE j \in failing : TRUE] ELSE Ok(result)
    BY DEF BuildOptions, Transformed
  <2> HIDE DEF failing, result, converted
  <2> QED BY <1>1, <2>1
<1>3. BuildOptions(class, kwargs, options)[2] = result
  <2> HIDE DEF result
  <2> QED BY <1>2 DEF Ok
<1>4. Has(result, name) <=> k \in kept
  BY DEF Has
<1>5. k \in kept => keyOf(name) = k
  OBVIOUS
<1>6. k \in kept => result[name] = converted[k][2]
  BY <1>5
<1> QED BY <1>1, <1>3, <1>4, <1>6 DEF Has

\* And there are no other names.
LEMMA BuiltNames ==
  ASSUME NEW class, NEW kwargs, NEW options, ~Raises(BuildOptions(class, kwargs, options))
  PROVE  \A n \in DOMAIN BuildOptions(class, kwargs, options)[2] :
            \E k \in TransformDetails(class)[1] : n = TransformDetails(class)[2][k][1]
<1> DEFINE copied == GetOptionsCopy(kwargs, options)
           transforms == TransformDetails(class)[2]
           allowed == DOMAIN copied \cap TransformDetails(class)[1]
           converted == [j \in allowed |-> Convert(transforms[j][2], copied[j])]
           failing == {j \in allowed : Raises(converted[j])}
           kept == {j \in allowed : converted[j] # Ok(None)}
           keyOf(n) == CHOOSE j \in kept : transforms[j][1] = n
           result == [n \in {transforms[j][1] : j \in kept} |-> converted[keyOf(n)][2]]
<1>1. BuildOptions(class, kwargs, options) =
        IF failing # {} THEN converted[CHOOSE j \in failing : TRUE] ELSE Ok(result)
  BY DEF BuildOptions, Transformed
<1>2. failing # {} => Raises(converted[CHOOSE j \in failing : TRUE])
  OBVIOUS
<1>3. BuildOptions(class, kwargs, options)[2] = result
  <2> HIDE DEF result, failing, converted
  <2> QED BY <1>1, <1>2 DEF Ok
<1>4. \A n \in DOMAIN result : \E k \in allowed : n = transforms[k][1]
  OBVIOUS
<1> HIDE DEF result
<1> QED BY <1>3, <1>4

\* The names of a query's options are nobody else's, ...
LEMMA QueryNames ==
  ASSUME NEW j \in QueryKeys, NEW k \in QueryKeys,
         QueryTransforms[j][1] = QueryTransforms[k][1]
  PROVE  j = k
<1>1. \A i \in QueryKeys :
        QueryTransforms[i][1] = IF i = "read_only" THEN "readonly" ELSE i
  BY DEF QueryKeys, QueryTransforms, Same, ++
<1> QED BY <1>1 DEF QueryKeys

\* ... so each option of a query is found under its name.
LEMMA BuiltQueryOption ==
  ASSUME NEW kwargs, NEW options, NEW k \in QueryKeys,
         ~Raises(BuildOptions("QueryOptions", kwargs, options))
  PROVE  LET copied == GetOptionsCopy(kwargs, options)
             name == QueryTransforms[k][1]
             value == Convert(QueryTransforms[k][2], copied[k])
             built == BuildOptions("QueryOptions", kwargs, options)[2]
         IN  /\ Has(built, name) <=> Has(copied, k) /\ value # Ok(None)
             /\ Has(copied, k) => ~Raises(value)
             /\ Has(built, name) => built[name] = value[2]
<1>1. TransformDetails("QueryOptions") = <<QueryKeys, QueryTransforms>>
  BY DEF TransformDetails
<1>2. k \in TransformDetails("QueryOptions")[1]
  BY <1>1
<1>3. \A j \in TransformDetails("QueryOptions")[1] :
        TransformDetails("QueryOptions")[2][j][1] = TransformDetails("QueryOptions")[2][k][1]
        => j = k
  BY <1>1, QueryNames
<1> HIDE DEF TransformDetails
<1> QED BY <1>1, <1>2, <1>3, BuiltOption

-----------------------------------------------------------------------------
(* Errors.                                                                 *)

\* create_instance raises what OptionsBuilder does, or a ValueError.
LEMMA CreateRaises ==
  ASSUME NEW str, NEW username, NEW password, NEW kwargs, NEW options,
         Raises(Create(str, Credential(username, password), kwargs, options))
  PROVE  Create(str, Credential(username, password), kwargs, options)[2] \in ArgumentErrors
<1>1. Raises(Credential(username, password)) =>
        Credential(username, password)[2] \in ArgumentErrors
  BY DEF Credential, Check, Raises, Ok, Raise, ArgumentErrors
<1>2. Raises(ParseConnectionString(str)) => ParseConnectionString(str)[2] \in ArgumentErrors
  BY DEF ParseConnectionString, Raises, Ok, Raise, ArgumentErrors
<1>3. \A valid, v : Raises(Check(valid, v, "ValueError")) =>
        Check(valid, v, "ValueError")[2] \in ArgumentErrors
  BY DEF Check, Raises, Ok, Raise, ArgumentErrors
<1> QED BY <1>1, <1>2, <1>3, BuildClusterOptionsRaises DEF Create

\* The asyncio API wants a loop too, and may find none when it is given none.
LEMMA AsyncAdapterRaises ==
  ASSUME NEW c, Raises(AsyncAdapter(c))
  PROVE  \/ AsyncAdapter(c)[2] \in ArgumentErrors
         \/ AsyncAdapter(c)[2] = "RuntimeError" /\ c.loop = NoLoop
<1>1. Raises(AdapterLoop(c.loop, c.current)) =>
        AdapterLoop(c.loop, c.current)[2] = "RuntimeError" /\ c.loop = NoLoop
  BY DEF AdapterLoop, GetEventLoop, GetWorkingLoop, Check, Raises, Ok, Raise
<1>2. Raises(BlockingAdapter(c)) => BlockingAdapter(c)[2] \in ArgumentErrors
  BY CreateRaises DEF BlockingAdapter
<1> QED BY <1>1, <1>2 DEF AsyncAdapter

\* What the application means by an option that it can state in two places.
LEMMA MeantOfTwo ==
  ASSUME NEW first, NEW second, NEW k
  PROVE  Meant(<<first, second>>, k) =
           IF Has(first, k) THEN first[k] ELSE IF Has(second, k) THEN second[k] ELSE Absent
<1> DEFINE levels == <<first, second>>
           level == CHOOSE i \in Says(levels, k) : \A j \in Says(levels, k) : i <= j
<1>1. /\ \A i : i \in Says(levels, k) <=> (i = 1 /\ Has(first, k)) \/ (i = 2 /\ Has(second, k))
      /\ levels[1] = first /\ levels[2] = second
  BY DEF Says
<1>2. Meant(levels, k) = IF Says(levels, k) = {} THEN Absent ELSE levels[level][k]
  BY DEF Meant
<1> SUFFICES Meant(levels, k) =
               IF Has(first, k) THEN first[k] ELSE IF Has(second, k) THEN second[k] ELSE Absent
  OBVIOUS
<1> HIDE DEF levels
<1>3. CASE Has(first, k)
  <2>1. 1 \in Says(levels, k) /\ \A j \in Says(levels, k) : 1 <= j
    BY <1>1, <1>3
  <2>2. level \in Says(levels, k) /\ \A j \in Says(levels, k) : level <= j
    BY <2>1
  <2>3. level = 1
    BY <1>1, <2>1, <2>2
  <2> QED BY <1>1, <1>2, <1>3, <2>1, <2>3
<1>4. CASE ~Has(first, k) /\ Has(second, k)
  <2>1. \A i : i \in Says(levels, k) <=> i = 2
    BY <1>1, <1>4
  <2>2. level = 2
    BY <2>1
  <2> QED BY <1>1, <1>2, <1>4, <2>1, <2>2
<1>5. CASE ~Has(first, k) /\ ~Has(second, k)
  BY <1>1, <1>2, <1>5
<1> QED BY <1>3, <1>4, <1>5

\* The request builders raise what OptionsBuilder does, ...
LEMMA BuildScopedRequestRaises ==
  ASSUME NEW q, NEW default, Raises(BuildScopedRequest(q, default))
  PROVE  BuildScopedRequest(q, default)[2] \in ArgumentErrors
<1> DEFINE kwargs == Without(q.kwargs, {"cancel_token"})
           built == BuildOptions("QueryOptions", Only(kwargs, QueryKeys), OptionsOf(q.args))
<1>1. Raises(built) => built[2] \in ArgumentErrors
  BY BuildOptionsRaises DEF Classes
<1>2. CASE Raises(built)
  <2>1. BuildQueryRequest(q, default) = built
    BY <1>2 DEF BuildQueryRequest
  <2> QED BY <1>1, <1>2, <2>1 DEF BuildScopedRequest, InPlace
<1>3. CASE ~Raises(built)
  <2>1. PICK r : BuildQueryRequest(q, default) = Ok(r)
    BY <1>3 DEF BuildQueryRequest
  <2> QED BY <2>1 DEF BuildScopedRequest, InPlace, Raises, Ok
<1> QED BY <1>2, <1>3

\* ... the parameters of a call come in front of their own two options only, and
\* not when there are none, ...
LEMMA ParametersOnly ==
  ASSUME NEW built, NEW positional, NEW named,
         NEW k, k = "positional_parameters" => positional = <<>>,
         k = "named_parameters" => named = <<>>
  PROVE  /\ Has(WithParameters(built, positional, named), k) <=> Has(built, k)
         /\ Has(built, k) => WithParameters(built, positional, named)[k] = built[k]
<1> DEFINE front == NonEmptyOption("positional_parameters", List(positional), positional)
                    ++ NonEmptyOption("named_parameters", Dict(named), named)
<1>1. k \notin DOMAIN front
  BY DEF NonEmptyOption, NoOptions, Entry, ++
<1>2. WithParameters(built, positional, named) = front ++ built
  BY DEF WithParameters
<1> HIDE DEF front
<1> QED BY <1>1, <1>2 DEF Has, ++

\* ... and a query of the blocking API is refused for being lazy only when the
\* application says that it is.
LEMMA LazyIsMeant ==
  ASSUME NEW q, NEW default, ~Raises(BuildScopedRequest(q, default)),
         Get(BuildScopedRequest(q, default)[2].options, "lazy_execute", None) = Bool(TRUE)
  PROVE  Meant(<<q.kwargs, OptionsOf(q.args)>>, "lazy_execute") = Bool(TRUE)
<1> DEFINE kwargs == Without(q.kwargs, {"cancel_token"})
           chosen == Only(kwargs, QueryKeys)
           built == BuildOptions("QueryOptions", chosen, OptionsOf(q.args))
           copied == GetOptionsCopy(chosen, OptionsOf(q.args))
           options == WithParameters(built[2], ParametersOf(q.args, q.kwargs),
                                     Without(kwargs, QueryKeys))
<1>1. ~Raises(built)
  BY DEF BuildScopedRequest, InPlace, BuildQueryRequest
<1>2. BuildScopedRequest(q, default)[2].options = Without(options, {"deserializer"})
  BY <1>1 DEF BuildScopedRequest, InPlace, BuildQueryRequest, Ok, Raises, Entry, ++
<1>3. Has(options, "lazy_execute") /\ options["lazy_execute"] = Bool(TRUE)
  <2> HIDE DEF options
  <2> QED BY <1>2 DEF Get, Has, Without, Only, None, Bool
<1>4. Has(built[2], "lazy_execute") /\ built[2]["lazy_execute"] = Bool(TRUE)
  <2> HIDE DEF built
  <2> QED BY <1>3, ParametersOnly
<1>5. Has(copied, "lazy_execute") /\ copied["lazy_execute"] = Bool(TRUE)
  <2>1. "lazy_execute" \in QueryKeys /\ QueryTransforms["lazy_execute"] = <<"lazy_execute", "bool">>
    BY DEF QueryKeys, QueryTransforms, Same, ++
  <2>2. /\ Has(copied, "lazy_execute")
        /\ ~Raises(Convert("bool", copied["lazy_execute"]))
        /\ built[2]["lazy_execute"] = Convert("bool", copied["lazy_execute"])[2]
    BY <1>1, <1>4, <2>1, BuiltQueryOption
  <2> HIDE DEF built, copied
  <2>3. Convert("bool", copied["lazy_execute"])
          = Check(copied["lazy_execute"][1] = "bool", copied["lazy_execute"], "ValueError")
    BY DEF Convert
  <2>4. Convert("bool", copied["lazy_execute"])[2] = copied["lazy_execute"]
    BY <2>2, <2>3 DEF Check, Raises, Ok, Raise
  <2> QED BY <1>4, <2>2, <2>4
<1>6. \/ Has(q.kwargs, "lazy_execute") /\ q.kwargs["lazy_execute"] = Bool(TRUE)
      \/ /\ ~Has(q.kwargs, "lazy_execute")
         /\ Has(OptionsOf(q.args), "lazy_execute")
         /\ OptionsOf(q.args)["lazy_execute"] = Bool(TRUE)
  BY <1>5 DEF GetOptionsCopy, OptionsClass, Only, Without, Has, QueryKeys, ++
<1> QED BY <1>6, MeantOfTwo

\* execute_query() of the asyncio API raises no RuntimeError, ...
LEMMA PrepareAsyncRaises ==
  ASSUME NEW q, NEW default, Raises(PrepareAsyncQuery(q, default))
  PROVE  PrepareAsyncQuery(q, default)[2] \in ArgumentErrors
BY BuildScopedRequestRaises DEF PrepareAsyncQuery

\* ... and that of the blocking API for a lazy query only.
LEMMA PrepareRaises ==
  ASSUME NEW q, NEW default, Raises(PrepareQuery(q, default))
  PROVE  \/ PrepareQuery(q, default)[2] \in ArgumentErrors
         \/ /\ PrepareQuery(q, default)[2] = "RuntimeError"
            /\ Meant(<<q.kwargs, OptionsOf(q.args)>>, "lazy_execute") = Bool(TRUE)
<1> DEFINE built == BuildScopedRequest(q, default)
<1>1. CASE Raises(built)
  BY <1>1, BuildScopedRequestRaises DEF PrepareQuery
<1>2. CASE ~Raises(built)
  <2>1. Get(built[2].options, "lazy_execute", None) = Bool(TRUE)
    BY <1>2 DEF PrepareQuery, Check, Raises, Ok, Raise
  <2>2. PrepareQuery(q, default)[2] = "RuntimeError"
    BY <1>2 DEF PrepareQuery, Check, Raises, Ok, Raise
  <2> QED BY <1>2, <2>1, <2>2, LazyIsMeant
<1> QED BY <1>1, <1>2

-----------------------------------------------------------------------------
\* What the bindings raise themselves is no CoreColumnarError.
BindingErrors == {"TypeError", "AttributeError", "ValueError", "OverflowError"}

\* Encoding a request raises what Python's JSON encoder does, ...
LEMMA ToReqDictRaises ==
  ASSUME NEW r, Raises(ToReqDict(r))
  PROVE  ToReqDict(r)[2] \in BindingErrors
<1> DEFINE encoded == [k \in DOMAIN r.options |-> EncodeOption(k, r.options[k])]
           failing == {k \in DOMAIN encoded : Raises(encoded[k])}
           chosen == CHOOSE k \in failing : TRUE
<1>1. ASSUME NEW k, NEW v, Raises(EncodeOption(k, v))
      PROVE  EncodeOption(k, v)[2] \in BindingErrors
  <2>1. CASE k = "positional_parameters"
    BY <1>1, <2>1 DEF EncodeOption, Check, Raises, Ok, Raise, BindingErrors
  <2>2. CASE k \in {"named_parameters", "raw"}
    BY <1>1, <2>2 DEF EncodeOption, Check, Raises, Ok, Raise, BindingErrors
  <2>3. CASE k \notin {"positional_parameters", "named_parameters", "raw"}
    BY <1>1, <2>3 DEF EncodeOption, Raises, Ok
  <2> QED BY <2>1, <2>2, <2>3
<1>2. CASE failing # {}
  <2>1. ToReqDict(r) = encoded[chosen]
    BY <1>2 DEF ToReqDict
  <2>2. chosen \in failing
    BY <1>2
  <2> QED BY <1>1, <2>1, <2>2
<1>3. CASE failing = {}
  BY <1>3 DEF ToReqDict, Raises, Ok
<1> QED BY <1>2, <1>3

\* ... and reading it what the bindings leave pending.
LEMMA BuildQueryOptionsRaises ==
  ASSUME NEW args, Raises(BuildQueryOptions(args))
  PROVE  BuildQueryOptions(args)[2] \in BindingErrors
<1>1. CASE OptionsRefused(args)
  BY <1>1 DEF BuildQueryOptions, Raise, BindingErrors
<1>2. CASE ~OptionsRefused(args)
  BY <1>2 DEF BuildQueryOptions, Raises, Ok
<1> QED BY <1>1, <1>2

\* And it gets out as an InternalSDKError.
LEMMA FromPython ==
  ASSUME NEW class \in BindingErrors
  PROVE  FromBindings(PythonException(class)).class = "InternalSDKError"
BY DEF FromBindings, PythonException, Exception, BindingErrors

\* An error of the core, refused or answered, gets the class its code stands for.
LEMMA CoreErrorsMapped ==
  ASSUME NEW err \in CoreErrors
  PROVE  /\ err # NoError
         /\ BuildError(BuildException(err)).class = Meaning(err)
         /\ BuildError(BuildException(err)).code =
              IF Meaning(err) = "QueryError" THEN err.server ELSE NoServerError
         /\ Meaning(err) = "RuntimeError" => err.code = ClusterClosed
         /\ Meaning(err) \in (ColumnarErrors \cup ClientErrors) \ {"InternalSDKError"}
         /\ FromBindings(BuildException(err)) = BuildError(BuildException(err))
<1> DEFINE errDetails == ErrorDetails(err)
<1> USE ClientCallsAssumption
         DEF BuildException, CoreColumnarError, Canceled, InvalidArgument, ClusterClosed,
             Generic, InvalidCredential, Timeout, QueryFailed, NoServerError
<1>1. err # NoError /\ FromBindings(BuildException(err)) = BuildError(BuildException(err))
  BY DEF NoError, FromBindings
<1>2. CASE err.category = "client"
  <2>1. err.code \in {1, 2, 3}
    BY <1>2
  <2>2. /\ "client_error_code" \in DOMAIN errDetails
        /\ errDetails.client_error_code =
             IF err.code = 1 THEN 3 ELSE IF err.code = 3 THEN 2 ELSE 1
    BY <1>2, <2>1 DEF ErrorDetails, Properties, ++, CANCELED, RUNTIME, VALUE
  <2> QED BY <1>1, <1>2, <2>1, <2>2
         DEF BuildError, ClientClass, ClientErrorMap, Exception, Meaning, ColumnarErrors,
             ClientErrors
<1>3. CASE err.category # "client"
  <2>1. /\ "client_error_code" \notin DOMAIN errDetails
        /\ "core_error_code" \in DOMAIN errDetails /\ errDetails.core_error_code = err.code
        /\ "properties" \in DOMAIN errDetails <=> Properties(err) # <<>>
        /\ Properties(err) # <<>> => errDetails.properties = err.server
    BY <1>3 DEF ErrorDetails, Properties, ++
  <2>2. CoreClass(err.code) = Meaning(err)
    BY <1>3 DEF CoreClass, CoreErrorMap, Meaning
  <2>3. Meaning(err) # "RuntimeError"
    BY <1>3 DEF Meaning
  <2>4. Meaning(err) \in (ColumnarErrors \cup ClientErrors) \ {"InternalSDKError"}
    BY <1>3 DEF Meaning, ColumnarErrors, ClientErrors
  <2>5. BuildError(BuildException(err)) = Exception(Meaning(err), errDetails)
    BY <2>1, <2>2 DEF BuildError
  <2>6. Meaning(err) = "QueryError" => ErrorProperties(errDetails) = err.server
    <3> HAVE Meaning(err) = "QueryError"
    <3>1. err.category = "columnar" /\ err.code = 4
      BY <1>3 DEF Meaning
    <3> QED BY <2>1, <3>1 DEF ErrorProperties, Properties, Get, Has
  <2> QED BY <1>1, <2>3, <2>4, <2>5, <2>6 DEF Exception
<1> QED BY <1>2, <1>3

-----------------------------------------------------------------------------
\* The invariant holds initially, ...
LEMMA InitErrors == Init => ErrorInv
BY DEF Init, ErrorInv, Phases, Unset, Result, ErrorsAreMapped, ErrorsKeepTheirMeaning

\* ... and every step keeps it: one case for each action.
LEMMA NextErrors == ErrorInv /\ [Next]_vars => ErrorInv'
<1> SUFFICES ASSUME ErrorInv, [Next]_vars
             PROVE  ErrorInv'
  OBVIOUS
<1> USE DEF ErrorInv, Phases, ErrorsAreMapped, ErrorsKeepTheirMeaning, Fails
<1>1. CASE CreateCluster
  <2>1. PICK c \in ClusterCalls :
          LET created == IF c.api = "asyncio" THEN AsyncAdapter(c) ELSE BlockingAdapter(c)
          IN  /\ given' = c
              /\ IF Raises(created)
                 THEN phase' = "refused" /\ outcome' = Exception(created[2], <<>>)
                 ELSE phase' = "connecting" /\ UNCHANGED outcome
    BY <1>1 DEF CreateCluster, Creates
  <2>2. phase = "new" /\ UNCHANGED <<coreQuery, coreError>>
    BY <1>1 DEF CreateCluster, Creates
  <2>3. CASE phase' = "refused"
    <3>1. \/ outcome'.class \in ArgumentErrors
          \/ outcome'.class = "RuntimeError" /\ given'.api = "asyncio" /\ given'.loop = NoLoop
      <4>1. Raises(BlockingAdapter(c)) => BlockingAdapter(c)[2] \in ArgumentErrors
        BY CreateRaises DEF BlockingAdapter
      <4> QED BY <2>1, <2>3, <4>1, AsyncAdapterRaises DEF Exception
    <3> QED BY <2>2, <2>3, <3>1 DEF ArgumentErrors
  <2>4. CASE phase' = "connecting" /\ UNCHANGED outcome
    BY <2>2, <2>4 DEF Result
  <2> QED BY <2>1, <2>3, <2>4
<1>2. CASE Connect
  <2>1. \A api, e : ConnectRaises(api, e).class \in ColumnarErrors \cup {"InternalSDKError"}
    BY DEF ConnectRaises, Wrapped, AsyncWrapped, Exception
  <2>2. /\ phase = "connecting" /\ UNCHANGED coreQuery
        /\ \/ phase' = "connected" /\ UNCHANGED outcome
           \/ phase' = "unconnected" /\ \E api, e : outcome' = ConnectRaises(api, e)
    BY <1>2 DEF Connect
  <2> QED BY <2>1, <2>2 DEF Result, ColumnarErrors
<1>3. CASE ExecuteQuery
  <2>1. PICK q \in QueryCalls(given) :
          LET prepared == Prepare(given.api, q, details.deserializer)
          IN  /\ call' = q
              /\ IF Raises(prepared)
                 THEN phase' = "rejected" /\ outcome' = Exception(prepared[2], <<>>)
                 ELSE phase' = "submitting" /\ UNCHANGED outcome
    BY <1>3 DEF ExecuteQuery, Executes
  <2>2. phase = "connected" /\ UNCHANGED <<given, coreQuery, coreError>>
    BY <1>3 DEF ExecuteQuery, Executes
  <2>3. CASE phase' = "rejected"
    <3>1. \/ outcome'.class \in ArgumentErrors
          \/ /\ outcome'.class = "RuntimeError" /\ given'.api # "asyncio"
             /\ MeantQuery("lazy_execute")' = Bool(TRUE)
      <4>1. MeantQuery("lazy_execute")' = Meant(<<q.kwargs, OptionsOf(q.args)>>, "lazy_execute")
        BY <2>1 DEF MeantQuery, QueryLevels
      <4>2. CASE given.api = "asyncio"
        <5>1. /\ Raises(PrepareAsyncQuery(q, details.deserializer))
              /\ outcome' = Exception(PrepareAsyncQuery(q, details.deserializer)[2], <<>>)
          BY <2>1, <2>3, <4>2 DEF Prepare
        <5> QED BY <5>1, PrepareAsyncRaises DEF Exception
      <4>3. CASE given.api # "asyncio"
        <5>1. /\ Raises(PrepareQuery(q, details.deserializer))
              /\ outcome' = Exception(PrepareQuery(q, details.deserializer)[2], <<>>)
          BY <2>1, <2>3, <4>3 DEF Prepare
        <5> QED BY <2>2, <4>1, <4>3, <5>1, PrepareRaises DEF Exception
      <4> QED BY <4>2, <4>3
    <3> QED BY <2>2, <2>3, <3>1 DEF ArgumentErrors
  <2>4. CASE phase' = "submitting" /\ UNCHANGED outcome
    BY <2>2, <2>4 DEF Result
  <2> QED BY <2>1, <2>3, <2>4
<1>4. CASE Submit
  <2>1. CASE phase' = "failed"
    <3>1. PICK class : /\ outcome' = FromBindings(PythonException(class))
                       /\ class \in BindingErrors /\ UNCHANGED coreQuery
      BY <1>4, <2>1, ToReqDictRaises, BuildQueryOptionsRaises DEF Submit
    <3> QED BY <1>4, <2>1, <3>1, FromPython DEF Submit
  <2>2. CASE phase' = "done"
    <3>1. PICK err \in CoreErrors :
            coreError' = err /\ outcome' = FromBindings(BuildException(err))
      BY <1>4, <2>2 DEF Submit
    <3> QED BY <2>2, <3>1, CoreErrorsMapped
  <2>3. CASE phase' = "waiting"
    BY <1>4, <2>3 DEF Submit, Result
  <2> QED BY <1>4, <2>1, <2>2, <2>3 DEF Submit
<1>5. CASE Answer
  <2>1. phase' = "done"
    BY <1>5 DEF Answer
  <2>2. PICK err \in {NoError} \cup CoreErrors :
          /\ coreError' = err
          /\ outcome' = IF err = NoError THEN Result ELSE BuildError(BuildException(err))
    BY <1>5 DEF Answer
  <2>3. CASE err = NoError
    BY <2>1, <2>2, <2>3 DEF Result
  <2>4. CASE err # NoError
    BY <2>1, <2>2, <2>4, CoreErrorsMapped
  <2> QED BY <2>2, <2>3, <2>4
<1>6. CASE UNCHANGED vars
  BY <1>6 DEF vars, MeantQuery, QueryLevels
<1> QED BY <1>1, <1>2, <1>3, <1>4, <1>5, <1>6 DEF Next

-----------------------------------------------------------------------------
\* The inductive invariant of the errors.
THEOREM ErrorInvariance == Spec => []ErrorInv
BY InitErrors, NextErrors, PTL DEF Spec

\* Each call ends with the exceptions that are meant for it.
THEOREM ExceptionsAreMapped == Spec => []ErrorsAreMapped
<1>1. ErrorInv => ErrorsAreMapped
  BY DEF ErrorInv
<1> QED BY <1>1, ErrorInvariance, PTL

\* A failed query raises what the core's error stands for.
THEOREM MeaningIsKept == Spec => []ErrorsKeepTheirMeaning
<1>1. ErrorInv => ErrorsKeepTheirMeaning
  BY DEF ErrorInv
<1> QED BY <1>1, ErrorInvariance, PTL
=============================================================================
