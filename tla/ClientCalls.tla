---------------------------- MODULE ClientCalls ----------------------------
(***************************************************************************)
(* One cluster and one query, from the application's arguments to the core *)
(* and back: the cluster's details are built (ConnectionDetails), the core *)
(* opens the connection or fails to, execute_query() builds a request      *)
(* (QueryRequest), the bindings hand it to the core, and what the core     *)
(* answers becomes a result or an exception (ErrorMapping).                *)
(*                                                                         *)
(* The core may refuse or fail every call with any of the given errors.    *)
(* Both APIs are here; the asyncio API wants an event loop as well.        *)
(***************************************************************************)
EXTENDS ConnectionDetails, QueryRequest, ErrorMapping, EventLoop

CONSTANTS ClusterCalls,   \* arguments of Cluster.create_instance
          QueryCalls(_),  \* arguments of execute_query on a cluster created with those
          CoreErrors      \* what the core fails with

\* A client error has one of the three codes that the bindings know, a columnar
\* error any code but 6, which is the authentication failure of the common ones.
ASSUME ClientCallsAssumption ==
    \A err \in CoreErrors :
        \/ err.category = "client" /\ err.code \in {Canceled, InvalidArgument, ClusterClosed}
        \/ err.category = "columnar" /\ err.code # 6
        \/ err.category = "common" /\ err.code = 6

\* Integers and durations are numbers and a bool is one of two, whoever passes them;
\* what a query string says is digits, true, false or another word.
Typed(v) ==
    /\ v[1] \in {"int", "timedelta"} => v[2] \in Int
    /\ v[1] = "bool" => v \in {Bool(TRUE), Bool(FALSE)}
AllTyped(f) == \A k \in DOMAIN f : Typed(f[k])
TypedWord(v) ==
    \/ v[1] = "text"
    \/ v[1] = "digits" /\ v[2] \in Nat
    \/ v \in {Word(TRUE), Word(FALSE)}

\* The nested options are those of their classes.
TypedOptions(f) ==
    /\ AllTyped(f)
    /\ \A g \in {Nested(f, "security_options"), Nested(f, "timeout_options")} : AllTyped(g)
    /\ DOMAIN Nested(f, "security_options") \subseteq SecurityKeys
    /\ DOMAIN Nested(f, "timeout_options") \subseteq TimeoutKeys

TypedCluster(c) ==
    /\ \A k \in DOMAIN c.str.query : Len(c.str.query[k]) > 1 \/ TypedWord(c.str.query[k][1])
    /\ TypedOptions(c.kwargs) /\ TypedOptions(c.options)
\* A cluster's query has the name of neither database nor scope.
TypedCall(q) ==
    /\ AllTyped(q.kwargs) /\ AllTyped(OptionsOf(q.args))
    /\ q.scope = "" => q.database = ""

ASSUME CallsAssumption ==
    \A c \in ClusterCalls : TypedCluster(c) /\ \A q \in QueryCalls(c) : TypedCall(q)

\* The fields of the core's options that the bindings set or report.
CoreFields ==
    {"bootstrap_timeout", "dispatch_timeout", "resolve_timeout", "connect_timeout",
     "analytics_timeout", "management_timeout", "trust_only_capella", "trust_only_pem_file",
     "trust_certificate", "trust_only_pem_string", "trust_certificate_value",
     "trust_only_certificates", "trust_only_platform", "cipher_suites", "tls_verify",
     "disable_mozilla_ca_certificates", "use_ip_protocol", "enable_dns_srv",
     "enable_clustermap_notification", "network", "config_poll_interval",
     "config_poll_floor", "user_agent_extra", "dns_config", "dump_configuration"}

\* The core's defaults, in its options as they are constructed; certificates are
\* Capella's, and everything is on but the three that applications may ask for.
ASSUME CoreDefaultsAssumption ==
    /\ AnalyticsTimeout \in Nat /\ DOMAIN CoreDefaults = CoreFields
    /\ CoreDefaults.trust_only_certificates = <<>> /\ CoreDefaults.tls_verify = "peer"
    /\ \A k \in {"trust_only_capella", "enable_dns_srv", "enable_clustermap_notification"} :
          CoreDefaults[k] = TRUE
    /\ \A k \in {"trust_only_pem_file", "trust_only_pem_string", "trust_only_platform",
                 "disable_mozilla_ca_certificates", "dump_configuration"} : CoreDefaults[k] = FALSE
    /\ CoreDefaults.use_ip_protocol \in EnumValues("IpProtocol")
    /\ CoreDefaults.dns_config.port \in Nat /\ CoreDefaults.dns_config.port <= 65535

VARIABLES
    phase,      \* how far the calls have come
    given,      \* the arguments of create_instance, and the caller's event loop
    loop,       \* the loop of an asyncio cluster
    details,    \* _ConnectionDetails
    core,       \* the cluster options in the core
    call,       \* the arguments of execute_query
    request,    \* the QueryRequest
    coreQuery,  \* the query options the core is given
    coreError,  \* what the core answered, NoError for success
    outcome     \* what the application has got

vars == <<phase, given, loop, details, core, call, request, coreQuery, coreError, outcome>>

Unset == <<>>
NoError == [category |-> "none", code |-> 0, server |-> NoServerError]
Result == [class |-> "result", code |-> NoServerError]
Phases == {"new", "connecting", "connected", "submitting", "waiting",
           "refused", "unconnected", "rejected", "failed", "done"}

Init ==
    /\ phase = "new" /\ given = Unset /\ loop = NoLoop /\ details = Unset /\ core = Unset
    /\ call = Unset /\ request = Unset /\ coreQuery = Unset
    /\ coreError = NoError /\ outcome = Result

\* A call ends with an exception.
Fails(next, exception) == phase' = next /\ outcome' = exception

\* _ClientAdapter.__init__ of the blocking API, ...
BlockingAdapter(c) ==
    Create(c.str, Credential(c.username, c.password), c.kwargs, c.options)

\* ... and of the asyncio API, where the loop comes first.
AsyncAdapter(c) ==
    LET adapterLoop == AdapterLoop(c.loop, c.current)
    IN  IF ~Raises(Credential(c.username, c.password)) /\ Raises(adapterLoop)
        THEN adapterLoop ELSE BlockingAdapter(c)

\* Cluster.__init__ up to its _connect(), when this is what becomes of its adapter.
Creates(c, created) ==
    /\ given' = c
    /\ IF Raises(created)
       THEN Fails("refused", Exception(created[2], <<>>)) /\ UNCHANGED <<loop, details>>
       ELSE /\ phase' = "connecting" /\ details' = created[2] /\ UNCHANGED outcome
            /\ loop' = IF c.api = "asyncio" THEN AdapterLoop(c.loop, c.current)[2] ELSE NoLoop

CreateCluster ==
    /\ phase = "new"
    /\ \E c \in ClusterCalls :
          Creates(c, IF c.api = "asyncio" THEN AsyncAdapter(c) ELSE BlockingAdapter(c))
    /\ UNCHANGED <<core, call, request, coreQuery, coreError>>

\* connect() of the two adapters, which differ in the wrapper.
ConnectRaises(api, exc) == IF api = "asyncio" THEN AsyncWrapped(exc) ELSE Wrapped(exc)

\* _connect(): the options are set, the connection is opened, and an error of
\* either comes back through the wrapper.
Connect ==
    /\ phase = "connecting"
    /\ \E err \in {NoError} \cup CoreErrors :
        LET options == ConnectReqDict(ConnectRequest(details)).options
            raises(exc) == Fails("unconnected", ConnectRaises(given.api, exc))
        IN  /\ core' = UpdateClusterOptions(CoreDefaults, options)
            /\ coreError' = err
            /\ IF RequestOverflows(options) THEN raises(PythonException("SystemError"))
               ELSE IF err # NoError THEN raises(BuildError(BuildException(err)))
               ELSE phase' = "connected" /\ UNCHANGED outcome
    /\ UNCHANGED <<given, loop, details, call, request, coreQuery>>

\* execute_query() of a cluster or scope.
Prepare(api, q, default) ==
    IF api = "asyncio" THEN PrepareAsyncQuery(q, default) ELSE PrepareQuery(q, default)

Executes(q, prepared) ==
    /\ call' = q
    /\ IF Raises(prepared)
       THEN Fails("rejected", Exception(prepared[2], <<>>)) /\ UNCHANGED request
       ELSE phase' = "submitting" /\ request' = prepared[2] /\ UNCHANGED outcome

ExecuteQuery ==
    /\ phase = "connected"
    /\ \E q \in QueryCalls(given) : Executes(q, Prepare(given.api, q, details.deserializer))
    /\ UNCHANGED <<given, loop, details, core, coreQuery, coreError>>

\* columnar_query_op() and what submit_query() makes of its exceptions.
Submit ==
    /\ phase = "submitting"
    /\ LET args == ToReqDict(request)
           query == BuildQueryOptions(args[2])
       IN  \/ /\ Raises(args)
              /\ Fails("failed", FromBindings(PythonException(args[2])))
              /\ UNCHANGED <<coreQuery, coreError>>
           \/ /\ ~Raises(args) /\ Raises(query)
              /\ Fails("failed", FromBindings(PythonException(query[2])))
              /\ UNCHANGED <<coreQuery, coreError>>
           \/ /\ ~Raises(args) /\ ~Raises(query)
              /\ coreQuery' = query[2]
              /\ \/ /\ phase' = "waiting" /\ UNCHANGED <<coreError, outcome>>
                 \/ \E err \in CoreErrors :
                       /\ coreError' = err
                       /\ Fails("done", FromBindings(BuildException(err)))
    /\ UNCHANGED <<given, loop, details, core, call, request>>

\* wait_for_core_query_result() returns True or an exception as a value.
Answer ==
    /\ phase = "waiting"
    /\ \E err \in {NoError} \cup CoreErrors :
        /\ coreError' = err
        /\ phase' = "done"
        /\ outcome' = IF err = NoError THEN Result ELSE BuildError(BuildException(err))
    /\ UNCHANGED <<given, loop, details, core, call, request, coreQuery>>

Next == CreateCluster \/ Connect \/ ExecuteQuery \/ Submit \/ Answer

Spec == Init /\ [][Next]_vars

-----------------------------------------------------------------------------
\* Every variable has its type; what the core is given has the core's ranges.
TypeOK ==
    /\ phase \in Phases
    /\ outcome.class \in {"result", "FileNotFoundError"} \cup ColumnarErrors \cup ClientErrors
    /\ coreError \in {NoError} \cup CoreErrors
    /\ core # Unset =>
        /\ core.dns_config.port \in Nat /\ core.dns_config.port <= 65535
        /\ core.use_ip_protocol \in EnumValues("IpProtocol")
        /\ core.tls_verify \in {"none", "peer"}
    /\ coreQuery # Unset =>
        /\ coreQuery.timeout \in Nat
        /\ coreQuery.scan_consistency \in EnumValues("QueryScanConsistency") \cup {"unset"}

Connected == core # Unset /\ phase # "unconnected"

\* Where the application can say something about option k, and which comes first.
Absent == <<"absent", "absent">>
Says(levels, k) == {i \in DOMAIN levels : Has(levels[i], k)}
Meant(levels, k) ==
    IF Says(levels, k) = {} THEN Absent
    ELSE levels[CHOOSE i \in Says(levels, k) : \A j \in Says(levels, k) : i <= j][k]
QueryString == ParseConnectionString(given.str)[2]
ClusterLevels == <<QueryString, given.kwargs, OptionsClass(given.options)>>
OptionLevels(nested) == ClusterLevels \o <<Nested([k \in {nested} |-> Meant(ClusterLevels, k)], nested)>>
MeantTimeout(k) == Meant(OptionLevels("timeout_options"), k)
MeantSecurity(k) == Meant(OptionLevels("security_options"), k)
MeantCluster(k) == Meant(ClusterLevels, k)

\* The query string comes before the keyword arguments, these before the options
\* object, and timeout_options last of all: so what a profile wrote beside it
\* stays in force, and a whole timeout_options replaces another.
TimeoutFields ==
    [connect_timeout |-> "bootstrap_timeout", dispatch_timeout |-> "dispatch_timeout",
     management_timeout |-> "management_timeout", query_timeout |-> "analytics_timeout",
     resolve_timeout |-> "resolve_timeout", socket_connect_timeout |-> "connect_timeout"]

\* What the application means by a duration, in microseconds.
Duration(v) ==
    CASE v[1] = "timedelta" -> v[2]
      [] v[1] = "int" -> v[2] * 1000000
      [] v[1] = "bool" -> 1000000
Shortened(us, ms) == ms * 1000 <= us /\ us <= ms * 1000 + 1000
Defaulted(v, ms, default) == v = Absent /\ ms = default
\* None in a keyword argument, which the options' documentation has as the default.
NoneIsZero(v, ms) == v = None /\ ms = 0
Kept(v, ms) ==
    /\ v \notin {Absent, None}
    /\ IF v \in Falsy THEN ms = 0 ELSE Shortened(Duration(v), ms)
DurationFits(v, ms, default) == Defaulted(v, ms, default) \/ NoneIsZero(v, ms) \/ Kept(v, ms)

\* Each timeout and interval reaches the field of the core that it is named for,
\* from the place that has the last word; it may lose up to a millisecond on the
\* way through floats and integer division, and is never lengthened.  None is the
\* exception: ClusterOptions and TimeoutOptions document it as the default, an options
\* object drops it, and a keyword argument makes it zero (NoneIsZero).
DurationsReachCore ==
    Connected =>
        /\ \A k \in DOMAIN TimeoutFields :
              DurationFits(MeantTimeout(k), core[TimeoutFields[k]],
                           CoreDefaults[TimeoutFields[k]])
        /\ DurationFits(MeantTimeout("dns_srv_timeout"), core.dns_config.timeout,
                        CoreDefaults.dns_config.timeout)
        /\ \A k \in {"config_poll_floor", "config_poll_interval"} :
              DurationFits(MeantCluster(k), core[k], CoreDefaults[k])

Info == ConnectionInfo(core, ClusterCredentials(details.credential))
Plain(v) == IF v[1] \in {"bool", "str", "IpProtocol"} THEN v[2] ELSE v

\* Flags, network, IP protocol, TLS verification and user name, as get_connection_info
\* reports them, are what the application said last, or the core's default when it
\* said nothing; DNS SRV is off when the connection string says so.  An asyncio
\* cluster has the loop that the application gave, or the one that runs its caller,
\* or, when none runs, at least one with readers and writers.
OptionsReachCore ==
    Connected =>
        /\ \A k \in {"disable_mozilla_ca_certificates", "enable_clustermap_notification",
                     "network", "dump_configuration"} :
              Info[k] = IF MeantCluster(k) = Absent THEN CoreDefaults[k] ELSE Plain(MeantCluster(k))
        /\ Info.ip_protocol = IF MeantCluster("ip_protocol") = Absent
                              THEN CoreDefaults.use_ip_protocol
                              ELSE Plain(MeantCluster("ip_protocol"))
        /\ ~Info.enable_dns_srv <=> Get(QueryString, "srv", None) = Bool(FALSE)
        /\ Info.tls_verify = "none" <=> MeantSecurity("verify_server_certificate") = Bool(FALSE)
        /\ Info.credentials.username = given.username[2]
        /\ given.api = "asyncio" =>
              /\ given.loop # NoLoop => loop = given.loop
              /\ given.loop = NoLoop => IsValidLoop(loop)
              /\ given.loop = NoLoop /\ given.current.running => loop = given.current

\* What the application asks for beside, or instead of, Capella's certificates.
GivesCertificates ==
    \E k \in {"trust_only_pem_file", "trust_only_pem_str", "trust_only_certificates"} :
        MeantSecurity(k) # Absent
AsksForOthers == GivesCertificates \/ MeantSecurity("trust_only_platform") = Bool(TRUE)

\* The core trusts Capella's certificates alone, and by default: not together with
\* a certificate or the platform's, and not when the application gave one, asked
\* for others or refused Capella's.  An application that asks for Capella's alone
\* and gives certificates is refused.  SecurityOptions says that a single source of
\* trust can be used; three are accepted beside trust_only_capella, and the core
\* does not trust Capella's then: the platform, a blank PEM, an empty list.
TrustIsExclusive ==
    Connected =>
        /\ core.trust_only_capella =>
              /\ ~core.trust_only_pem_file /\ ~core.trust_only_pem_string
              /\ core.trust_only_certificates = <<>> /\ ~core.trust_only_platform
        /\ core.trust_only_capella <=>
              MeantSecurity("trust_only_capella") # Bool(FALSE) /\ ~AsksForOthers
        /\ MeantSecurity("trust_only_capella") = Bool(TRUE) /\ ~core.trust_only_capella =>
              \/ MeantSecurity("trust_only_platform") = Bool(TRUE)
              \/ IsNullOrEmpty(MeantSecurity("trust_only_pem_file"))
              \/ IsNullOrEmpty(MeantSecurity("trust_only_pem_str"))
              \/ MeantSecurity("trust_only_certificates") = List(<<>>)

-----------------------------------------------------------------------------
QueryLevels == <<call.kwargs, OptionsOf(call.args)>>
MeantQuery(k) == Meant(QueryLevels, k)
Positional == ParametersOf(call.args, call.kwargs)
Named == Without(call.kwargs, QueryKeys \cup {"cancel_token"})
OrDefault(v, default) == IF v \in {None, Absent} THEN default ELSE v

\* The query the core is given is the query the application meant: parameters of
\* the call before those of the options, every option that the bindings read from
\* the keyword arguments first, no parameter missing, and the names of database and
\* scope beside it.  Nothing reads query_context, and a timeout of None, documented
\* as the default, is zero in a keyword argument (NoneIsZero).
QueryReachesCore ==
    coreQuery # Unset =>
        /\ coreQuery.positional_parameters =
              IF Positional # <<>> THEN Positional
              ELSE Iterated(OrDefault(MeantQuery("positional_parameters"), List(<<>>)))
        /\ LET named == IF Named # <<>> THEN Named
                        ELSE OrDefault(MeantQuery("named_parameters"), Dict(<<>>))[2]
           IN  coreQuery.named_parameters = WithDollars(named)
        /\ \A k \in {"priority", "read_only"} : coreQuery[k] <=> MeantQuery(k) = Bool(TRUE)
        /\ coreQuery.scan_consistency = OrDefault(MeantQuery("scan_consistency"), Str("unset"))[2]
        /\ coreQuery.raw = OrDefault(MeantQuery("raw"), Dict(<<>>))[2]
        /\ coreQuery.database_name = call.database /\ coreQuery.scope_name = call.scope
        /\ DurationFits(MeantQuery("timeout"), coreQuery.timeout, AnalyticsTimeout)
        /\ request.deserializer = OrDefault(MeantQuery("deserializer"), details.deserializer)

\* Without a timeout of its own a query has the cluster's: "Timeout will default
\* to cluster setting if not set for the operation", says QueryOptions.
TimeoutDefaultsToCluster ==
    coreQuery # Unset /\ Says(QueryLevels, "timeout") = {} =>
        coreQuery.timeout = core.analytics_timeout

\* Nothing of the bindings or of Python's own gets out: arguments are refused
\* with ValueError or FileNotFoundError before the core is asked (or with
\* RuntimeError, for want of a loop, and for a token with a lazy query),
\* connecting fails with a columnar or an internal error, and a query that the
\* core was given fails with a mapped error.
ErrorsAreMapped ==
    /\ phase \in {"refused", "rejected"} =>
          outcome.class \in {"ValueError", "FileNotFoundError", "RuntimeError"}
    /\ outcome.class = "RuntimeError" =>
          \/ phase = "refused" /\ given.api = "asyncio" /\ given.loop = NoLoop
          \/ phase = "rejected" /\ given.api # "asyncio"
                /\ MeantQuery("lazy_execute") = Bool(TRUE)
          \/ phase = "done" /\ coreError.code = ClusterClosed
    /\ phase = "unconnected" => outcome.class \in ColumnarErrors \cup {"InternalSDKError"}
    /\ phase = "failed" => outcome.class = "InternalSDKError" /\ coreQuery = Unset
    /\ phase = "done" =>
          outcome.class \in ({"result"} \cup ColumnarErrors \cup ClientErrors) \ {"InternalSDKError"}

Meaning(err) ==
    CASE err.category = "client" ->
            (CASE err.code = Canceled -> "QueryOperationCanceledError"
               [] err.code = ClusterClosed -> "RuntimeError"
               [] err.code = InvalidArgument -> "ValueError")
      [] err.category = "columnar" ->
            (CASE err.code = InvalidCredential -> "InvalidCredentialError"
               [] err.code = Timeout -> "TimeoutError"
               [] err.code = QueryFailed -> "QueryError"
               [] OTHER -> "ColumnarError")
      [] err.category = "common" -> "InvalidCredentialError"

\* An error of a query has the class its code stands for, whether the core
\* refuses the query or answers it, and a QueryError has the code the server
\* gave, if it gave one, and no other exception has one.
ErrorsKeepTheirMeaning ==
    phase = "done" /\ coreError # NoError =>
        /\ outcome.class = Meaning(coreError)
        /\ outcome.code = IF outcome.class = "QueryError" THEN coreError.server ELSE NoServerError

-----------------------------------------------------------------------------
\* The inductive invariant behind the last two: nothing has been raised while a call
\* is under way, and the core is given a query by the bindings only.
ErrorInv ==
    /\ phase \in Phases
    /\ phase \in {"new", "connecting", "connected", "submitting", "waiting"} => outcome = Result
    /\ phase \in Phases \ {"waiting", "done"} => coreQuery = Unset
    /\ ErrorsAreMapped /\ ErrorsKeepTheirMeaning

\* The one behind QueryReachesCore: where the request and the core's query come from.
CallInv ==
    /\ phase \in Phases
    /\ phase \in {"connecting", "connected"} => \A q \in QueryCalls(given) : TypedCall(q)
    /\ phase \in {"submitting", "waiting", "failed", "done"} =>
          LET prepared == Prepare(given.api, call, details.deserializer)
          IN  TypedCall(call) /\ ~Raises(prepared) /\ request = prepared[2]
    /\ coreQuery # Unset =>
          LET args == ToReqDict(request)
              query == BuildQueryOptions(args[2])
          IN  /\ phase \in {"waiting", "done"}
              /\ ~Raises(args) /\ ~Raises(query) /\ coreQuery = query[2]

\* The one behind the cluster's properties: where its details and options come from.
ClusterInv ==
    /\ phase \in Phases /\ coreError \in {NoError} \cup CoreErrors
    /\ phase \notin {"new", "refused"} =>
          LET created == BlockingAdapter(given)
              adapterLoop == AdapterLoop(given.loop, given.current)
          IN  /\ TypedCluster(given) /\ ~Raises(created) /\ details = created[2]
              /\ given.api = "asyncio" => ~Raises(adapterLoop) /\ loop = adapterLoop[2]
    /\ core # Unset =>
          LET options == ConnectReqDict(ConnectRequest(details)).options
          IN  /\ phase \notin {"new", "refused", "connecting"}
              /\ core = UpdateClusterOptions(CoreDefaults, options)
              /\ phase # "unconnected" => ~RequestOverflows(options)
=============================================================================
