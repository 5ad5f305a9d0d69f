--------------------------- MODULE OptionsBuilder ---------------------------
(***************************************************************************)
(* From what an application passes as options and keyword arguments to the *)
(* dictionaries the bindings read: the option classes, their validators,   *)
(* and OptionsBuilder, which merges, flattens, validates and renames.      *)
(*                                                                         *)
(* A Python value is a pair of its type and its contents, a dictionary of  *)
(* options a function from keys to values.  Durations are in microseconds. *)
(* A result is Ok(value) or Raise(class of the exception).                 *)
(***************************************************************************)
EXTENDS Dictionaries, Integers, Sequences, FiniteSets

CONSTANTS ExistingPaths,  \* paths of files that exist
          RoundsDown      \* durations (us) that total_seconds() * 1e6 puts below their value

ASSUME OptionsAssumption == RoundsDown \subseteq Nat \ {0}

None == <<"none", "none">>
Bool(b) == <<"bool", b>>
Num(n) == <<"int", n>>
Str(s) == <<"str", s>>
Timedelta(us) == <<"timedelta", us>>
List(s) == <<"list", s>>
Dict(f) == <<"dict", f>>
Obj(name) == <<"object", name>>  \* anything json.dumps() refuses
Falsy == {None, Bool(FALSE), Num(0), Timedelta(0), Str(""), List(<<>>), Dict(<<>>)}

Ok(v) == <<"ok", v>>
Raise(e) == <<"raise", e>>
Raises(r) == r[1] = "raise"
Check(valid, v, e) == IF valid THEN Ok(v) ELSE Raise(e)

NoOptions == <<>>

-----------------------------------------------------------------------------
(* Validators.                                                              *)

\* int(total_seconds() * 1e6) of a float that is a little too small.
Microseconds(us) == IF us \in RoundsDown THEN us - 1 ELSE us

TimedeltaAsMicroseconds(v) ==
    IF v \in Falsy THEN Ok(Num(0))
    ELSE Check(v[1] = "timedelta", Num(Microseconds(v[2])), "ValueError")

\* A number counts seconds, and a bool is a number.
ToMicroseconds(v) ==
    IF v \in Falsy THEN Ok(Num(0))
    ELSE CASE v[1] = "timedelta" -> Ok(Num(Microseconds(v[2])))
           [] v[1] = "int" -> Ok(Num(v[2] * 1000000))
           [] v[1] = "bool" -> Ok(Num(1000000))
           [] OTHER -> Raise("ValueError")

EnumValues(kind) ==
    IF kind = "IpProtocol" THEN {"any", "force_ipv4", "force_ipv6"}
    ELSE {"not_bounded", "request_plus"}

\* A member of the Enum class, or the value of one.
EnumToStr(kind, v) ==
    Check(v[1] \in {"str", kind} /\ v[2] \in EnumValues(kind), Str(v[2]), "ValueError")

IsStrList(v) == v[1] = "list" /\ \A i \in DOMAIN v[2] : v[2][i][1] = "str"

ValidatePath(v) ==
    IF v[1] # "str" THEN Raise("ValueError")
    ELSE Check(v[2] \in ExistingPaths, v, "FileNotFoundError")

Convert(kind, v) ==
    CASE kind \in {"bool", "str", "dict", "deserializer"} -> Check(v[1] = kind, v, "ValueError")
      [] kind = "int" -> Check(v[1] \in {"int", "bool"}, v, "ValueError")
      [] kind = "str_list" -> Check(IsStrList(v), v, "ValueError")
      [] kind = "path" -> ValidatePath(v)
      [] kind = "timedelta" -> TimedeltaAsMicroseconds(v)
      [] kind = "duration" -> ToMicroseconds(v)
      [] kind \in {"IpProtocol", "QueryScanConsistency"} -> EnumToStr(kind, v)
      [] kind = "any" -> Ok(v)

-----------------------------------------------------------------------------
(* The option classes: the keys, which the code states four times (in the   *)
(* type of the keyword arguments, the type of the keys, VALID_OPTION_KEYS   *)
(* and a signature), and for each key the validator and the name the        *)
(* bindings know it by.                                                     *)

ClusterKeys ==
    {"allow_unknown_qstr_options", "config_poll_floor", "config_poll_interval",
     "deserializer", "disable_mozilla_ca_certificates", "dns_nameserver", "dns_port",
     "dump_configuration", "enable_clustermap_notification", "ip_protocol", "network",
     "security_options", "timeout_options", "user_agent_extra"}
SecurityKeys ==
    {"trust_only_capella", "trust_only_pem_file", "trust_only_pem_str",
     "trust_only_certificates", "trust_only_platform", "verify_server_certificate",
     "cipher_suites"}
TimeoutKeys ==
    {"connect_timeout", "dispatch_timeout", "dns_srv_timeout", "management_timeout",
     "query_timeout", "resolve_timeout", "socket_connect_timeout"}
QueryKeys ==
    {"deserializer", "lazy_execute", "named_parameters", "positional_parameters",
     "priority", "query_context", "raw", "read_only", "scan_consistency", "timeout"}

Same(kind, keys) == [k \in keys |-> <<k, kind>>]

ClusterTransforms ==
    Same("bool", {"allow_unknown_qstr_options", "disable_mozilla_ca_certificates",
                  "dump_configuration", "enable_clustermap_notification"})
    ++ Same("timedelta", {"config_poll_floor", "config_poll_interval"})
    ++ Same("str", {"dns_nameserver", "network", "user_agent_extra"})
    ++ Same("any", {"security_options", "timeout_options"})
    ++ [deserializer |-> <<"deserializer", "deserializer">>,
        dns_port |-> <<"dns_port", "int">>,
        ip_protocol |-> <<"use_ip_protocol", "IpProtocol">>]
SecurityTransforms ==
    Same("bool", {"trust_only_capella", "trust_only_platform", "verify_server_certificate"})
    ++ Same("str_list", {"trust_only_certificates", "cipher_suites"})
    ++ Same("path", {"trust_only_pem_file"}) ++ Same("str", {"trust_only_pem_str"})
TimeoutTransforms_Unnamed == Same("timedelta", TimeoutKeys)
TimeoutTransforms ==
    Same("timedelta", {"dispatch_timeout", "dns_srv_timeout", "management_timeout",
                       "resolve_timeout"})
    ++ [connect_timeout |-> <<"bootstrap_timeout", "timedelta">>,
        query_timeout |-> <<"analytics_timeout", "timedelta">>,
        socket_connect_timeout |-> <<"connect_timeout", "timedelta">>]
QueryTransforms ==
    Same("bool", {"lazy_execute", "priority"}) ++ Same("str", {"query_context"})
    ++ Same("any", {"named_parameters", "positional_parameters"})
    ++ [deserializer |-> <<"deserializer", "deserializer">>,
        raw |-> <<"raw", "dict">>,
        read_only |-> <<"readonly", "bool">>,
        scan_consistency |-> <<"scan_consistency", "QueryScanConsistency">>,
        timeout |-> <<"timeout", "duration">>]

\* _get_transform_details: the keys and the transforms of an option class.
TransformDetails(class) ==
    CASE class = "ClusterOptions" -> <<ClusterKeys, ClusterTransforms>>
      [] class = "SecurityOptions" -> <<SecurityKeys, SecurityTransforms>>
      [] class = "TimeoutOptions" -> <<TimeoutKeys, TimeoutTransforms>>
      [] class = "QueryOptions" -> <<QueryKeys, QueryTransforms>>

\* The __init__ of all four classes drops the arguments that are None.
OptionsClass(options) == Only(options, {k \in DOMAIN options : options[k] # None})

\* A profile writes the timeouts beside timeout_options, not into it.
ApplyProfile(options) ==
    [connect_timeout |-> Timedelta(60000000), dispatch_timeout |-> Timedelta(120000000),
     dns_srv_timeout |-> Timedelta(20000000), query_timeout |-> Timedelta(900000000),
     resolve_timeout |-> Timedelta(20000000), socket_connect_timeout |-> Timedelta(20000000)]
    ++ options

-----------------------------------------------------------------------------
(* OptionsBuilder.                                                          *)

\* Keyword arguments, None among them, replace what the options object says.
GetOptionsCopy(kwargs, options) == kwargs ++ OptionsClass(options)

\* Keys outside the class are left out; the first value that its validator
\* refuses decides what is raised; what becomes None is left out.
Transformed(copied, keys, transforms) ==
    LET allowed == DOMAIN copied \cap keys
        converted == [k \in allowed |-> Convert(transforms[k][2], copied[k])]
        failing == {k \in allowed : Raises(converted[k])}
        kept == {k \in allowed : converted[k] # Ok(None)}
        keyOf(name) == CHOOSE k \in kept : transforms[k][1] = name
    IN  IF failing # {} THEN converted[CHOOSE k \in failing : TRUE]
        ELSE Ok([name \in {transforms[k][1] : k \in kept} |-> converted[keyOf(name)][2]])

BuildOptions(class, kwargs, options) ==
    Transformed(GetOptionsCopy(kwargs, options),
                TransformDetails(class)[1], TransformDetails(class)[2])

Nested(options, key) ==
    IF Has(options, key) /\ options[key][1] = "dict" THEN options[key][2] ELSE NoOptions

\* Security and timeout options move up, behind what is there already.
Flatten(options) ==
    Without(options, {"security_options", "timeout_options"})
    ++ Nested(options, "security_options") ++ Nested(options, "timeout_options")

\* The transformed nested options, when there are any.
AsOption(key, built) == IF DOMAIN built = {} THEN NoOptions ELSE Entry(key, Dict(built))

BuildClusterOptions(kwargs, options) ==
    LET flat == Flatten(GetOptionsCopy(kwargs, options))
        security == BuildOptions("SecurityOptions", flat, NoOptions)
        timeouts == BuildOptions("TimeoutOptions", flat, NoOptions)
    IN  IF Raises(security) THEN security
        ELSE IF Raises(timeouts) THEN timeouts
        ELSE BuildOptions("ClusterOptions",
                          AsOption("security_options", security[2])
                          ++ AsOption("timeout_options", timeouts[2]) ++ flat, NoOptions)
=============================================================================
