------------------------- MODULE ConnectionDetails -------------------------
(***************************************************************************)
(* What a cluster is created with: the connection string, the credential,  *)
(* options and keyword arguments become _ConnectionDetails, then a         *)
(* ConnectRequest, then the options of the core's cluster, and             *)
(* get_connection_info reports them.                                       *)
(*                                                                         *)
(* A connection string is its scheme and its query: each key has the list  *)
(* of its values, and a value is what its text looks like: digits, the     *)
(* words true and false, or another word.                                  *)
(***************************************************************************)
EXTENDS OptionsBuilder

CONSTANTS Version,       \* PYCBCC_VERSION
          BlankStrings,  \* strings of white space and nothing else
          CoreDefaults   \* the core's cluster_options as they are constructed

-----------------------------------------------------------------------------
(* The connection string.                                                   *)

Digits(n) == <<"digits", n>>
Word(b) == <<"boolean", b>>
Text(s) == <<"text", s>>

ParseQueryStringValue(values) ==
    IF Len(values) > 1 THEN List([i \in DOMAIN values |-> Str(values[i][2])])
    ELSE CASE values[1][1] = "digits" -> Num(values[1][2])
           [] values[1][1] = "boolean" -> Bool(values[1][2])
           [] values[1][1] = "text" -> Str(values[1][2])

ParseConnectionString(str) ==
    IF str.scheme # "couchbases" THEN Raise("ValueError")
    ELSE Ok([k \in DOMAIN str.query |-> ParseQueryStringValue(str.query[k])])

\* All of the query goes back into the connection string, not the unknown part only.
AddUnknownOpts(allow, query) == IF allow = Bool(TRUE) THEN query ELSE NoOptions

-----------------------------------------------------------------------------
(* _ConnectionDetails.                                                      *)

\* Credential.__init__ wants two strings.
Credential(username, password) ==
    Check(username[1] = "str" /\ password[1] = "str",
          [username |-> username[2], password |-> password[2]], "ValueError")

TrustsCertificates_FileOnly(security) == Has(security, "trust_only_pem_file")

\* isspace() holds of white space, and not of the empty string.
IsNullOrEmpty(v) == v = None \/ (v[1] = "str" /\ v[2] \in BlankStrings)

TrustsCertificates(security) ==
    \/ \E k \in {"trust_only_pem_file", "trust_only_pem_str"} :
          ~IsNullOrEmpty(Get(security, k, None))
    \/ Get(security, "trust_only_certificates", List(<<>>)) # List(<<>>)

ValidSecurity(options) ==
    LET security == Nested(options, "security_options")
    IN  Get(security, "trust_only_capella", None) = Bool(TRUE) => ~TrustsCertificates(security)

UserAgent(options) ==
    IF Has(options, "user_agent_extra") THEN Str(Version \o ";" \o options["user_agent_extra"][2])
    ELSE Str(Version)

Details(built, query, srv, credential) ==
    [options |-> Entry("user_agent_extra", UserAgent(built))
                 ++ Without(built, {"allow_unknown_qstr_options", "deserializer"}),
     unparsed |-> AddUnknownOpts(Get(built, "allow_unknown_qstr_options", None), query),
     credential |-> credential,
     deserializer |-> Get(built, "deserializer", <<"deserializer", "default">>),
     noDnsSrv |-> srv = Bool(FALSE)]

QueryStringOver_KwargsWin(kwargs, query) == kwargs ++ query
QueryStringOver(kwargs, query) == query ++ kwargs

\* _ConnectionDetails.create: the query string replaces keyword arguments.
Create(str, credential, kwargs, options) ==
    LET parsed == ParseConnectionString(str)
        query == Without(parsed[2], {"srv"})
        built == BuildClusterOptions(QueryStringOver(kwargs, query), options)
    IN  IF Raises(credential) THEN credential
        ELSE IF Raises(parsed) THEN parsed
        ELSE IF Raises(built) THEN built
        ELSE Check(ValidSecurity(built[2]),
                   Details(built[2], query, Get(parsed[2], "srv", None), credential[2]),
                   "ValueError")

\* build_connection_request.
ConnectRequest(details) ==
    [connection_str |-> details.unparsed, credential |-> details.credential,
     options |-> details.options, enable_dns_srv |-> ~details.noDnsSrv]

\* ConnectRequest.to_req_dict: enable_dns_srv is an option when it is False.
ConnectReqDict(request) ==
    [request EXCEPT !.options =
        (IF request.enable_dns_srv THEN NoOptions ELSE Entry("enable_dns_srv", Bool(FALSE))) ++ @]

-----------------------------------------------------------------------------
(* The bindings.                                                            *)

\* PyLong_AsUnsignedLongLong refuses a negative number.  Nobody looks at the
\* error it sets: the connection is opened, and the call fails in the end.
Overflows(v) == v[1] = "int" /\ v[2] < 0
NumericKeys == {"config_poll_floor", "config_poll_interval", "dns_port"}
RequestOverflows(options) ==
    \/ \E k \in DOMAIN options \cap NumericKeys : Overflows(options[k])
    \/ \E k \in DOMAIN Nested(options, "timeout_options") :
          Overflows(Nested(options, "timeout_options")[k])

\* Microseconds become whole milliseconds.  A negative number becomes a huge one,
\* which nobody sees: the call that sends it fails (RequestOverflows).
Millis(us) == us \div 1000

MillisOf(options, key, default) ==
    IF Has(options, key) THEN Millis(options[key][2]) ELSE default

UpdateClusterTimeoutOptions(core, timeouts) ==
    [core EXCEPT
        !.bootstrap_timeout = MillisOf(timeouts, "bootstrap_timeout", @),
        !.dispatch_timeout = MillisOf(timeouts, "dispatch_timeout", @),
        !.resolve_timeout = MillisOf(timeouts, "resolve_timeout", @),
        !.connect_timeout = MillisOf(timeouts, "connect_timeout", @),
        !.analytics_timeout = MillisOf(timeouts, "analytics_timeout", @),
        !.management_timeout = MillisOf(timeouts, "management_timeout", @)]

\* The list as the core keeps it: an empty one leaves the core's own.
NonEmpty(options, key, default) ==
    IF Get(options, key, List(<<>>)) = List(<<>>) THEN default
    ELSE [i \in DOMAIN options[key][2] |-> options[key][2][i][2]]

UpdateClusterSecurityOptions(core, security) ==
    LET platform == Get(security, "trust_only_platform", None) = Bool(TRUE)
        other == \/ Get(security, "trust_only_capella", None) = Bool(FALSE)
                 \/ platform
                 \/ DOMAIN security \cap {"trust_only_pem_file", "trust_only_pem_str",
                                          "trust_only_certificates"} # {}
    IN  [core EXCEPT
            !.trust_only_capella = @ /\ ~other,
            !.trust_only_pem_file = @ \/ Has(security, "trust_only_pem_file"),
            !.trust_certificate = Get(security, "trust_only_pem_file", Str(@))[2],
            !.trust_only_pem_string = @ \/ Has(security, "trust_only_pem_str"),
            !.trust_certificate_value = Get(security, "trust_only_pem_str", Str(@))[2],
            !.trust_only_certificates = NonEmpty(security, "trust_only_certificates", @),
            !.trust_only_platform = @ \/ platform,
            !.cipher_suites = NonEmpty(security, "cipher_suites", @),
            !.tls_verify = IF Get(security, "verify_server_certificate", None) = Bool(FALSE)
                           THEN "none" ELSE @]

\* A port has sixteen bits, and a bool is a number.
PortOf(v) == CASE v = Bool(TRUE) -> 1 [] v = Bool(FALSE) -> 0 [] OTHER -> v[2] % 65536

\* dns_config is replaced as a whole, its timeout by the core's default.
UpdateDnsConfig(dns, options) ==
    LET timeouts == Only(Nested(options, "timeout_options"), {"dns_srv_timeout"})
        given == timeouts ++ Only(options, {"dns_nameserver", "dns_port"})
    IN  IF DOMAIN given = {} THEN dns
        ELSE [nameserver |-> Get(given, "dns_nameserver", Str(dns.nameserver))[2],
              port |-> IF Has(given, "dns_port") THEN PortOf(given.dns_port) ELSE dns.port,
              timeout |-> MillisOf(given, "dns_srv_timeout", CoreDefaults.dns_config.timeout)]

\* update_cluster_options.  A boolean that has the core's default value has no effect.
UpdateClusterOptions(core, options) ==
    [UpdateClusterSecurityOptions(
        UpdateClusterTimeoutOptions(core, Nested(options, "timeout_options")),
        Nested(options, "security_options")) EXCEPT
        !.disable_mozilla_ca_certificates =
            @ \/ Get(options, "disable_mozilla_ca_certificates", None) = Bool(TRUE),
        !.use_ip_protocol = Get(options, "use_ip_protocol", Str(@))[2],
        !.enable_dns_srv = @ /\ Get(options, "enable_dns_srv", None) # Bool(FALSE),
        !.enable_clustermap_notification =
            @ /\ Get(options, "enable_clustermap_notification", None) # Bool(FALSE),
        !.network = Get(options, "network", Str(@))[2],
        !.config_poll_interval = MillisOf(options, "config_poll_interval", @),
        !.config_poll_floor = MillisOf(options, "config_poll_floor", @),
        !.user_agent_extra = Get(options, "user_agent_extra", Str(@))[2],
        !.dns_config = UpdateDnsConfig(@, options),
        !.dump_configuration =
            @ \/ Get(options, "dump_configuration", None) = Bool(TRUE)]

\* get_cluster_credentials.
ClusterCredentials(credential) == credential ++ [allowed_sasl_mechanisms |-> <<"PLAIN">>]

\* get_connection_info: neither the dispatch timeout nor the other sources of trust.
ConnectionInfo(core, credentials) ==
    [k \in {"bootstrap_timeout", "resolve_timeout", "connect_timeout", "analytics_timeout",
            "management_timeout", "trust_certificate", "disable_mozilla_ca_certificates",
            "enable_dns_srv", "enable_clustermap_notification", "network", "tls_verify",
            "config_poll_interval", "config_poll_floor", "user_agent_extra",
            "dump_configuration"} |-> core[k]]
    ++ [dns_srv_timeout |-> core.dns_config.timeout, ip_protocol |-> core.use_ip_protocol,
        credentials |-> credentials]
=============================================================================
