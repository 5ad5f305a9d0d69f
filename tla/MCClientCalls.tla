--------------------------- MODULE MCClientCalls ---------------------------
(* Model-checking instance of ClientCalls: what applications pass, one      *)
(* aspect varied at a time.                                                 *)
EXTENDS ClientCalls, TLC

MCExistingPaths == {"ca.pem"}
\* 1.001 s is one: int(1.001 * 1e6) = 1000999.
MCRoundsDown == {1001000}
MCVersion == "pycbcc"
MCBlankStrings == {" "}
MCCharacters(s) == IF s = "p1" THEN <<Str("p"), Str("1")>> ELSE <<>>
MCAnalyticsTimeout == 600000

MCCoreDefaults ==
    [bootstrap_timeout |-> 10000, dispatch_timeout |-> 30000, resolve_timeout |-> 2000,
     connect_timeout |-> 2000, analytics_timeout |-> 600000, management_timeout |-> 75000,
     trust_only_capella |-> TRUE, trust_only_pem_file |-> FALSE, trust_certificate |-> "",
     trust_only_pem_string |-> FALSE, trust_certificate_value |-> "",
     trust_only_certificates |-> <<>>, trust_only_platform |-> FALSE, cipher_suites |-> <<>>,
     tls_verify |-> "peer", disable_mozilla_ca_certificates |-> FALSE,
     use_ip_protocol |-> "any", enable_dns_srv |-> TRUE,
     enable_clustermap_notification |-> TRUE, network |-> "auto",
     config_poll_interval |-> 2500, config_poll_floor |-> 50, user_agent_extra |-> "",
     dns_config |-> [nameserver |-> "system", port |-> 53, timeout |-> 500],
     dump_configuration |-> FALSE]

MCCoreErrors ==
    [category : {"client"}, code : {Canceled, InvalidArgument, ClusterClosed}, server : {0}]
    \cup [category : {"columnar"}, code : {Generic, InvalidCredential, Timeout, 9}, server : {0}]
    \cup [category : {"columnar"}, code : {QueryFailed}, server : {0, 24000}]
    \cup {[category |-> "common", code |-> 6, server |-> 0]}

-----------------------------------------------------------------------------
(* Clusters.                                                                *)

Certificate == Str("pem")
\* At most one entry: the key with one of the values, or nothing.
Perhaps(k, values) == {NoOptions} \cup {k :> v : v \in values}
Join(A, B) == {a @@ b : a \in A, b \in B}

Cluster(scheme, query, kwargs, options) ==
    [api |-> "blocking", loop |-> NoLoop, current |-> NoLoop,
     str |-> [scheme |-> scheme, query |-> query], username |-> Str("user"),
     password |-> Str("pw"), kwargs |-> kwargs, options |-> options]
PlainCluster == Cluster("couchbases", NoOptions, NoOptions, NoOptions)

BadStrings ==
    {Cluster("couchbase", NoOptions, NoOptions, NoOptions),
     [PlainCluster EXCEPT !.username = None], [PlainCluster EXCEPT !.password = Num(1)]}

Durations == {Timedelta(0), Timedelta(500), Timedelta(1500), Timedelta(1001000), Timedelta(-1000)}
Timeouts == {Dict(f) : f \in Join(Perhaps("query_timeout", Durations),
                                  Perhaps("socket_connect_timeout", {Timedelta(3000), Num(3)}))}
TimeoutCalls ==
    {Cluster("couchbases", q, k, o) :
        q \in Perhaps("query_timeout", {<<Digits(0)>>, <<Digits(5)>>, <<Text("5s")>>}),
        k \in Perhaps("timeout_options", {Dict(<<>>), Dict([query_timeout |-> Timedelta(7000)])})
              \cup {[connect_timeout |-> None], [dns_srv_timeout |-> Timedelta(9000)],
                    [config_poll_floor |-> Timedelta(4000)],
                    [config_poll_interval |-> Timedelta(-4000)]},
        o \in UNION {{f, ApplyProfile(f)} : f \in Perhaps("timeout_options", Timeouts)}}

SecurityCalls ==
    {Cluster("couchbases", q, k, o) :
        q \in {NoOptions, [verify_server_certificate |-> <<Word(FALSE)>>],
               [trust_only_pem_str |-> <<Text("pem")>>],
               [trust_only_certificates |-> <<Text("pem"), Text("pem")>>]},
        k \in Perhaps("verify_server_certificate", {Bool(TRUE), Bool(FALSE)}),
        o \in {"security_options" :> Dict(f) :
                 f \in Join(Join(Perhaps("trust_only_capella", {Bool(TRUE), Bool(FALSE)}),
                                 Perhaps("trust_only_pem_file", {Str("ca.pem"), Str("gone.pem"),
                                                                 Num(1)})),
                            Join(Join(Perhaps("trust_only_pem_str", {Certificate, Str(" "), Str("")}),
                                      Perhaps("trust_only_platform", {Bool(TRUE), Bool(FALSE)})),
                                 Perhaps("trust_only_certificates",
                                         {List(<<>>), List(<<Certificate>>), Certificate})))}}

OtherCalls ==
    {Cluster("couchbases", q, k, o) :
        q \in {NoOptions, [srv |-> <<Word(FALSE)>>], [srv |-> <<Digits(0)>>],
               [network |-> <<Text("external")>>],
               [allow_unknown_qstr_options |-> <<Word(TRUE)>>, other |-> <<Digits(7)>>],
               [enable_clustermap_notification |-> <<Word(FALSE)>>]},
        k \in Perhaps("ip_protocol", {Str("force_ipv4"), Str("ipv4"), <<"IpProtocol", "force_ipv6">>})
              \cup Perhaps("dns_port", {Num(5353), Num(65589), Num(-1), Bool(TRUE), Str("53")})
              \cup {[deserializer |-> <<"deserializer", "mine">>], [network |-> None],
                    [dump_configuration |-> Bool(TRUE)]},
        o \in {[network |-> Str("default"), dns_nameserver |-> Str("10.0.0.1")],
               [disable_mozilla_ca_certificates |-> Bool(TRUE), network |-> None],
               [enable_clustermap_notification |-> Bool(TRUE), user_agent_extra |-> Str("app"),
                ip_protocol |-> Str("any")]}}

\* The asyncio API, called from a coroutine or not, with a loop or without.
AsyncCluster == [PlainCluster EXCEPT !.api = "asyncio", !.current = NewLoop]
MaybeLoops == {NoLoop} \cup Loops
AsyncCalls ==
    {AsyncCluster} \cup {[c EXCEPT !.api = "asyncio", !.current = NewLoop] : c \in OtherCalls}
    \cup {[c EXCEPT !.api = "asyncio", !.loop = l, !.current = m] :
            c \in {PlainCluster} \cup BadStrings, l \in MaybeLoops, m \in MaybeLoops}

MCClusterCalls ==
    {PlainCluster} \cup BadStrings \cup TimeoutCalls \cup SecurityCalls \cup OtherCalls
    \cup AsyncCalls

-----------------------------------------------------------------------------
(* Queries.                                                                 *)

Query(args, kwargs) == [args |-> args, kwargs |-> kwargs, database |-> "", scope |-> ""]
InScope(q) == [q EXCEPT !.database = "db", !.scope = "scope"]
P1 == Str("p1")
P2 == Num(2)
Token == CancelToken("t")

NamedOption(names, v) == [named_parameters |-> Dict([n \in names |-> v])]
OptionCalls ==
    {Query(args, kwargs) :
        args \in {<<>>, <<P1>>, <<P1, QueryOptions([timeout |-> Timedelta(1500)]), P2>>,
                  <<QueryOptions(NamedOption({"a"}, P1) @@ [timeout |-> None]), P2>>,
                  <<QueryOptions([positional_parameters |-> List(<<P2>>), priority |-> Bool(TRUE)])>>,
                  <<QueryOptions([positional_parameters |-> Num(3), read_only |-> Bool(FALSE)])>>,
                  <<QueryOptions([positional_parameters |-> P1])>>,
                  <<QueryOptions([positional_parameters |-> Dict("x" :> P1)])>>,
                  <<QueryOptions(NoOptions),
                    QueryOptions([deserializer |-> <<"deserializer", "other">>])>>,
                  <<Token, P1>>, <<Token, Token>>, <<Obj("o")>>},
        kwargs \in Perhaps("timeout", Durations \cup {None, Num(1), Bool(TRUE), Str("1s")})
                   \cup Perhaps("cancel_token", {Token, P1})
                   \cup Perhaps("lazy_execute", {Bool(TRUE), Bool(FALSE)})
                   \cup Perhaps("scan_consistency", {Str("request_plus"), Str("strong"),
                                                     <<"QueryScanConsistency", "not_bounded">>})
                   \cup Perhaps("raw", {Dict(<<>>), Dict("" :> P1), Dict("pretty" :> Bool(TRUE)),
                                        P1})
                   \cup {[priority |-> Bool(FALSE)], [read_only |-> Bool(TRUE)],
                         [query_context |-> Str("c")], [b |-> P2], [b |-> Obj("o")],
                         NamedOption({"b"}, P2) @@ [c |-> P1], NamedOption({"b"}, Obj("o")),
                         [named_parameters |-> None], [named_parameters |-> List(<<P1>>)]}}

MCQueryCalls(c) ==
    IF c \in {PlainCluster, AsyncCluster} THEN OptionCalls \cup {InScope(q) : q \in OptionCalls}
    ELSE {Query(<<P1>>, NoOptions)}
=============================================================================
