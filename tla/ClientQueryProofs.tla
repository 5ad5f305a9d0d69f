------------------------ MODULE ClientQueryProofs ------------------------
(***************************************************************************)
(* That what the application says of a query reaches the core, for all     *)
(* options and parameters: each option is followed through OptionsBuilder  *)
(* and the request to the place where the bindings read it.                *)
(***************************************************************************)
EXTENDS ClientErrorProofs

-----------------------------------------------------------------------------
(* Queries: from the arguments to the options of the request.              *)

\* The arguments of OptionsBuilder, what it makes of them, and the parameters on top.
OptionArguments(q) == Only(Without(q.kwargs, {"cancel_token"}), QueryKeys)
BuiltOf(q) == BuildOptions("QueryOptions", OptionArguments(q), OptionsOf(q.args))
PositionalOf(q) == ParametersOf(q.args, q.kwargs)
NamedOf(q) == Without(Without(q.kwargs, {"cancel_token"}), QueryKeys)
AllOptions(q) == WithParameters(BuiltOf(q)[2], PositionalOf(q), NamedOf(q))

\* The options object drops what is None, and dropping it twice changes nothing.
LEMMA OptionsOfCall ==
  ASSUME NEW q, NEW k, Has(OptionsOf(q.args), k)
  PROVE  OptionsOf(q.args)[k] # None
BY DEF OptionsOf, OptionsClass, Only, NoOptions, Has

\* What OptionsBuilder copies for key k is what the application means by it.
LEMMA CopiedIsMeant ==
  ASSUME NEW q, NEW k \in QueryKeys
  PROVE  LET copied == GetOptionsCopy(OptionArguments(q), OptionsOf(q.args))
         IN  /\ Meant(<<q.kwargs, OptionsOf(q.args)>>, k) = IF Has(copied, k) THEN copied[k] ELSE Absent
             /\ Has(copied, k) <=> Has(q.kwargs, k) \/ Has(OptionsOf(q.args), k)
<1> DEFINE front == OptionArguments(q)
           back == OptionsOf(q.args)
           copied == GetOptionsCopy(front, back)
<1>1. /\ Has(front, k) <=> Has(q.kwargs, k)
      /\ Has(front, k) => front[k] = q.kwargs[k]
  BY DEF OptionArguments, Only, Without, Has, QueryKeys
<1>2. /\ Has(OptionsClass(back), k) <=> Has(back, k)
      /\ Has(back, k) => OptionsClass(back)[k] = back[k]
  BY OptionsOfCall DEF OptionsClass, Only, Has
<1>3. copied = front ++ OptionsClass(back)
  BY DEF GetOptionsCopy
<1> HIDE DEF front, back, copied
<1>4. /\ Has(copied, k) <=> Has(front, k) \/ Has(back, k)
      /\ Has(front, k) => copied[k] = front[k]
      /\ Has(back, k) /\ ~Has(front, k) => copied[k] = back[k]
  BY <1>2, <1>3 DEF Has, ++
<1> QED BY <1>1, <1>4, MeantOfTwo DEF copied, front, back

\* A request has the options and the deserializer that were built, and its place.
LEMMA PreparedRequest ==
  ASSUME NEW api, NEW q, NEW default, ~Raises(Prepare(api, q, default))
  PROVE  LET r == Prepare(api, q, default)[2]
         IN  /\ ~Raises(BuiltOf(q))
             /\ r.place = Place(q)
             /\ r.deserializer = Get(AllOptions(q), "deserializer", default)
             /\ DOMAIN r.options \subseteq DOMAIN AllOptions(q)
             /\ \A k : k \notin {"deserializer", "lazy_execute"} =>
                   /\ Has(r.options, k) <=> Has(AllOptions(q), k)
                   /\ Has(r.options, k) => r.options[k] = AllOptions(q)[k]
<1> DEFINE scoped == BuildScopedRequest(q, default)
           base == [options |-> Without(AllOptions(q), {"deserializer"}),
                    deserializer |-> Get(AllOptions(q), "deserializer", default),
                    token |-> TokenOf(q.args, q.kwargs)]
<1>1. ~Raises(scoped)
  BY DEF Prepare, PrepareAsyncQuery, PrepareQuery
<1>2. BuildQueryRequest(q, default) = IF Raises(BuiltOf(q)) THEN BuiltOf(q) ELSE Ok(base)
  BY DEF BuildQueryRequest, BuiltOf, OptionArguments, AllOptions, PositionalOf, NamedOf
<1>3. ~Raises(BuiltOf(q)) /\ scoped[2] = Entry("place", Place(q)) ++ base
  BY <1>1, <1>2 DEF BuildScopedRequest, InPlace, Raises, Ok
<1>4. scoped[2] = [place |-> Place(q), options |-> base.options,
                   deserializer |-> base.deserializer, token |-> base.token]
  BY <1>3 DEF Entry, ++
<1>5. Prepare(api, q, default)[2] \in
        {scoped[2], [scoped[2] EXCEPT !.options = Without(@, {"lazy_execute"})]}
  BY <1>1 DEF Prepare, PrepareAsyncQuery, PrepareQuery, Check, Ok, Raises, Raise
<1> DEFINE r == Prepare(api, q, default)[2]
           options == AllOptions(q)
<1>6. /\ r.place = Place(q) /\ r.deserializer = base.deserializer
      /\ r.options \in {base.options, Without(base.options, {"lazy_execute"})}
  <2> HIDE DEF r, scoped, base
  <2> QED BY <1>4, <1>5 DEF r
<1>7. base.options = Without(options, {"deserializer"})
  OBVIOUS
<1>8. /\ DOMAIN r.options \subseteq DOMAIN options
      /\ \A k : k \notin {"deserializer", "lazy_execute"} =>
            /\ Has(r.options, k) <=> Has(options, k)
            /\ Has(r.options, k) => r.options[k] = options[k]
  <2> HIDE DEF r, options, base
  <2> QED BY <1>6, <1>7 DEF Without, Only, Has
<1> QED BY <1>3, <1>6, <1>8

\* The names that built options can have are not those of a place.
LEMMA OptionNames ==
  ASSUME NEW q, ~Raises(BuiltOf(q))
  PROVE  DOMAIN AllOptions(q) \cap {"database_name", "scope_name"} = {}
<1>1. \A k \in QueryKeys : QueryTransforms[k][1] \notin {"database_name", "scope_name"}
  BY DEF QueryKeys, QueryTransforms, Same, ++
<1>2. \A n \in DOMAIN BuiltOf(q)[2] : \E k \in QueryKeys : n = QueryTransforms[k][1]
  <2>1. TransformDetails("QueryOptions") = <<QueryKeys, QueryTransforms>>
    BY DEF TransformDetails
  <2> QED BY <2>1, BuiltNames DEF BuiltOf
<1>3. \A n \in {"database_name", "scope_name"} : ~Has(AllOptions(q), n)
  BY <1>1, <1>2, ParametersOnly DEF AllOptions, Has
<1> QED BY <1>3 DEF Has

\* The dictionary the bindings read has the encoded options and the names of the place.
LEMMA EncodedRequest ==
  ASSUME NEW r, ~Raises(ToReqDict(r)),
         DOMAIN r.options \cap {"database_name", "scope_name"} = {},
         DOMAIN r.place \subseteq {"database_name", "scope_name"}
  PROVE  LET args == ToReqDict(r)[2]
         IN  /\ \A k : k \notin {"database_name", "scope_name"} =>
                   /\ Has(args, k) <=> Has(r.options, k)
                   /\ Has(args, k) => /\ ~Raises(EncodeOption(k, r.options[k]))
                                      /\ args[k] = EncodeOption(k, r.options[k])[2]
             /\ \A k \in {"database_name", "scope_name"} :
                   Get(args, k, "") = Get(r.place, k, "")
<1> DEFINE encoded == [k \in DOMAIN r.options |-> EncodeOption(k, r.options[k])]
           failing == {k \in DOMAIN encoded : Raises(encoded[k])}
           values == [k \in DOMAIN encoded |-> encoded[k][2]]
<1>1. ToReqDict(r) = IF failing # {} THEN encoded[CHOOSE k \in failing : TRUE]
                     ELSE Ok(values ++ r.place)
  BY DEF ToReqDict
<1>2. failing = {}
  <2>1. (CHOOSE k \in failing : TRUE) \in failing => Raises(encoded[CHOOSE k \in failing : TRUE])
    OBVIOUS
  <2> HIDE DEF failing, encoded, values
  <2> QED BY <1>1, <2>1
<1>3. ToReqDict(r)[2] = values ++ r.place
  <2> HIDE DEF failing, values
  <2> QED BY <1>1, <1>2 DEF Ok
<1> QED BY <1>2, <1>3 DEF Has, Get, ++

\* The names of a place: a cluster has none.
LEMMA PlaceOfCall ==
  ASSUME NEW q
  PROVE  /\ DOMAIN Place(q) \subseteq {"database_name", "scope_name"}
         /\ Get(Place(q), "scope_name", "") = q.scope
         /\ (q.scope = "" => q.database = "") => Get(Place(q), "database_name", "") = q.database
<1>1. CASE q.scope = ""
  <2>1. Place(q) = <<>>
    BY <1>1 DEF Place, NoOptions
  <2>2. /\ ~Has(Place(q), "scope_name") /\ ~Has(Place(q), "database_name")
        /\ DOMAIN Place(q) = {}
    BY <2>1 DEF Has
  <2> QED BY <1>1, <2>2 DEF Get
<1>2. CASE q.scope # ""
  <2>1. Place(q) = [database_name |-> q.database, scope_name |-> q.scope]
    BY <1>2 DEF Place
  <2>2. DOMAIN Place(q) = {"database_name", "scope_name"} /\ Place(q).scope_name = q.scope
        /\ Place(q).database_name = q.database
    BY <2>1
  <2> QED BY <2>2 DEF Get, Has
<1> QED BY <1>1, <1>2

\* So the bindings find option k, unless parameters of the call replace it, and what
\* they find is what the application means, validated and encoded.
LEMMA OptionOfQuery ==
  ASSUME NEW api, NEW q, NEW default, ~Raises(Prepare(api, q, default)),
         ~Raises(ToReqDict(Prepare(api, q, default)[2])),
         NEW k \in QueryKeys \ {"deserializer", "lazy_execute"},
         k = "positional_parameters" => PositionalOf(q) = <<>>,
         k = "named_parameters" => NamedOf(q) = <<>>
  PROVE  LET args == ToReqDict(Prepare(api, q, default)[2])[2]
             meant == Meant(<<q.kwargs, OptionsOf(q.args)>>, k)
             name == QueryTransforms[k][1]
             value == Convert(QueryTransforms[k][2], meant)
             encoded == EncodeOption(name, value[2])
         IN  \/ /\ meant = Absent
                /\ ~Has(args, name)
             \/ /\ ~Raises(value) /\ value = Ok(None)
                /\ ~Has(args, name)
             \/ /\ ~Raises(value) /\ ~Raises(encoded)
                /\ Has(args, name) /\ args[name] = encoded[2]
<1> DEFINE r == Prepare(api, q, default)[2]
           args == ToReqDict(r)[2]
           meant == Meant(<<q.kwargs, OptionsOf(q.args)>>, k)
           copied == GetOptionsCopy(OptionArguments(q), OptionsOf(q.args))
           name == QueryTransforms[k][1]
           kind == QueryTransforms[k][2]
           built == BuiltOf(q)[2]
<1>1. name \notin {"deserializer", "lazy_execute", "database_name", "scope_name"}
      /\ (name = "positional_parameters" => k = "positional_parameters")
      /\ (name = "named_parameters" => k = "named_parameters")
  BY DEF QueryKeys, QueryTransforms, Same, ++
<1>2. /\ ~Raises(BuiltOf(q)) /\ r.place = Place(q)
      /\ DOMAIN r.options \subseteq DOMAIN AllOptions(q)
      /\ Has(r.options, name) <=> Has(AllOptions(q), name)
      /\ Has(r.options, name) => r.options[name] = AllOptions(q)[name]
  BY <1>1, PreparedRequest
<1>3. /\ Has(AllOptions(q), name) <=> Has(built, name)
      /\ Has(built, name) => AllOptions(q)[name] = built[name]
  BY <1>1, ParametersOnly DEF AllOptions
<1>4. /\ Has(built, name) <=> Has(copied, k) /\ Convert(kind, copied[k]) # Ok(None)
      /\ Has(copied, k) => ~Raises(Convert(kind, copied[k]))
      /\ Has(built, name) => built[name] = Convert(kind, copied[k])[2]
  BY <1>2, BuiltQueryOption DEF BuiltOf
<1>5. meant = IF Has(copied, k) THEN copied[k] ELSE Absent
  BY CopiedIsMeant
<1>6. DOMAIN r.place \subseteq {"database_name", "scope_name"}
  BY <1>2, PlaceOfCall
<1>7. /\ Has(args, name) <=> Has(r.options, name)
      /\ Has(args, name) => /\ ~Raises(EncodeOption(name, r.options[name]))
                            /\ args[name] = EncodeOption(name, r.options[name])[2]
  BY <1>1, <1>2, <1>6, OptionNames, EncodedRequest
<1> SUFFICES \/ meant = Absent /\ ~Has(args, name)
             \/ ~Raises(Convert(kind, meant)) /\ Convert(kind, meant) = Ok(None) /\ ~Has(args, name)
             \/ /\ ~Raises(Convert(kind, meant))
                /\ ~Raises(EncodeOption(name, Convert(kind, meant)[2]))
                /\ Has(args, name) /\ args[name] = EncodeOption(name, Convert(kind, meant)[2])[2]
  OBVIOUS
<1> HIDE DEF r, args, meant, copied, name, kind, built
<1>8. CASE ~Has(copied, k)
  BY <1>2, <1>3, <1>4, <1>5, <1>7, <1>8
<1>9. CASE Has(copied, k) /\ Convert(kind, meant) = Ok(None)
  BY <1>2, <1>3, <1>4, <1>5, <1>7, <1>9
<1>10. CASE Has(copied, k) /\ Convert(kind, meant) # Ok(None)
  BY <1>2, <1>3, <1>4, <1>5, <1>7, <1>10
<1> QED BY <1>8, <1>9, <1>10

\* The same for the parameters of the call: they come first, ...
LEMMA ParametersFirst ==
  ASSUME NEW built, NEW positional, NEW named
  PROVE  LET options == WithParameters(built, positional, named)
         IN  /\ positional # <<>> => /\ Has(options, "positional_parameters")
                                     /\ options["positional_parameters"] = List(positional)
             /\ named # <<>> => /\ Has(options, "named_parameters")
                                /\ options["named_parameters"] = Dict(named)
<1> DEFINE p == NonEmptyOption("positional_parameters", List(positional), positional)
           n == NonEmptyOption("named_parameters", Dict(named), named)
<1>1. positional # <<>> => /\ "positional_parameters" \in DOMAIN p
                           /\ p["positional_parameters"] = List(positional)
  BY DEF NonEmptyOption, Entry
<1>2. named # <<>> => /\ "named_parameters" \in DOMAIN n
                      /\ n["named_parameters"] = Dict(named)
  BY DEF NonEmptyOption, Entry
<1>3. "named_parameters" \notin DOMAIN p
  BY DEF NonEmptyOption, NoOptions, Entry
<1>4. WithParameters(built, positional, named) = p ++ n ++ built
  BY DEF WithParameters
<1> HIDE DEF p, n
<1> QED BY <1>1, <1>2, <1>3, <1>4 DEF Has, ++

\* ... the named ones are all keyword arguments that are no options, ...
LEMMA NamedArguments ==
  ASSUME NEW q
  PROVE  Without(q.kwargs, QueryKeys \cup {"cancel_token"}) = NamedOf(q)
<1> DEFINE f == q.kwargs
           a == Without(f, QueryKeys \cup {"cancel_token"})
           b == Without(Without(f, {"cancel_token"}), QueryKeys)
<1>1. DOMAIN a = DOMAIN b /\ \A k \in DOMAIN a : a[k] = f[k] /\ b[k] = f[k]
  BY DEF Without, Only
<1>2. a = [k \in DOMAIN a |-> a[k]] /\ b = [k \in DOMAIN b |-> b[k]]
  BY DEF Without, Only
<1> HIDE DEF a, b
<1>3. a = b
  BY <1>1, <1>2
<1> QED BY <1>3 DEF a, b, NamedOf

\* A list gives its members, ...
LEMMA IteratedList == \A s : IsIterable(List(s)) /\ Iterated(List(s)) = s
BY DEF IsIterable, Iterated, List

\* ... and what can be iterated is encoded member by member, dictionaries with
\* dollars before their keys.
LEMMA EncodedList ==
  ASSUME NEW v, ~Raises(EncodeOption("positional_parameters", v))
  PROVE  EncodeOption("positional_parameters", v)[2] = List(Iterated(v)) /\ v \notin {None, Absent}
<1>1. EncodeOption("positional_parameters", v) =
        IF ~IsIterable(v) THEN Raise("TypeError")
        ELSE Check(\A i \in DOMAIN Iterated(v) : Encodable(Iterated(v)[i]),
                   List(Iterated(v)), "TypeError")
  BY DEF EncodeOption
<1>2. ~IsIterable(None) /\ ~IsIterable(Absent)
  BY DEF IsIterable, None, Absent
<1> QED BY <1>1, <1>2 DEF Check, Raises, Ok, Raise

\* Those of a dictionary.
LEMMA EncodedDict ==
  ASSUME NEW v, ~Raises(EncodeOption("named_parameters", v))
  PROVE  /\ EncodeOption("named_parameters", v)[2] = Dict(WithDollars(v[2]))
         /\ v \notin {None, Absent}
<1>1. EncodeOption("named_parameters", v) =
        IF v[1] # "dict" THEN Raise("AttributeError")
        ELSE Check(\A n \in DOMAIN v[2] : Encodable(v[2][n]), Dict(WithDollars(v[2])), "TypeError")
  BY DEF EncodeOption
<1> QED BY <1>1 DEF Check, Raises, Ok, Raise, None, Absent

\* A raw option stays the dictionary it is.
LEMMA EncodedRaw ==
  ASSUME NEW v, ~Raises(EncodeOption("raw", v))
  PROVE  EncodeOption("raw", v)[2] = v
<1>1. EncodeOption("raw", v) =
        IF v[1] # "dict" THEN Raise("AttributeError")
        ELSE Check(\A n \in DOMAIN v[2] : Encodable(v[2][n]), v, "TypeError")
  BY DEF EncodeOption
<1> QED BY <1>1 DEF Check, Raises, Ok, Raise

\* No parameter, no dollar.
LEMMA NoDollars == WithDollars(<<>>) = <<>>
BY DEF WithDollars

\* The options of a request have no name of a place, which has no other.
LEMMA RequestNames ==
  ASSUME NEW api, NEW q, NEW default, ~Raises(Prepare(api, q, default))
  PROVE  LET r == Prepare(api, q, default)[2]
         IN  /\ DOMAIN r.options \cap {"database_name", "scope_name"} = {}
             /\ DOMAIN r.place \subseteq {"database_name", "scope_name"}
<1> DEFINE r == Prepare(api, q, default)[2]
<1>1. ~Raises(BuiltOf(q)) /\ r.place = Place(q) /\ DOMAIN r.options \subseteq DOMAIN AllOptions(q)
  BY PreparedRequest
<1>2. DOMAIN AllOptions(q) \cap {"database_name", "scope_name"} = {}
  BY <1>1, OptionNames
<1>3. DOMAIN r.place \subseteq {"database_name", "scope_name"}
  BY <1>1, PlaceOfCall
<1> HIDE DEF r
<1>4. DOMAIN r.options \cap {"database_name", "scope_name"} = {}
  BY <1>1, <1>2
<1> QED BY <1>3, <1>4 DEF r

-----------------------------------------------------------------------------
(* Queries: from the request to the core.                                  *)

\* The fields of the core's query, which has been read without an error.
LEMMA QueryFields ==
  ASSUME NEW args, ~Raises(BuildQueryOptions(args))
  PROVE  LET query == BuildQueryOptions(args)[2]
         IN  /\ ~OptionsRefused(args)
             /\ query.database_name = Get(args, "database_name", "")
             /\ query.scope_name = Get(args, "scope_name", "")
             /\ query.raw = Contents(args, "raw")
             /\ query.priority <=> IsTrue(args, "priority")
             /\ query.read_only <=> IsTrue(args, "readonly")
             /\ query.scan_consistency = Get(args, "scan_consistency", Str("unset"))[2]
             /\ query.timeout = QueryTimeout(args)
             /\ query.positional_parameters = Contents(args, "positional_parameters")
             /\ query.named_parameters = Contents(args, "named_parameters")
<1>1. ~OptionsRefused(args)
  BY DEF BuildQueryOptions, Raises, Raise
<1> QED BY <1>1 DEF BuildQueryOptions, Ok

\* Options that are neither parameters nor raw need no encoding.
LEMMA PlainOption ==
  ASSUME NEW k, NEW v, k \notin {"positional_parameters", "named_parameters", "raw"}
  PROVE  EncodeOption(k, v) = Ok(v)
BY DEF EncodeOption

\* What some validators keep as it is, ...
LEMMA ConvertedSame ==
  ASSUME NEW kind \in {"bool", "str", "dict", "deserializer"}, NEW v, ~Raises(Convert(kind, v))
  PROVE  /\ Convert(kind, v)[2] = v /\ v[1] = kind
         /\ Convert(kind, v) # Ok(None) /\ v \notin {None, Absent}
<1>1. Convert(kind, v) = Check(v[1] = kind, v, "ValueError")
  BY DEF Convert
<1> QED BY <1>1 DEF Check, Raises, Ok, Raise, None, Absent

\* ... and what becomes a string.
LEMMA ConvertedEnum ==
  ASSUME NEW kind \in {"IpProtocol", "QueryScanConsistency"}, NEW v, ~Raises(Convert(kind, v))
  PROVE  /\ Convert(kind, v)[2] = Str(v[2])
         /\ v[1] \in {"str", kind} /\ v[2] \in EnumValues(kind)
         /\ Convert(kind, v) # Ok(None) /\ v \notin {None, Absent}
<1>1. Convert(kind, v) = EnumToStr(kind, v)
  BY DEF Convert
<1>2. v[1] \in {"str", kind} /\ v[2] \in EnumValues(kind) /\ EnumToStr(kind, v) = Ok(Str(v[2]))
  BY <1>1 DEF EnumToStr, Check, Raises, Raise
<1> QED BY <1>1, <1>2 DEF Ok, Str, None, Absent

\* A validated duration is an integer of microseconds.
LEMMA ConvertedDuration ==
  ASSUME NEW v, v[1] \in {"int", "timedelta"} => v[2] \in Int,
         NEW kind \in {"duration", "timedelta"}, ~Raises(Convert(kind, v))
  PROVE  /\ Convert(kind, v)[2][1] = "int" /\ Convert(kind, v)[2][2] \in Int
         /\ Convert(kind, v) # Ok(None) /\ v # Absent
<1>1. Convert(kind, v) = IF kind = "duration" THEN ToMicroseconds(v) ELSE TimedeltaAsMicroseconds(v)
  BY DEF Convert
<1>2. \A n \in Int : Microseconds(n) \in Int
  BY DEF Microseconds
<1>3. ASSUME ~Raises(ToMicroseconds(v))
      PROVE  ToMicroseconds(v)[2][1] = "int" /\ ToMicroseconds(v)[2][2] \in Int
  BY <1>2, <1>3 DEF ToMicroseconds, Ok, Num, Raises, Raise
<1>4. ASSUME ~Raises(TimedeltaAsMicroseconds(v))
      PROVE  TimedeltaAsMicroseconds(v)[2][1] = "int" /\ TimedeltaAsMicroseconds(v)[2][2] \in Int
  BY <1>2, <1>4 DEF TimedeltaAsMicroseconds, Check, Ok, Num, Raises, Raise
<1>5. v = Absent => Raises(ToMicroseconds(v)) /\ Raises(TimedeltaAsMicroseconds(v))
  <2>1. Absent[1] = "absent" /\ Absent \notin Falsy
    BY DEF Absent, Falsy, None, Bool, Num, Timedelta, Str, List, Dict
  <2> QED BY <2>1 DEF ToMicroseconds, TimedeltaAsMicroseconds, Check, Raise, Raises
<1> QED BY <1>1, <1>3, <1>4, <1>5 DEF Ok, None

\* A validated duration becomes whole milliseconds, of which at most one is lost.
LEMMA DurationsFit ==
  ASSUME NEW v, v[1] \in {"int", "timedelta"} => v[2] \in Int,
         NEW kind \in {"duration", "timedelta"}, ~Raises(Convert(kind, v)), NEW default,
         v # Absent, Convert(kind, v)[2][2] >= 0
  PROVE  DurationFits(v, Convert(kind, v)[2][2] \div 1000, default)
<1> DEFINE us == Convert(kind, v)[2][2]
<1>1. CASE v \in Falsy
  <2>1. us = 0
    BY <1>1 DEF Convert, ToMicroseconds, TimedeltaAsMicroseconds, Ok, Num
  <2> QED BY <1>1, <2>1 DEF DurationFits, NoneIsZero, Kept
<1>2. CASE v \notin Falsy /\ v[1] = "timedelta"
  <2>1. us = Microseconds(v[2]) /\ v[2] \in Int
    BY <1>2 DEF Convert, ToMicroseconds, TimedeltaAsMicroseconds, Check, Ok, Num
  <2>2. us \in Int /\ us <= v[2] /\ v[2] <= us + 1
    BY <2>1 DEF Microseconds
  <2>3. Shortened(v[2], us \div 1000)
    BY <2>1, <2>2 DEF Shortened
  <2>4. Duration(v) = v[2]
    BY <1>2 DEF Duration
  <2>5. v # None
    BY <1>2 DEF Falsy
  <2> QED BY <1>2, <2>3, <2>4, <2>5 DEF DurationFits, Kept
<1>3. CASE v \notin Falsy /\ v[1] # "timedelta"
  <2>1. Convert(kind, v) = IF kind = "duration" THEN ToMicroseconds(v) ELSE TimedeltaAsMicroseconds(v)
    BY DEF Convert
  <2>2. kind = "duration" /\ v[1] \in {"int", "bool"}
    BY <1>3, <2>1 DEF ToMicroseconds, TimedeltaAsMicroseconds, Check, Raises, Raise, Ok
  <2>3. us = Duration(v) /\ Duration(v) \in Int
    BY <1>3, <2>1, <2>2 DEF ToMicroseconds, Duration, Ok, Num
  <2>4. Shortened(Duration(v), us \div 1000)
    BY <2>3 DEF Shortened
  <2>5. v # None
    BY <1>3 DEF Falsy
  <2> QED BY <1>3, <2>4, <2>5 DEF DurationFits, Kept
<1> QED BY <1>1, <1>2, <1>3

\* An option that is not encoded is there for the bindings as it was converted.
LEMMA PlainOptions ==
  ASSUME CallInv, coreQuery # Unset,
         NEW k \in {"priority", "read_only", "scan_consistency", "timeout"}
  PROVE  LET args == ToReqDict(request)[2]
             name == QueryTransforms[k][1]
             value == Convert(QueryTransforms[k][2], MeantQuery(k))
         IN  \/ MeantQuery(k) = Absent /\ ~Has(args, name)
             \/ ~Raises(value) /\ value = Ok(None) /\ ~Has(args, name)
             \/ ~Raises(value) /\ Has(args, name) /\ args[name] = value[2]
<1> DEFINE args == ToReqDict(request)[2]
           name == QueryTransforms[k][1]
           value == Convert(QueryTransforms[k][2], MeantQuery(k))
<1>1. /\ ~Raises(Prepare(given.api, call, details.deserializer))
      /\ request = Prepare(given.api, call, details.deserializer)[2]
      /\ ~Raises(ToReqDict(request))
  BY DEF CallInv
<1>2. name \notin {"positional_parameters", "named_parameters", "raw"}
  BY DEF QueryTransforms, Same, ++
<1>3. EncodeOption(name, value[2]) = Ok(value[2])
  BY <1>2, PlainOption
<1>4. EncodeOption(name, value[2])[2] = value[2]
  BY <1>3 DEF Ok
<1>5. k \in QueryKeys \ {"deserializer", "lazy_execute"}
      /\ k \notin {"positional_parameters", "named_parameters"}
  BY DEF QueryKeys
<1> QED BY <1>1, <1>4, <1>5, OptionOfQuery DEF MeantQuery, QueryLevels

\* What the core is given is what the application means: one step for each option.
LEMMA CallReachesCore == CallInv => QueryReachesCore
<1> SUFFICES ASSUME CallInv, coreQuery # Unset PROVE QueryReachesCore
  BY DEF QueryReachesCore
<1> DEFINE q == call
           default == details.deserializer
           args == ToReqDict(request)[2]
<1>1. /\ TypedCall(q)
      /\ ~Raises(Prepare(given.api, q, default)) /\ request = Prepare(given.api, q, default)[2]
      /\ ~Raises(ToReqDict(request))
      /\ ~Raises(BuildQueryOptions(args)) /\ coreQuery = BuildQueryOptions(args)[2]
  BY DEF CallInv
<1>2. /\ ~OptionsRefused(args)
      /\ coreQuery.database_name = Get(args, "database_name", "")
      /\ coreQuery.scope_name = Get(args, "scope_name", "")
      /\ coreQuery.raw = Contents(args, "raw")
      /\ coreQuery.priority <=> IsTrue(args, "priority")
      /\ coreQuery.read_only <=> IsTrue(args, "readonly")
      /\ coreQuery.scan_consistency = Get(args, "scan_consistency", Str("unset"))[2]
      /\ coreQuery.timeout = QueryTimeout(args)
      /\ coreQuery.positional_parameters = Contents(args, "positional_parameters")
      /\ coreQuery.named_parameters = Contents(args, "named_parameters")
  BY <1>1, QueryFields
<1>3. /\ QueryTransforms["priority"] = <<"priority", "bool">>
      /\ QueryTransforms["read_only"] = <<"readonly", "bool">>
      /\ QueryTransforms["scan_consistency"] = <<"scan_consistency", "QueryScanConsistency">>
      /\ QueryTransforms["timeout"] = <<"timeout", "duration">>
      /\ QueryTransforms["deserializer"] = <<"deserializer", "deserializer">>
      /\ QueryTransforms["raw"] = <<"raw", "dict">>
      /\ QueryTransforms["positional_parameters"] = <<"positional_parameters", "any">>
      /\ QueryTransforms["named_parameters"] = <<"named_parameters", "any">>
      /\ {"priority", "read_only", "scan_consistency", "timeout", "deserializer",
          "raw", "positional_parameters", "named_parameters"} \subseteq QueryKeys
  BY DEF QueryTransforms, QueryKeys, Same, ++
<1>4. \A k \in {"priority", "read_only", "scan_consistency", "timeout"} :
        LET name == QueryTransforms[k][1]
            value == Convert(QueryTransforms[k][2], MeantQuery(k))
        IN  \/ MeantQuery(k) = Absent /\ ~Has(args, name)
            \/ ~Raises(value) /\ value = Ok(None) /\ ~Has(args, name)
            \/ ~Raises(value) /\ Has(args, name) /\ args[name] = value[2]
  BY PlainOptions
<1>5. ASSUME NEW k \in {"priority", "read_only"}
      PROVE  coreQuery[k] <=> MeantQuery(k) = Bool(TRUE)
  <2>1. ASSUME NEW v, ~Raises(Convert("bool", v))
        PROVE  Convert("bool", v)[2] = v /\ Convert("bool", v) # Ok(None)
    BY <2>1, ConvertedSame
  <2>2. IsTrue(args, QueryTransforms[k][1]) <=> MeantQuery(k) = Bool(TRUE)
    <3>1. QueryTransforms[k][2] = "bool"
      BY <1>3
    <3>2. Absent # Bool(TRUE) /\ None # Bool(TRUE)
      BY DEF Absent, None, Bool
    <3> DEFINE v == MeantQuery(k)
               name == QueryTransforms[k][1]
    <3>3. \/ v = Absent /\ ~Has(args, name)
          \/ ~Raises(Convert("bool", v)) /\ Has(args, name) /\ args[name] = v
      BY <1>4, <2>1, <3>1
    <3> HIDE DEF v, name, args
    <3>4. IsTrue(args, name) <=> v = Bool(TRUE)
      BY <3>2, <3>3 DEF IsTrue, Get
    <3> QED BY <3>4 DEF v, name
  <2>3. coreQuery[k] <=> IsTrue(args, QueryTransforms[k][1])
    <3>1. CASE k = "priority"
      <4>1. QueryTransforms[k][1] = "priority"
        BY <1>3, <3>1
      <4>2. coreQuery[k] <=> IsTrue(args, "priority")
        BY <1>2, <3>1
      <4> QED BY ONLY <4>1, <4>2
    <3>2. CASE k = "read_only"
      <4>1. QueryTransforms[k][1] = "readonly"
        BY <1>3, <3>2
      <4>2. coreQuery[k] <=> IsTrue(args, "readonly")
        BY <1>2, <3>2
      <4> QED BY ONLY <4>1, <4>2
    <3> QED BY <3>1, <3>2
  <2> QED BY ONLY <2>2, <2>3
<1>6. coreQuery.scan_consistency = OrDefault(MeantQuery("scan_consistency"), Str("unset"))[2]
  <2> DEFINE v == MeantQuery("scan_consistency")
             value == Convert("QueryScanConsistency", v)
  <2>1. ~Raises(value) => /\ value[2] = Str(v[2]) /\ v \notin {None, Absent}
                          /\ value # Ok(None)
    BY ConvertedEnum
  <2>2. ~Raises(value) => OrDefault(v, Str("unset")) = v
    BY <2>1 DEF OrDefault
  <2>3. \/ v = Absent /\ ~Has(args, "scan_consistency")
        \/ ~Raises(value) /\ Has(args, "scan_consistency") /\ args["scan_consistency"] = value[2]
    BY <1>3, <1>4, <2>1
  <2>4. coreQuery.scan_consistency = Get(args, "scan_consistency", Str("unset"))[2]
    BY <1>2
  <2> HIDE DEF v, value, args
  <2>5. OrDefault(Absent, Str("unset")) = Str("unset")
    BY DEF OrDefault
  <2>6. \A x : Str(x)[2] = x
    BY DEF Str
  <2>7. coreQuery.scan_consistency = OrDefault(v, Str("unset"))[2]
    BY <2>1, <2>2, <2>3, <2>4, <2>5, <2>6 DEF Get
  <2> QED BY <2>7 DEF v
<1>7. coreQuery.database_name = call.database /\ coreQuery.scope_name = call.scope
  <2>1. DOMAIN request.options \cap {"database_name", "scope_name"} = {}
        /\ request.place = Place(q)
    BY <1>1, PreparedRequest, OptionNames
  <2>2. /\ DOMAIN Place(q) \subseteq {"database_name", "scope_name"}
        /\ Get(Place(q), "scope_name", "") = q.scope
        /\ Get(Place(q), "database_name", "") = q.database
    BY <1>1, PlaceOfCall DEF TypedCall
  <2>3. \A n \in {"database_name", "scope_name"} : Get(args, n, "") = Get(Place(q), n, "")
    BY <1>1, <2>1, <2>2, EncodedRequest
  <2> QED BY <1>2, <2>2, <2>3
<1>8. DurationFits(MeantQuery("timeout"), coreQuery.timeout, AnalyticsTimeout)
  <2> DEFINE v == MeantQuery("timeout")
             value == Convert("duration", v)
  <2>1. v[1] \in {"int", "timedelta"} => v[2] \in Int
    <3>1. Typed(Absent)
      BY DEF Typed, Absent
    <3>2. Typed(MeantQuery("timeout"))
      BY <1>1, <3>1, MeantOfTwo DEF MeantQuery, QueryLevels, TypedCall, AllTyped, Has
    <3> QED BY <3>2 DEF Typed
  <2>2. ~Raises(value) => value # Ok(None) /\ v # Absent
    BY <2>1, ConvertedDuration
  <2>3. \/ v = Absent /\ ~Has(args, "timeout")
        \/ ~Raises(value) /\ Has(args, "timeout") /\ args["timeout"] = value[2]
    BY <1>3, <1>4, <2>2
  <2> HIDE DEF v, value, args
  <2>4. CASE v = Absent /\ ~Has(args, "timeout")
    BY <1>2, <2>4 DEF QueryTimeout, DurationFits, Defaulted, v
  <2>5. CASE ~Raises(value) /\ Has(args, "timeout") /\ args["timeout"] = value[2]
    <3>1. ~(value[2][2] < 0)
      BY <1>2, <2>5 DEF OptionsRefused
    <3>2. value[2][2] \in Int
      BY <2>1, <2>5, ConvertedDuration DEF value
    <3>3. DurationFits(v, value[2][2] \div 1000, AnalyticsTimeout)
      BY <2>1, <2>2, <2>5, <3>1, <3>2, DurationsFit DEF value
    <3>4. coreQuery.timeout = args["timeout"][2] \div 1000
      BY <1>2, <2>5 DEF QueryTimeout
    <3> QED BY <2>5, <3>3, <3>4 DEF v
  <2> QED BY <2>3, <2>4, <2>5
<1>9. request.deserializer = OrDefault(MeantQuery("deserializer"), details.deserializer)
  <2> DEFINE copied == GetOptionsCopy(OptionArguments(q), OptionsOf(q.args))
             built == BuiltOf(q)[2]
             v == copied["deserializer"]
             value == Convert("deserializer", v)
  <2>1. ~Raises(BuiltOf(q)) /\ request.deserializer = Get(AllOptions(q), "deserializer", default)
    BY <1>1, PreparedRequest
  <2>2. /\ Has(AllOptions(q), "deserializer") <=> Has(built, "deserializer")
        /\ Has(built, "deserializer") => AllOptions(q)["deserializer"] = built["deserializer"]
    BY ParametersOnly DEF AllOptions
  <2>3. /\ Has(built, "deserializer") <=> Has(copied, "deserializer") /\ value # Ok(None)
        /\ Has(copied, "deserializer") => ~Raises(value)
        /\ Has(built, "deserializer") => built["deserializer"] = value[2]
    BY <1>3, <2>1, BuiltQueryOption DEF BuiltOf
  <2>4. ~Raises(value) => value[2] = v /\ v \notin {None, Absent} /\ value # Ok(None)
    BY ConvertedSame
  <2>5. MeantQuery("deserializer") = IF Has(copied, "deserializer") THEN v ELSE Absent
    BY <1>3, CopiedIsMeant DEF MeantQuery, QueryLevels
  <2> HIDE DEF copied, built, v, value
  <2> QED BY <2>1, <2>2, <2>3, <2>4, <2>5 DEF Get, OrDefault
<1>10. coreQuery.positional_parameters =
         IF Positional # <<>> THEN Positional
         ELSE Iterated(OrDefault(MeantQuery("positional_parameters"), List(<<>>)))
  <2> DEFINE k == "positional_parameters"
             v == MeantQuery(k)
  <2>1. coreQuery[k] = Contents(args, k) /\ Positional = PositionalOf(q)
    BY <1>2 DEF Positional, PositionalOf
  <2>2. CASE PositionalOf(q) # <<>>
    <3>1. Has(AllOptions(q), k) /\ AllOptions(q)[k] = List(PositionalOf(q))
      BY <2>2, ParametersFirst DEF AllOptions
    <3>2. Has(args, k) /\ args[k] = List(PositionalOf(q))
      <4>1. Has(request.options, k) /\ request.options[k] = List(PositionalOf(q))
        BY <1>1, <3>1, PreparedRequest
      <4>2. /\ Has(args, k) /\ ~Raises(EncodeOption(k, request.options[k]))
            /\ args[k] = EncodeOption(k, request.options[k])[2]
        BY <1>1, <4>1, RequestNames, EncodedRequest
      <4> QED BY <4>1, <4>2, EncodedList, IteratedList
    <3> QED BY <2>1, <2>2, <3>2 DEF Contents, List
  <2>3. CASE PositionalOf(q) = <<>>
    <3>1. \/ v = Absent /\ ~Has(args, k)
          \/ Convert("any", v) = Ok(None) /\ ~Has(args, k)
          \/ /\ ~Raises(EncodeOption(k, Convert("any", v)[2]))
             /\ Has(args, k) /\ args[k] = EncodeOption(k, Convert("any", v)[2])[2]
      BY <1>1, <1>3, <2>3, OptionOfQuery DEF MeantQuery, QueryLevels
    <3>2. Convert("any", v) = Ok(v) /\ Ok(v)[2] = v /\ (Ok(v) = Ok(None) => v = None)
      BY DEF Convert, Ok
    <3>3. ~Raises(EncodeOption(k, v)) =>
            EncodeOption(k, v)[2] = List(Iterated(v)) /\ v \notin {None, Absent}
      BY EncodedList
    <3> HIDE DEF v, args
    <3>4. Iterated(List(<<>>)) = <<>> /\ (\A x : List(x)[2] = x)
      BY IteratedList DEF List
    <3>5. Contents(args, k) = Iterated(OrDefault(v, List(<<>>)))
      BY <3>1, <3>2, <3>3, <3>4 DEF Contents, OrDefault
    <3> QED BY <2>1, <2>3, <3>5 DEF v
  <2> QED BY <2>2, <2>3
<1>11. LET named == IF Named # <<>> THEN Named
                    ELSE OrDefault(MeantQuery("named_parameters"), Dict(<<>>))[2]
       IN  coreQuery.named_parameters = WithDollars(named)
  <2> DEFINE k == "named_parameters"
             v == MeantQuery(k)
  <2>1. coreQuery[k] = Contents(args, k) /\ Named = NamedOf(q)
    BY <1>2, NamedArguments DEF Named
  <2>2. CASE NamedOf(q) # <<>>
    <3>1. Has(AllOptions(q), k) /\ AllOptions(q)[k] = Dict(NamedOf(q))
      BY <2>2, ParametersFirst DEF AllOptions
    <3>2. Has(args, k) /\ args[k] = Dict(WithDollars(NamedOf(q)))
      <4>1. Has(request.options, k) /\ request.options[k] = Dict(NamedOf(q))
        BY <1>1, <3>1, PreparedRequest
      <4>2. /\ Has(args, k) /\ ~Raises(EncodeOption(k, request.options[k]))
            /\ args[k] = EncodeOption(k, request.options[k])[2]
        BY <1>1, <4>1, RequestNames, EncodedRequest
      <4>3. Dict(NamedOf(q))[2] = NamedOf(q)
        BY DEF Dict
      <4> QED BY <4>1, <4>2, <4>3, EncodedDict
    <3>3. Contents(args, k) = WithDollars(NamedOf(q))
      BY <3>2 DEF Contents, Dict
    <3> QED BY <2>1, <2>2, <3>3
  <2>3. CASE NamedOf(q) = <<>>
    <3>1. \/ v = Absent /\ ~Has(args, k)
          \/ Convert("any", v) = Ok(None) /\ ~Has(args, k)
          \/ /\ ~Raises(EncodeOption(k, Convert("any", v)[2]))
             /\ Has(args, k) /\ args[k] = EncodeOption(k, Convert("any", v)[2])[2]
      BY <1>1, <1>3, <2>3, OptionOfQuery DEF MeantQuery, QueryLevels
    <3>2. Convert("any", v) = Ok(v) /\ Ok(v)[2] = v /\ (Ok(v) = Ok(None) => v = None)
      BY DEF Convert, Ok
    <3>3. ~Raises(EncodeOption(k, v)) =>
            EncodeOption(k, v)[2] = Dict(WithDollars(v[2])) /\ v \notin {None, Absent}
      BY EncodedDict
    <3>4. WithDollars(<<>>) = <<>> /\ (\A f : Dict(f)[2] = f)
      BY NoDollars DEF Dict
    <3> HIDE DEF v, args
    <3>5. Contents(args, k) = WithDollars(OrDefault(v, Dict(<<>>))[2])
      BY <3>1, <3>2, <3>3, <3>4 DEF Contents, OrDefault
    <3> QED BY <2>1, <2>3, <3>5 DEF v
  <2> QED BY <2>2, <2>3
<1>12. coreQuery.raw = OrDefault(MeantQuery("raw"), Dict(<<>>))[2]
  <2> DEFINE v == MeantQuery("raw")
             value == Convert("dict", v)
  <2>1. \/ v = Absent /\ ~Has(args, "raw")
        \/ ~Raises(value) /\ value = Ok(None)
        \/ /\ ~Raises(value) /\ ~Raises(EncodeOption("raw", value[2]))
           /\ Has(args, "raw") /\ args["raw"] = EncodeOption("raw", value[2])[2]
    BY <1>1, <1>3, OptionOfQuery DEF MeantQuery, QueryLevels
  <2>2. ~Raises(value) => value[2] = v /\ value # Ok(None) /\ v \notin {None, Absent}
    BY ConvertedSame
  <2>3. coreQuery.raw = Contents(args, "raw")
    BY <1>2
  <2>4. Dict(<<>>)[2] = <<>>
    BY DEF Dict
  <2> HIDE DEF v, value, args
  <2>5. coreQuery.raw = OrDefault(v, Dict(<<>>))[2]
    BY <2>1, <2>2, <2>3, <2>4, EncodedRaw DEF Contents, OrDefault
  <2> QED BY <2>5 DEF v
<1> QED BY <1>5, <1>6, <1>7, <1>8, <1>9, <1>10, <1>11, <1>12 DEF QueryReachesCore

-----------------------------------------------------------------------------
(* Where the request and the core's query come from.                       *)

\* Nothing has been asked initially, ...
LEMMA InitCall == Init => CallInv
BY DEF Init, CallInv, Phases, Unset

\* ... and every step keeps track of it.
LEMMA NextCall == CallInv /\ [Next]_vars => CallInv'
<1> SUFFICES ASSUME CallInv, [Next]_vars
             PROVE  CallInv'
  OBVIOUS
<1> USE DEF CallInv, Phases, Fails
<1>1. CASE CreateCluster
  <2>1. PICK c \in ClusterCalls : given' = c
    BY <1>1 DEF CreateCluster, Creates
  <2>2. /\ phase = "new" /\ phase' \in {"refused", "connecting"}
        /\ UNCHANGED coreQuery
    BY <1>1 DEF CreateCluster, Creates
  <2>3. \A q \in QueryCalls(given') : TypedCall(q)
    BY <2>1, CallsAssumption
  <2> QED BY <2>2, <2>3
<1>2. CASE Connect
  <2>1. /\ phase = "connecting" /\ phase' \in {"unconnected", "connected"}
        /\ UNCHANGED <<given, coreQuery>>
    BY <1>2 DEF Connect
  <2> QED BY <2>1
<1>3. CASE ExecuteQuery
  <2>1. PICK q \in QueryCalls(given) :
          LET prepared == Prepare(given.api, q, details.deserializer)
          IN  /\ call' = q
              /\ IF Raises(prepared) THEN phase' = "rejected"
                 ELSE phase' = "submitting" /\ request' = prepared[2]
    BY <1>3 DEF ExecuteQuery, Executes
  <2>2. phase = "connected" /\ UNCHANGED <<given, details, coreQuery>>
    BY <1>3 DEF ExecuteQuery, Executes
  <2>3. TypedCall(q)
    BY <2>2
  <2>4. CASE Raises(Prepare(given.api, q, details.deserializer))
    BY <2>1, <2>2, <2>4
  <2>5. CASE ~Raises(Prepare(given.api, q, details.deserializer))
    BY <2>1, <2>2, <2>3, <2>5
  <2> QED BY <2>4, <2>5
<1>4. CASE Submit
  <2>1. phase = "submitting" /\ UNCHANGED <<given, details, call, request>>
    BY <1>4 DEF Submit
  <2>2. \/ phase' = "failed" /\ UNCHANGED coreQuery
        \/ /\ phase' \in {"waiting", "done"}
           /\ ~Raises(ToReqDict(request)) /\ ~Raises(BuildQueryOptions(ToReqDict(request)[2]))
           /\ coreQuery' = BuildQueryOptions(ToReqDict(request)[2])[2]
    BY <1>4 DEF Submit
  <2> QED BY <2>1, <2>2
<1>5. CASE Answer
  <2>1. /\ phase = "waiting" /\ phase' = "done"
        /\ UNCHANGED <<given, details, call, request, coreQuery>>
    BY <1>5 DEF Answer
  <2> QED BY <2>1
<1>6. CASE UNCHANGED vars
  BY <1>6 DEF vars
<1> QED BY <1>1, <1>2, <1>3, <1>4, <1>5, <1>6 DEF Next

\* The inductive invariant of a query's way to the core.
THEOREM CallInvariance == Spec => []CallInv
BY InitCall, NextCall, PTL DEF Spec

\* The core is given the query the application means.
THEOREM QueryIsMeant == Spec => []QueryReachesCore
BY CallInvariance, CallReachesCore, PTL
=============================================================================
