------------------------ MODULE ClientClusterProofs ------------------------
(***************************************************************************)
(* That what the application says of a cluster reaches the core, for all   *)
(* connection strings, options and keyword arguments: each option is       *)
(* followed through flattening and OptionsBuilder to the field of the      *)
(* core's options that it is meant for.                                    *)
(***************************************************************************)
EXTENDS ClientQueryProofs

-----------------------------------------------------------------------------
(* What the application means.                                             *)

\* The first place that says something about an option decides, ...
LEMMA MeantFirst ==
  ASSUME NEW levels, DOMAIN levels \subseteq Nat, NEW k, NEW i \in DOMAIN levels,
         Has(levels[i], k), \A j \in DOMAIN levels : j < i => ~Has(levels[j], k)
  PROVE  Meant(levels, k) = levels[i][k]
<1> DEFINE least == CHOOSE j \in Says(levels, k) : \A l \in Says(levels, k) : j <= l
<1>1. i \in Says(levels, k) /\ \A l \in Says(levels, k) : i <= l
  BY DEF Says
<1>2. least \in Says(levels, k) /\ \A l \in Says(levels, k) : least <= l
  BY <1>1
<1>3. least = i
  <2>1. i \in Nat /\ least \in Nat
    BY <1>1, <1>2 DEF Says
  <2> HIDE DEF least
  <2> QED BY <1>1, <1>2, <2>1
<1> QED BY <1>1, <1>3 DEF Meant

\* ... and if none does the option is absent.
LEMMA MeantNowhere ==
  ASSUME NEW levels, NEW k, \A j \in DOMAIN levels : ~Has(levels[j], k)
  PROVE  Meant(levels, k) = Absent
BY DEF Meant, Says

\* Keyword arguments of OptionsBuilder: the query string and behind it kwargs.
Query(c) == Without(ParseConnectionString(c.str)[2], {"srv"})
Copied(c) == GetOptionsCopy(QueryStringOver(c.kwargs, Query(c)), c.options)
Flat(c) == Flatten(Copied(c))
Levels(c) == <<ParseConnectionString(c.str)[2], c.kwargs, OptionsClass(c.options)>>

\* So what OptionsBuilder copies is what the application means, ...
LEMMA CopiedIsMeantByCluster ==
  ASSUME NEW c, NEW k, k # "srv"
  PROVE  Meant(Levels(c), k) = IF Has(Copied(c), k) THEN Copied(c)[k] ELSE Absent
<1> DEFINE first == ParseConnectionString(c.str)[2]
           second == c.kwargs
           third == OptionsClass(c.options)
           levels == <<first, second, third>>
<1>1. /\ Has(Query(c), k) <=> Has(first, k)
      /\ Has(first, k) => Query(c)[k] = first[k]
  BY DEF Query, Without, Only, Has
<1>2. Copied(c) = (Query(c) ++ second) ++ third
  BY DEF Copied, GetOptionsCopy, QueryStringOver
<1>3. Levels(c) = levels
  BY DEF Levels
<1>4. DOMAIN levels = {1, 2, 3} /\ levels[1] = first /\ levels[2] = second /\ levels[3] = third
  OBVIOUS
<1> HIDE DEF first, second, third, levels
<1>5. CASE Has(first, k)
  <2>1. Meant(levels, k) = first[k]
    BY <1>4, <1>5, MeantFirst
  <2> QED BY <1>1, <1>2, <1>3, <1>5, <2>1 DEF Has, ++
<1>6. CASE ~Has(first, k) /\ Has(second, k)
  <2>1. \A j \in DOMAIN levels : j < 2 => ~Has(levels[j], k)
    BY <1>4, <1>6
  <2>2. Meant(levels, k) = second[k]
    BY <1>4, <1>6, <2>1, MeantFirst
  <2> QED BY <1>1, <1>2, <1>3, <1>6, <2>2 DEF Has, ++
<1>7. CASE ~Has(first, k) /\ ~Has(second, k) /\ Has(third, k)
  <2>1. \A j \in DOMAIN levels : j < 3 => ~Has(levels[j], k)
    BY <1>4, <1>7
  <2>2. Meant(levels, k) = third[k]
    BY <1>4, <1>7, <2>1, MeantFirst
  <2> QED BY <1>1, <1>2, <1>3, <1>7, <2>2 DEF Has, ++
<1>8. CASE ~Has(first, k) /\ ~Has(second, k) /\ ~Has(third, k)
  <2>1. Meant(levels, k) = Absent
    BY <1>4, <1>8, MeantNowhere
  <2> QED BY <1>1, <1>2, <1>3, <1>8, <2>1 DEF Has, ++
<1> QED BY <1>5, <1>6, <1>7, <1>8

\* ... also of a nested option, which comes behind the others.
LEMMA MeantNested ==
  ASSUME NEW c, NEW k, k # "srv", NEW nested \in {"security_options", "timeout_options"}
  PROVE  Meant(Levels(c) \o <<Nested([x \in {nested} |-> Meant(Levels(c), nested)], nested)>>, k) =
           IF Has(Copied(c), k) THEN Copied(c)[k]
           ELSE IF Has(Nested(Copied(c), nested), k) THEN Nested(Copied(c), nested)[k] ELSE Absent
<1> DEFINE first == ParseConnectionString(c.str)[2]
           second == c.kwargs
           third == OptionsClass(c.options)
           fourth == Nested([x \in {nested} |-> Meant(Levels(c), nested)], nested)
           three == <<first, second, third>>
           levels == three \o <<fourth>>
<1>1. Levels(c) = three
  BY DEF Levels
<1>2. fourth = Nested(Copied(c), nested)
  <2>1. Meant(Levels(c), nested) = IF Has(Copied(c), nested) THEN Copied(c)[nested] ELSE Absent
    BY CopiedIsMeantByCluster
  <2>2. fourth = IF Meant(Levels(c), nested)[1] = "dict" THEN Meant(Levels(c), nested)[2] ELSE NoOptions
    BY DEF Nested, Has
  <2> HIDE DEF fourth
  <2> QED BY <2>1, <2>2 DEF Nested, Absent
<1>3. /\ DOMAIN levels = {1, 2, 3, 4} /\ levels[1] = first /\ levels[2] = second
      /\ levels[3] = third /\ levels[4] = fourth
      /\ DOMAIN three = {1, 2, 3} /\ three[1] = first /\ three[2] = second /\ three[3] = third
  <2> DEFINE all == {first, second, third, fourth}
  <2> HIDE DEF first, second, third, fourth
  <2>1. three \in Seq(all) /\ <<fourth>> \in Seq(all) /\ Len(three) = 3
    OBVIOUS
  <2>2. levels \in Seq(all) /\ Len(levels) = 4
    BY <2>1
  <2>3. levels[1] = first /\ levels[2] = second /\ levels[3] = third /\ levels[4] = fourth
    BY <2>1
  <2>4. DOMAIN levels = 1 .. 4
    BY <2>2
  <2>5. 1 .. 4 = {1, 2, 3, 4}
    OBVIOUS
  <2> QED BY <2>3, <2>4, <2>5
<1>4. Meant(three, k) = IF Has(Copied(c), k) THEN Copied(c)[k] ELSE Absent
  BY <1>1, CopiedIsMeantByCluster
<1>5. Has(Copied(c), k) <=> Has(first, k) \/ Has(second, k) \/ Has(third, k)
  BY DEF Copied, GetOptionsCopy, QueryStringOver, Query, Without, Only, Has, ++
<1> SUFFICES Meant(levels, k) = IF Has(Copied(c), k) THEN Copied(c)[k]
                                ELSE IF Has(fourth, k) THEN fourth[k] ELSE Absent
  BY <1>1, <1>2
<1> HIDE DEF first, second, third, fourth, levels, three
<1>6. CASE Has(Copied(c), k)
  <2>1. PICK i \in {1, 2, 3} : /\ Has(three[i], k) /\ \A j \in {1, 2, 3} : j < i => ~Has(three[j], k)
    <3>1. CASE Has(first, k)
      BY <1>3, <3>1
    <3>2. CASE ~Has(first, k) /\ Has(second, k)
      BY <1>3, <3>2
    <3>3. CASE ~Has(first, k) /\ ~Has(second, k) /\ Has(third, k)
      BY <1>3, <3>3
    <3> QED BY <1>5, <1>6, <3>1, <3>2, <3>3
  <2>2. Meant(three, k) = three[i][k]
    BY <1>3, <2>1, MeantFirst
  <2>3. Has(levels[i], k) /\ levels[i] = three[i]
    BY <1>3, <2>1
  <2>4. \A j \in DOMAIN levels : j < i => ~Has(levels[j], k)
    BY <1>3, <2>1
  <2>5. Meant(levels, k) = levels[i][k]
    BY <1>3, <2>3, <2>4, MeantFirst
  <2> QED BY <1>4, <1>6, <2>2, <2>3, <2>5
<1>7. CASE ~Has(Copied(c), k) /\ Has(fourth, k)
  <2>1. \A j \in DOMAIN levels : j < 4 => ~Has(levels[j], k)
    BY <1>3, <1>5, <1>7
  <2>2. Meant(levels, k) = fourth[k]
    BY <1>3, <1>7, <2>1, MeantFirst
  <2> QED BY <1>7, <2>2
<1>8. CASE ~Has(Copied(c), k) /\ ~Has(fourth, k)
  <2>1. Meant(levels, k) = Absent
    BY <1>3, <1>5, <1>8, MeantNowhere
  <2> QED BY <1>8, <2>1
<1> QED BY <1>6, <1>7, <1>8

-----------------------------------------------------------------------------
(* The option classes.                                                     *)

\* The names of each class are nobody else's in it.
LEMMA UniqueNames ==
  ASSUME NEW class \in {"ClusterOptions", "SecurityOptions", "TimeoutOptions"},
         NEW j \in TransformDetails(class)[1], NEW k \in TransformDetails(class)[1],
         TransformDetails(class)[2][j][1] = TransformDetails(class)[2][k][1]
  PROVE  j = k
<1>1. CASE class = "ClusterOptions"
  <2>1. TransformDetails(class) = <<ClusterKeys, ClusterTransforms>>
    BY <1>1 DEF TransformDetails
  <2>2. \A i \in ClusterKeys :
          ClusterTransforms[i][1] = IF i = "ip_protocol" THEN "use_ip_protocol" ELSE i
    BY SMTT(60) DEF ClusterKeys, ClusterTransforms, Same, ++
  <2> QED BY <2>1, <2>2 DEF ClusterKeys
<1>2. CASE class = "SecurityOptions"
  <2>1. TransformDetails(class) = <<SecurityKeys, SecurityTransforms>>
    BY <1>2 DEF TransformDetails
  <2>2. \A i \in SecurityKeys : SecurityTransforms[i][1] = i
    BY DEF SecurityKeys, SecurityTransforms, Same, ++
  <2> QED BY <2>1, <2>2
<1>3. CASE class = "TimeoutOptions"
  <2>1. TransformDetails(class) = <<TimeoutKeys, TimeoutTransforms>>
    BY <1>3 DEF TransformDetails
  <2>2. \A i \in TimeoutKeys :
          TimeoutTransforms[i][1] = IF i = "connect_timeout" THEN "bootstrap_timeout"
                                    ELSE IF i = "query_timeout" THEN "analytics_timeout"
                                    ELSE IF i = "socket_connect_timeout" THEN "connect_timeout"
                                    ELSE i
    BY DEF TimeoutKeys, TimeoutTransforms, Same, ++
  <2> QED BY <2>1, <2>2 DEF TimeoutKeys
<1> QED BY <1>1, <1>2, <1>3

\* So each option is found under its name.
LEMMA BuiltFlat ==
  ASSUME NEW class \in {"ClusterOptions", "SecurityOptions", "TimeoutOptions"},
         NEW options, NEW k \in TransformDetails(class)[1],
         ~Raises(BuildOptions(class, options, NoOptions))
  PROVE  LET name == TransformDetails(class)[2][k][1]
             value == Convert(TransformDetails(class)[2][k][2], options[k])
             built == BuildOptions(class, options, NoOptions)[2]
         IN  /\ Has(built, name) <=> Has(options, k) /\ value # Ok(None)
             /\ Has(options, k) => ~Raises(value)
             /\ Has(built, name) => built[name] = value[2]
<1> DEFINE copied == GetOptionsCopy(options, NoOptions)
           name == TransformDetails(class)[2][k][1]
           kind == TransformDetails(class)[2][k][2]
           built == BuildOptions(class, options, NoOptions)[2]
<1>1. /\ Has(copied, k) <=> Has(options, k)
      /\ Has(options, k) => copied[k] = options[k]
  BY DEF GetOptionsCopy, OptionsClass, NoOptions, Only, Has, ++
<1>2. /\ Has(built, name) <=> Has(copied, k) /\ Convert(kind, copied[k]) # Ok(None)
      /\ Has(copied, k) => ~Raises(Convert(kind, copied[k]))
      /\ Has(built, name) => built[name] = Convert(kind, copied[k])[2]
  BY UniqueNames, BuiltOption
<1> SUFFICES /\ Has(built, name) <=> Has(options, k) /\ Convert(kind, options[k]) # Ok(None)
             /\ Has(options, k) => ~Raises(Convert(kind, options[k]))
             /\ Has(built, name) => built[name] = Convert(kind, options[k])[2]
  OBVIOUS
<1> HIDE DEF copied, name, kind, built
<1> QED BY <1>1, <1>2

\* No value of an option but those of kind "any" becomes None, and none is Absent.
LEMMA ConvertedValue ==
  ASSUME NEW kind \in Kinds \ {"any"}, NEW v, ~Raises(Convert(kind, v))
  PROVE  Convert(kind, v) # Ok(None) /\ v # Absent
<1>1. CASE kind \in {"bool", "str", "dict", "deserializer"}
  BY <1>1, ConvertedSame
<1>2. CASE kind = "int"
  <2>1. Convert(kind, v) = Check(v[1] \in {"int", "bool"}, v, "ValueError")
    BY <1>2 DEF Convert
  <2> QED BY <2>1 DEF Raises, Check, Ok, Raise, None, Absent
<1>3. CASE kind = "str_list"
  <2>1. Convert(kind, v) = Check(IsStrList(v), v, "ValueError")
    BY <1>3 DEF Convert
  <2>2. IsStrList(v) => v[1] = "list"
    BY DEF IsStrList
  <2> QED BY <2>1, <2>2 DEF Raises, Check, Ok, Raise, None, Absent
<1>4. CASE kind = "path"
  <2>1. Convert(kind, v) = ValidatePath(v)
    BY <1>4 DEF Convert
  <2> QED BY <2>1 DEF ValidatePath, Raises, Check, Ok, Raise, None, Absent
<1>5. CASE kind \in {"timedelta", "duration"}
  <2>1. Convert(kind, v) = IF kind = "duration" THEN ToMicroseconds(v) ELSE TimedeltaAsMicroseconds(v)
    BY <1>5 DEF Convert
  <2>2. ASSUME ~Raises(ToMicroseconds(v))
        PROVE  ToMicroseconds(v)[2][1] = "int"
    BY <2>2 DEF ToMicroseconds, Ok, Num, Raises, Raise
  <2>3. ASSUME ~Raises(TimedeltaAsMicroseconds(v))
        PROVE  TimedeltaAsMicroseconds(v)[2][1] = "int"
    BY <2>3 DEF TimedeltaAsMicroseconds, Check, Ok, Num, Raises, Raise
  <2>4. v = Absent => Raises(ToMicroseconds(v)) /\ Raises(TimedeltaAsMicroseconds(v))
    <3>1. Absent[1] = "absent" /\ Absent \notin Falsy
      BY DEF Absent, Falsy, None, Bool, Num, Timedelta, Str, List, Dict
    <3> QED BY <3>1 DEF ToMicroseconds, TimedeltaAsMicroseconds, Check, Raise, Raises
  <2> QED BY <1>5, <2>1, <2>2, <2>3, <2>4 DEF Ok, None
<1>6. CASE kind \in {"IpProtocol", "QueryScanConsistency"}
  BY <1>6, ConvertedEnum
<1> QED BY <1>1, <1>2, <1>3, <1>4, <1>5, <1>6 DEF Kinds

-----------------------------------------------------------------------------
(* Flattening.                                                             *)

Security == "security_options"
Timeouts == "timeout_options"
MeantIn(c, nested, k) ==
    Meant(Levels(c) \o <<Nested([x \in {nested} |-> Meant(Levels(c), nested)], nested)>>, k)

\* A bool is typed.
LEMMA TypedBool ==
  ASSUME NEW b \in BOOLEAN
  PROVE  Typed(Bool(b)) /\ Bool(b)[1] # "dict"
<1>1. Bool(b)[1] = "bool"
  BY DEF Bool
<1>2. Bool(b) \in {Bool(TRUE), Bool(FALSE)}
  OBVIOUS
<1> QED BY <1>1, <1>2 DEF Typed

\* A value of the query string is no dictionary, and typed.
LEMMA QueryValues ==
  ASSUME NEW c, TypedCluster(c), ~Raises(ParseConnectionString(c.str)), NEW k, Has(Query(c), k)
  PROVE  Typed(Query(c)[k]) /\ Query(c)[k][1] # "dict"
<1> DEFINE values == c.str.query[k]
<1>1. ParseConnectionString(c.str) = Ok([j \in DOMAIN c.str.query |-> ParseQueryStringValue(c.str.query[j])])
  BY DEF ParseConnectionString, Raises, Raise
<1>2. k \in DOMAIN c.str.query /\ Query(c)[k] = ParseQueryStringValue(values)
  BY <1>1 DEF Query, Without, Only, Has, Ok
<1>3. Len(values) > 1 \/ TypedWord(values[1])
  BY <1>2 DEF TypedCluster
<1>4. CASE Len(values) > 1
  <2>1. PICK s : ParseQueryStringValue(values) = List(s)
    BY <1>4 DEF ParseQueryStringValue
  <2> QED BY <1>2, <2>1 DEF List, Typed
<1>5. CASE ~(Len(values) > 1)
  <2>1. ParseQueryStringValue(values) = CASE values[1][1] = "digits" -> Num(values[1][2])
                                          [] values[1][1] = "boolean" -> Bool(values[1][2])
                                          [] values[1][1] = "text" -> Str(values[1][2])
    BY <1>5 DEF ParseQueryStringValue
  <2>2. CASE values[1][1] = "text"
    <3>1. ParseQueryStringValue(values) = Str(values[1][2])
      BY <2>1, <2>2
    <3> QED BY <1>2, <3>1 DEF Str, Typed
  <2>3. CASE values[1][1] = "digits" /\ values[1][2] \in Nat
    <3>1. ParseQueryStringValue(values) = Num(values[1][2])
      BY <2>1, <2>3
    <3> QED BY <1>2, <2>3, <3>1 DEF Num, Typed
  <2>4. CASE values[1] \in {Word(TRUE), Word(FALSE)}
    <3>1. values[1][1] = "boolean"
      <4>1. Word(TRUE)[1] = "boolean" /\ Word(FALSE)[1] = "boolean"
        BY DEF Word
      <4> QED BY <2>4, <4>1
    <3>2. ParseQueryStringValue(values) = Bool(values[1][2])
      BY <2>1, <3>1
    <3>3. CASE values[1] = Word(TRUE)
      <4>1. values[1][2] = TRUE
        BY <3>3 DEF Word
      <4> QED BY <1>2, <3>2, <4>1, TypedBool
    <3>4. CASE values[1] = Word(FALSE)
      <4>1. values[1][2] = FALSE
        BY <3>4 DEF Word
      <4> QED BY <1>2, <3>2, <4>1, TypedBool
    <3> QED BY <2>4, <3>3, <3>4
  <2> QED BY <1>3, <1>5, <2>2, <2>3, <2>4 DEF TypedWord
<1> QED BY <1>4, <1>5

\* So nested options come from keyword arguments or the options object.
LEMMA CopiedValues ==
  ASSUME NEW c, TypedCluster(c), ~Raises(ParseConnectionString(c.str))
  PROVE  /\ AllTyped(Copied(c))
         /\ DOMAIN Nested(Copied(c), Security) \subseteq SecurityKeys
         /\ DOMAIN Nested(Copied(c), Timeouts) \subseteq TimeoutKeys
         /\ AllTyped(Nested(Copied(c), Security)) /\ AllTyped(Nested(Copied(c), Timeouts))
<1> DEFINE copied == Copied(c)
           fromQuery(k) == Has(Query(c), k) /\ copied[k] = Query(c)[k]
           fromArguments(k) == Has(c.kwargs, k) /\ copied[k] = c.kwargs[k]
           fromOptions(k) == Has(c.options, k) /\ copied[k] = c.options[k]
<1>1. \A k : Has(copied, k) => fromQuery(k) \/ fromArguments(k) \/ fromOptions(k)
  BY DEF Copied, GetOptionsCopy, QueryStringOver, OptionsClass, Only, Has, ++
<1>2. TypedOptions(c.kwargs) /\ TypedOptions(c.options)
  BY DEF TypedCluster
<1>3. AllTyped(copied)
  <2> SUFFICES ASSUME NEW k, Has(copied, k) PROVE Typed(copied[k])
    BY DEF AllTyped, Has
  <2>1. AllTyped(c.kwargs) /\ AllTyped(c.options)
    BY <1>2 DEF TypedOptions
  <2> HIDE DEF copied
  <2> QED BY <1>1, <2>1, QueryValues DEF AllTyped, Has
<1>4. ASSUME NEW nested
      PROVE  Nested(copied, nested) \in {NoOptions, Nested(c.kwargs, nested), Nested(c.options, nested)}
  <2>1. CASE Has(copied, nested) /\ copied[nested][1] = "dict"
    <3> HIDE DEF copied
    <3> QED BY <1>1, <2>1, QueryValues DEF Nested
  <2>2. CASE ~(Has(copied, nested) /\ copied[nested][1] = "dict")
    BY <2>2 DEF Nested
  <2> QED BY <2>1, <2>2
<1>5. DOMAIN NoOptions = {} /\ AllTyped(NoOptions)
  BY DEF NoOptions, AllTyped
<1>6. /\ DOMAIN Nested(copied, Security) \subseteq SecurityKeys
      /\ AllTyped(Nested(copied, Security))
  <2> HIDE DEF copied
  <2> QED BY <1>2, <1>4, <1>5 DEF TypedOptions, Security
<1>7. /\ DOMAIN Nested(copied, Timeouts) \subseteq TimeoutKeys
      /\ AllTyped(Nested(copied, Timeouts))
  <2> HIDE DEF copied
  <2> QED BY <1>2, <1>4, <1>5 DEF TypedOptions, Timeouts
<1> QED BY <1>3, <1>6, <1>7

\* Flattened, each option is what the application means by it.
LEMMA FlatIsMeant ==
  ASSUME NEW c, TypedCluster(c), ~Raises(ParseConnectionString(c.str)), NEW k
  PROVE  LET flat == IF Has(Flat(c), k) THEN Flat(c)[k] ELSE Absent
         IN  /\ k \in SecurityKeys => MeantIn(c, Security, k) = flat
             /\ k \in TimeoutKeys => MeantIn(c, Timeouts, k) = flat
             /\ k \in ClusterKeys \ {Security, Timeouts} => Meant(Levels(c), k) = flat
             /\ k \in {Security, Timeouts} => ~Has(Flat(c), k)
             /\ Has(Flat(c), k) => Typed(Flat(c)[k])
<1> DEFINE copied == Copied(c)
           security == Nested(copied, Security)
           timeouts == Nested(copied, Timeouts)
<1>1. Flat(c) = Without(copied, {Security, Timeouts}) ++ security ++ timeouts
  BY DEF Flat, Flatten, Security, Timeouts
<1>2. /\ AllTyped(copied) /\ AllTyped(security) /\ AllTyped(timeouts)
      /\ DOMAIN security \subseteq SecurityKeys /\ DOMAIN timeouts \subseteq TimeoutKeys
  BY CopiedValues
<1>3. /\ SecurityKeys \cap TimeoutKeys = {} /\ SecurityKeys \cap ClusterKeys = {}
      /\ TimeoutKeys \cap ClusterKeys = {} /\ {Security, Timeouts} \subseteq ClusterKeys
      /\ "srv" \notin SecurityKeys \cup TimeoutKeys \cup ClusterKeys
  BY DEF SecurityKeys, TimeoutKeys, ClusterKeys, Security, Timeouts
<1>4. k # "srv" => /\ MeantIn(c, Security, k) = IF Has(copied, k) THEN copied[k]
                                                ELSE IF Has(security, k) THEN security[k] ELSE Absent
                   /\ MeantIn(c, Timeouts, k) = IF Has(copied, k) THEN copied[k]
                                                ELSE IF Has(timeouts, k) THEN timeouts[k] ELSE Absent
                   /\ Meant(Levels(c), k) = IF Has(copied, k) THEN copied[k] ELSE Absent
  BY MeantNested, CopiedIsMeantByCluster DEF MeantIn, Security, Timeouts
<1> HIDE DEF copied, security, timeouts
<1>5. /\ Has(Flat(c), k) <=> \/ Has(copied, k) /\ k \notin {Security, Timeouts}
                             \/ Has(security, k) \/ Has(timeouts, k)
      /\ Has(copied, k) /\ k \notin {Security, Timeouts} => Flat(c)[k] = copied[k]
      /\ Has(security, k) /\ ~Has(copied, k) => Flat(c)[k] = security[k]
      /\ Has(timeouts, k) /\ ~Has(copied, k) /\ ~Has(security, k) => Flat(c)[k] = timeouts[k]
  BY <1>1 DEF Without, Only, Has, ++
<1>6. CASE k \in SecurityKeys
  BY <1>2, <1>3, <1>4, <1>5, <1>6 DEF Has, AllTyped
<1>7. CASE k \in TimeoutKeys
  BY <1>2, <1>3, <1>4, <1>5, <1>7 DEF Has, AllTyped
<1>8. CASE k \in ClusterKeys \ {Security, Timeouts}
  BY <1>2, <1>3, <1>4, <1>5, <1>8 DEF Has, AllTyped
<1>9. CASE k \in {Security, Timeouts}
  BY <1>2, <1>3, <1>5, <1>9 DEF Has
<1>10. CASE k \notin SecurityKeys \cup TimeoutKeys \cup ClusterKeys
  BY <1>2, <1>3, <1>5, <1>10 DEF Has, AllTyped
<1> QED BY <1>6, <1>7, <1>8, <1>9, <1>10

-----------------------------------------------------------------------------
(* From the flat options to the request.                                   *)

\* What the application means is found under its name, validated.
Reaches(options, transform, meant) ==
    \/ meant = Absent /\ ~Has(options, transform[1])
    \/ /\ meant # Absent /\ Typed(meant)
       /\ ~Raises(Convert(transform[2], meant))
       /\ Has(options, transform[1])
       /\ options[transform[1]] = Convert(transform[2], meant)[2]

Built(c) == BuildClusterOptions(QueryStringOver(c.kwargs, Query(c)), c.options)

\* What OptionsBuilder makes of flat options is found in this way.
LEMMA BuiltReaches ==
  ASSUME NEW class \in {"ClusterOptions", "SecurityOptions", "TimeoutOptions"},
         NEW options, NEW k \in TransformDetails(class)[1],
         TransformDetails(class)[2][k][2] \in Kinds \ {"any"},
         ~Raises(BuildOptions(class, options, NoOptions)),
         NEW meant, meant = IF Has(options, k) THEN options[k] ELSE Absent,
         Has(options, k) => Typed(options[k])
  PROVE  Reaches(BuildOptions(class, options, NoOptions)[2], TransformDetails(class)[2][k], meant)
<1> DEFINE name == TransformDetails(class)[2][k][1]
           kind == TransformDetails(class)[2][k][2]
           built == BuildOptions(class, options, NoOptions)[2]
<1>1. /\ Has(built, name) <=> Has(options, k) /\ Convert(kind, options[k]) # Ok(None)
      /\ Has(options, k) => ~Raises(Convert(kind, options[k]))
      /\ Has(built, name) => built[name] = Convert(kind, options[k])[2]
  BY BuiltFlat
<1>2. Has(options, k) => Convert(kind, options[k]) # Ok(None) /\ options[k] # Absent
  BY <1>1, ConvertedValue
<1> SUFFICES \/ meant = Absent /\ ~Has(built, name)
             \/ /\ meant # Absent /\ Typed(meant) /\ ~Raises(Convert(kind, meant))
                /\ Has(built, name) /\ built[name] = Convert(kind, meant)[2]
  BY DEF Reaches
<1> HIDE DEF name, kind, built
<1> QED BY <1>1, <1>2

\* The kinds of all options but the nested ones.
LEMMA NoOtherKinds ==
  /\ \A k \in SecurityKeys : SecurityTransforms[k][2] \in Kinds \ {"any"}
  /\ \A k \in TimeoutKeys : TimeoutTransforms[k][2] = "timedelta"
  /\ \A k \in ClusterKeys \ {Security, Timeouts} : ClusterTransforms[k][2] \in Kinds \ {"any"}
  /\ \A k \in {Security, Timeouts} : ClusterTransforms[k] = <<k, "any">>
<1>1. \A k \in SecurityKeys : SecurityTransforms[k][2] \in Kinds \ {"any"}
  BY DEF SecurityKeys, SecurityTransforms, Same, Kinds, ++
<1>2. \A k \in TimeoutKeys : TimeoutTransforms[k][2] = "timedelta"
  BY DEF TimeoutKeys, TimeoutTransforms, Same, ++
<1>3. \A k \in ClusterKeys \ {Security, Timeouts} : ClusterTransforms[k][2] \in Kinds \ {"any"}
  BY SMTT(60) DEF ClusterKeys, ClusterTransforms, Same, Kinds, Security, Timeouts, ++
<1>4. \A k \in {Security, Timeouts} : ClusterTransforms[k] = <<k, "any">>
  BY SMTT(60) DEF ClusterTransforms, Same, Security, Timeouts, ++
<1> QED BY <1>1, <1>2, <1>3, <1>4

\* The nested options are built first, and put in front of the flat ones.
LEMMA BuiltCluster ==
  ASSUME NEW c, TypedCluster(c), ~Raises(ParseConnectionString(c.str)), ~Raises(Built(c))
  PROVE  /\ \A k \in SecurityKeys :
               Reaches(Nested(Built(c)[2], Security), SecurityTransforms[k], MeantIn(c, Security, k))
         /\ \A k \in TimeoutKeys :
               Reaches(Nested(Built(c)[2], Timeouts), TimeoutTransforms[k], MeantIn(c, Timeouts, k))
         /\ \A k \in ClusterKeys \ {Security, Timeouts} :
               Reaches(Built(c)[2], ClusterTransforms[k], Meant(Levels(c), k))
         /\ ~Has(Built(c)[2], "enable_dns_srv")
<1> DEFINE flat == Flat(c)
           security == BuildOptions("SecurityOptions", flat, NoOptions)
           timeouts == BuildOptions("TimeoutOptions", flat, NoOptions)
           front == AsOption(Security, security[2]) ++ AsOption(Timeouts, timeouts[2])
           top == front ++ flat
           built == BuildOptions("ClusterOptions", top, NoOptions)
<1>1. ~Raises(security) /\ ~Raises(timeouts) /\ Built(c) = built /\ ~Raises(built)
  BY DEF Built, BuildClusterOptions, Flat, Copied, Security, Timeouts
<1>2. /\ TransformDetails("SecurityOptions") = <<SecurityKeys, SecurityTransforms>>
      /\ TransformDetails("TimeoutOptions") = <<TimeoutKeys, TimeoutTransforms>>
      /\ TransformDetails("ClusterOptions") = <<ClusterKeys, ClusterTransforms>>
  BY DEF TransformDetails
<1>3. ASSUME NEW k \in SecurityKeys
      PROVE  Reaches(security[2], SecurityTransforms[k], MeantIn(c, Security, k))
  <2>1. MeantIn(c, Security, k) = IF Has(flat, k) THEN flat[k] ELSE Absent
    BY FlatIsMeant
  <2>2. Has(flat, k) => Typed(flat[k])
    BY FlatIsMeant
  <2> HIDE DEF flat
  <2> QED BY <1>1, <1>2, <2>1, <2>2, NoOtherKinds, BuiltReaches
<1>4. ASSUME NEW k \in TimeoutKeys
      PROVE  Reaches(timeouts[2], TimeoutTransforms[k], MeantIn(c, Timeouts, k))
  <2>1. MeantIn(c, Timeouts, k) = IF Has(flat, k) THEN flat[k] ELSE Absent
    BY FlatIsMeant
  <2>2. Has(flat, k) => Typed(flat[k])
    BY FlatIsMeant
  <2>3. TimeoutTransforms[k][2] \in Kinds \ {"any"}
    BY NoOtherKinds DEF Kinds
  <2> HIDE DEF flat
  <2> QED BY <1>1, <1>2, <2>1, <2>2, <2>3, BuiltReaches
<1>5. ASSUME NEW k \in ClusterKeys \ {Security, Timeouts}
      PROVE  Reaches(built[2], ClusterTransforms[k], Meant(Levels(c), k))
  <2>1. Meant(Levels(c), k) = IF Has(flat, k) THEN flat[k] ELSE Absent
    BY FlatIsMeant
  <2>2. Has(flat, k) => Typed(flat[k])
    BY FlatIsMeant
  <2>3. ~Has(front, k)
    BY DEF AsOption, NoOptions, Entry, Has, ++
  <2>4. /\ Has(top, k) <=> Has(flat, k)
        /\ Has(flat, k) => top[k] = flat[k]
    BY <2>3 DEF Has, ++
  <2> HIDE DEF flat, top
  <2>5. Meant(Levels(c), k) = IF Has(top, k) THEN top[k] ELSE Absent
    BY <2>1, <2>4
  <2>6. Has(top, k) => Typed(top[k])
    BY <2>2, <2>4
  <2> QED BY <1>1, <1>2, <2>5, <2>6, NoOtherKinds, BuiltReaches
<1>6. ASSUME NEW nested \in {Security, Timeouts}, NEW part,
             part = IF nested = Security THEN security[2] ELSE timeouts[2]
      PROVE  /\ \A n : Has(Nested(built[2], nested), n) <=> Has(part, n)
             /\ \A n : Has(part, n) => Nested(built[2], nested)[n] = part[n]
  <2>1. nested \in ClusterKeys /\ ClusterTransforms[nested] = <<nested, "any">>
    BY NoOtherKinds DEF ClusterKeys, Security, Timeouts
  <2>2. ~Has(flat, nested)
    BY FlatIsMeant
  <2>3. /\ Has(front, nested) <=> DOMAIN part # {}
        /\ Has(front, nested) => front[nested] = Dict(part)
    <3> HIDE DEF flat, security, timeouts
    <3>1. Security # Timeouts
      BY DEF Security, Timeouts
    <3> QED BY <1>6, <3>1 DEF AsOption, NoOptions, Entry, Has, ++
  <2>4. /\ Has(top, nested) <=> DOMAIN part # {}
        /\ Has(top, nested) => top[nested] = Dict(part)
    <3> HIDE DEF flat, front
    <3> QED BY <2>2, <2>3 DEF Has, ++
  <2> HIDE DEF flat, top
  <2>5. /\ Has(built[2], nested) <=> Has(top, nested) /\ Convert("any", top[nested]) # Ok(None)
        /\ Has(built[2], nested) => built[2][nested] = Convert("any", top[nested])[2]
    BY <1>1, <1>2, <2>1, BuiltFlat
  <2>6. Convert("any", top[nested]) = Ok(top[nested])
    BY DEF Convert
  <2>7. Has(top, nested) => Ok(top[nested]) # Ok(None) /\ Ok(top[nested])[2] = Dict(part)
    BY <2>4 DEF Ok, Dict, None
  <2> HIDE DEF built
  <2>8. CASE DOMAIN part = {}
    <3>1. Nested(built[2], nested) = NoOptions
      BY <2>4, <2>5, <2>8 DEF Nested
    <3> QED BY <2>8, <3>1 DEF NoOptions, Has
  <2>9. CASE DOMAIN part # {}
    <3>1. Has(built[2], nested) /\ built[2][nested] = Dict(part)
      BY <2>4, <2>5, <2>6, <2>7, <2>9
    <3>2. Nested(built[2], nested) = part
      BY <3>1 DEF Nested, Dict
    <3> QED BY <3>2
  <2> QED BY <2>8, <2>9
<1>7. ~Has(built[2], "enable_dns_srv")
  <2>1. \A n \in DOMAIN built[2] : \E k \in ClusterKeys : n = ClusterTransforms[k][1]
    <3> HIDE DEF top
    <3> QED BY <1>1, <1>2, BuiltNames
  <2>2. \A k \in ClusterKeys : ClusterTransforms[k][1] # "enable_dns_srv"
    BY SMTT(60) DEF ClusterKeys, ClusterTransforms, Same, ++
  <2> HIDE DEF built
  <2> QED BY <2>1, <2>2 DEF Has
<1> HIDE DEF security, timeouts, built
<1>8. ASSUME NEW k \in SecurityKeys
      PROVE  Reaches(Nested(built[2], Security), SecurityTransforms[k], MeantIn(c, Security, k))
  BY <1>3, <1>6 DEF Reaches
<1>9. ASSUME NEW k \in TimeoutKeys
      PROVE  Reaches(Nested(built[2], Timeouts), TimeoutTransforms[k], MeantIn(c, Timeouts, k))
  <2>1. Security # Timeouts
    BY DEF Security, Timeouts
  <2> QED BY <1>4, <1>6, <2>1 DEF Reaches
<1> QED BY <1>1, <1>5, <1>7, <1>8, <1>9

\* The options that the bindings get.
RequestOf(c) == ConnectReqDict(ConnectRequest(BlockingAdapter(c)[2])).options
Untouched == ClusterKeys \ {Security, Timeouts, "user_agent_extra",
                            "allow_unknown_qstr_options", "deserializer"}

\* Of what was built, three options are not for the core, and one of them has more
\* in it than the application says.
LEMMA RequestedOptions ==
  ASSUME NEW c, ~Raises(BlockingAdapter(c))
  PROVE  LET d == BlockingAdapter(c)[2]
             srv == Get(ParseConnectionString(c.str)[2], "srv", None)
         IN  /\ ~Raises(ParseConnectionString(c.str)) /\ ~Raises(Built(c))
             /\ Has(d.credential, "username") /\ d.credential.username = c.username[2]
             /\ ValidSecurity(Built(c)[2])
             /\ \A n : n \notin {"user_agent_extra", "allow_unknown_qstr_options",
                               "deserializer", "enable_dns_srv"} =>
                   /\ Has(RequestOf(c), n) <=> Has(Built(c)[2], n)
                   /\ Has(Built(c)[2], n) => RequestOf(c)[n] = Built(c)[2][n]
             /\ ~Has(Built(c)[2], "enable_dns_srv") =>
                   (Has(RequestOf(c), "enable_dns_srv") <=> srv = Bool(FALSE))
             /\ srv = Bool(FALSE) => RequestOf(c)["enable_dns_srv"] = Bool(FALSE)
<1> DEFINE credential == Credential(c.username, c.password)
           parsed == ParseConnectionString(c.str)
           built == Built(c)
           srv == Get(parsed[2], "srv", None)
           created == Details(built[2], Query(c), srv, credential[2])
           d == BlockingAdapter(c)[2]
<1>1. BlockingAdapter(c) = IF Raises(credential) THEN credential
                           ELSE IF Raises(parsed) THEN parsed
                           ELSE IF Raises(built) THEN built
                           ELSE Check(ValidSecurity(built[2]), created, "ValueError")
  BY DEF BlockingAdapter, Create, Built, Query
<1>2. /\ ~Raises(credential) /\ ~Raises(parsed) /\ ~Raises(built)
      /\ ValidSecurity(built[2]) /\ d = created
  <2> HIDE DEF credential, parsed, built, created
  <2> QED BY <1>1 DEF Check, Raises, Ok, Raise
<1>3. Has(credential[2], "username") /\ credential[2].username = c.username[2]
  BY <1>2 DEF Credential, Check, Raises, Ok, Raise, Has
<1> HIDE DEF credential, parsed, built, srv
<1> DEFINE front == IF srv = Bool(FALSE) THEN Entry("enable_dns_srv", Bool(FALSE)) ELSE NoOptions
           kept == Entry("user_agent_extra", UserAgent(built[2]))
                   ++ Without(built[2], {"allow_unknown_qstr_options", "deserializer"})
<1>4. created.credential = credential[2] /\ created.options = kept
      /\ created.noDnsSrv = (srv = Bool(FALSE))
  BY DEF Details
<1>5. RequestOf(c) = front ++ kept
  <2>1. ConnectRequest(d).options = kept /\ ConnectRequest(d).enable_dns_srv = (srv # Bool(FALSE))
    BY <1>2, <1>4 DEF ConnectRequest
  <2>2. ConnectReqDict(ConnectRequest(d)).options =
          (IF ConnectRequest(d).enable_dns_srv THEN NoOptions
           ELSE Entry("enable_dns_srv", Bool(FALSE))) ++ ConnectRequest(d).options
    BY DEF ConnectReqDict, ConnectRequest
  <2> HIDE DEF kept, d
  <2> QED BY <2>1, <2>2 DEF RequestOf, d
<1>6. \A n : n \notin {"user_agent_extra", "allow_unknown_qstr_options", "deserializer"} =>
         /\ Has(kept, n) <=> Has(built[2], n)
         /\ Has(built[2], n) => kept[n] = built[2][n]
  BY DEF Entry, Without, Only, Has, ++
<1>7. /\ \A n : n # "enable_dns_srv" => ~Has(front, n)
      /\ Has(front, "enable_dns_srv") <=> srv = Bool(FALSE)
      /\ srv = Bool(FALSE) => front["enable_dns_srv"] = Bool(FALSE)
  <2>1. CASE srv = Bool(FALSE)
    <3>1. front = [key \in {"enable_dns_srv"} |-> Bool(FALSE)]
      BY <2>1 DEF Entry
    <3> HIDE DEF front
    <3> QED BY <2>1, <3>1 DEF Has
  <2>2. CASE srv # Bool(FALSE)
    <3>1. front = <<>>
      BY <2>2 DEF NoOptions
    <3> HIDE DEF front
    <3>2. DOMAIN front = {}
      BY <3>1
    <3>3. \A n : ~Has(front, n)
      BY <3>2 DEF Has
    <3> QED BY <2>2, <3>3
  <2> QED BY <2>1, <2>2
<1> HIDE DEF front, kept, created, d
<1>8. \A n : /\ Has(RequestOf(c), n) <=> Has(front, n) \/ Has(kept, n)
             /\ Has(front, n) => RequestOf(c)[n] = front[n]
             /\ ~Has(front, n) /\ Has(kept, n) => RequestOf(c)[n] = kept[n]
  BY <1>5 DEF Has, ++
<1>9. Has(d.credential, "username") /\ d.credential.username = c.username[2]
  BY <1>2, <1>3, <1>4
<1> QED BY <1>2, <1>6, <1>7, <1>8, <1>9 DEF d, parsed, built, srv

\* What the bindings get is what the application means.
LEMMA CreatedCluster ==
  ASSUME NEW c, TypedCluster(c), ~Raises(BlockingAdapter(c))
  PROVE  /\ \A k \in SecurityKeys :
               Reaches(Nested(RequestOf(c), Security), SecurityTransforms[k], MeantIn(c, Security, k))
         /\ \A k \in TimeoutKeys :
               Reaches(Nested(RequestOf(c), Timeouts), TimeoutTransforms[k], MeantIn(c, Timeouts, k))
         /\ \A k \in Untouched : Reaches(RequestOf(c), ClusterTransforms[k], Meant(Levels(c), k))
         /\ ValidSecurity(RequestOf(c))
         /\ Has(RequestOf(c), "enable_dns_srv") <=>
               Get(ParseConnectionString(c.str)[2], "srv", None) = Bool(FALSE)
         /\ Has(RequestOf(c), "enable_dns_srv") => RequestOf(c)["enable_dns_srv"] = Bool(FALSE)
<1> DEFINE built == Built(c)[2]
           touched == {"user_agent_extra", "allow_unknown_qstr_options", "deserializer",
                       "enable_dns_srv"}
<1>1. ~Raises(ParseConnectionString(c.str)) /\ ~Raises(Built(c)) /\ ValidSecurity(built)
  BY RequestedOptions
<1>2. \A n : n \notin touched => /\ Has(RequestOf(c), n) <=> Has(built, n)
                                 /\ Has(built, n) => RequestOf(c)[n] = built[n]
  BY RequestedOptions
<1>3. /\ \A k \in SecurityKeys :
            Reaches(Nested(built, Security), SecurityTransforms[k], MeantIn(c, Security, k))
      /\ \A k \in TimeoutKeys :
            Reaches(Nested(built, Timeouts), TimeoutTransforms[k], MeantIn(c, Timeouts, k))
      /\ \A k \in ClusterKeys \ {Security, Timeouts} :
            Reaches(built, ClusterTransforms[k], Meant(Levels(c), k))
      /\ ~Has(built, "enable_dns_srv")
  BY <1>1, BuiltCluster
<1>4. /\ Has(RequestOf(c), "enable_dns_srv") <=>
            Get(ParseConnectionString(c.str)[2], "srv", None) = Bool(FALSE)
      /\ Has(RequestOf(c), "enable_dns_srv") => RequestOf(c)["enable_dns_srv"] = Bool(FALSE)
  BY <1>3, RequestedOptions
<1> HIDE DEF built
<1>5. /\ Nested(RequestOf(c), Security) = Nested(built, Security)
      /\ Nested(RequestOf(c), Timeouts) = Nested(built, Timeouts)
  <2>1. Security \notin touched /\ Timeouts \notin touched
    BY DEF Security, Timeouts
  <2> HIDE DEF touched
  <2>2. ASSUME NEW n, n \notin touched PROVE Nested(RequestOf(c), n) = Nested(built, n)
    BY <1>2, <2>2 DEF Nested
  <2> QED BY <2>1, <2>2
<1>6. \A k \in Untouched : ClusterTransforms[k][1] \notin touched
  BY SMTT(60) DEF Untouched, ClusterKeys, ClusterTransforms, Same, Security, Timeouts, ++
<1>7. ValidSecurity(RequestOf(c))
  BY <1>1, <1>5 DEF ValidSecurity, Security
<1>8. ASSUME NEW k \in Untouched
      PROVE  Reaches(RequestOf(c), ClusterTransforms[k], Meant(Levels(c), k))
  <2>1. Reaches(built, ClusterTransforms[k], Meant(Levels(c), k))
    BY <1>3 DEF Untouched
  <2>2. ClusterTransforms[k][1] \notin touched
    BY <1>6
  <2> HIDE DEF touched
  <2> QED BY <1>2, <2>1, <2>2 DEF Reaches
<1> QED BY <1>3, <1>4, <1>5, <1>7, <1>8

-----------------------------------------------------------------------------
(* From the request to the core.                                           *)

TimeoutNames == {"bootstrap_timeout", "dispatch_timeout", "resolve_timeout", "connect_timeout",
                 "analytics_timeout", "management_timeout"}
TrustNames == {"trust_only_capella", "trust_only_pem_file", "trust_certificate",
               "trust_only_pem_string", "trust_certificate_value", "trust_only_certificates",
               "trust_only_platform", "cipher_suites", "tls_verify"}

\* The timeouts are set first, ...
LEMMA TimeoutsSet ==
  ASSUME NEW from, DOMAIN from = CoreFields, NEW timeouts
  PROVE  LET to == UpdateClusterTimeoutOptions(from, timeouts)
         IN  /\ DOMAIN to = CoreFields
             /\ \A n \in TimeoutNames : to[n] = MillisOf(timeouts, n, from[n])
             /\ \A n \in CoreFields \ TimeoutNames : to[n] = from[n]
<1>1. TimeoutNames \subseteq CoreFields
  BY DEF CoreFields, TimeoutNames
<1> QED BY <1>1 DEF UpdateClusterTimeoutOptions, TimeoutNames

\* ... then what the core trusts, ...
OtherTrust(security) ==
    \/ Get(security, "trust_only_capella", None) = Bool(FALSE)
    \/ Get(security, "trust_only_platform", None) = Bool(TRUE)
    \/ DOMAIN security \cap {"trust_only_pem_file", "trust_only_pem_str",
                             "trust_only_certificates"} # {}

LEMMA TrustSet ==
  ASSUME NEW from, DOMAIN from = CoreFields, NEW security
  PROVE  LET to == UpdateClusterSecurityOptions(from, security)
         IN  /\ DOMAIN to = CoreFields
             /\ to.trust_only_capella = (from.trust_only_capella /\ ~OtherTrust(security))
             /\ to.trust_only_pem_file =
                   (from.trust_only_pem_file \/ Has(security, "trust_only_pem_file"))
             /\ to.trust_only_pem_string =
                   (from.trust_only_pem_string \/ Has(security, "trust_only_pem_str"))
             /\ to.trust_only_certificates =
                   NonEmpty(security, "trust_only_certificates", from.trust_only_certificates)
             /\ to.trust_only_platform =
                   (\/ from.trust_only_platform
                    \/ Get(security, "trust_only_platform", None) = Bool(TRUE))
             /\ to.tls_verify =
                   IF Get(security, "verify_server_certificate", None) = Bool(FALSE)
                   THEN "none" ELSE from.tls_verify
             /\ \A n \in CoreFields \ TrustNames : to[n] = from[n]
<1>1. TrustNames \subseteq CoreFields
  BY DEF CoreFields, TrustNames
<1> QED BY <1>1 DEF UpdateClusterSecurityOptions, TrustNames, OtherTrust

\* ... and the rest last, the dns options as one.
LEMMA OthersSet ==
  ASSUME NEW options, NEW from, DOMAIN from = CoreFields,
         from = UpdateClusterSecurityOptions(
                   UpdateClusterTimeoutOptions(CoreDefaults, Nested(options, Timeouts)),
                   Nested(options, Security))
  PROVE  LET to == UpdateClusterOptions(CoreDefaults, options)
         IN  /\ to.disable_mozilla_ca_certificates =
                   (\/ from.disable_mozilla_ca_certificates
                    \/ Get(options, "disable_mozilla_ca_certificates", None) = Bool(TRUE))
             /\ to.use_ip_protocol = Get(options, "use_ip_protocol", Str(from.use_ip_protocol))[2]
             /\ to.enable_dns_srv =
                   (from.enable_dns_srv /\ Get(options, "enable_dns_srv", None) # Bool(FALSE))
             /\ to.enable_clustermap_notification =
                   (/\ from.enable_clustermap_notification
                    /\ Get(options, "enable_clustermap_notification", None) # Bool(FALSE))
             /\ to.network = Get(options, "network", Str(from.network))[2]
             /\ to.config_poll_interval =
                   MillisOf(options, "config_poll_interval", from.config_poll_interval)
             /\ to.config_poll_floor =
                   MillisOf(options, "config_poll_floor", from.config_poll_floor)
             /\ to.dns_config = UpdateDnsConfig(from.dns_config, options)
             /\ to.dump_configuration =
                   (\/ from.dump_configuration
                    \/ Get(options, "dump_configuration", None) = Bool(TRUE))
             /\ \A n \in TimeoutNames \cup TrustNames : to[n] = from[n]
<1> DEFINE mozilla == \/ from.disable_mozilla_ca_certificates
                      \/ Get(options, "disable_mozilla_ca_certificates", None) = Bool(TRUE)
           ip == Get(options, "use_ip_protocol", Str(from.use_ip_protocol))[2]
           srv == /\ from.enable_dns_srv
                  /\ Get(options, "enable_dns_srv", None) # Bool(FALSE)
           notification == /\ from.enable_clustermap_notification
                           /\ Get(options, "enable_clustermap_notification", None) # Bool(FALSE)
           network == Get(options, "network", Str(from.network))[2]
           interval == MillisOf(options, "config_poll_interval", from.config_poll_interval)
           floor == MillisOf(options, "config_poll_floor", from.config_poll_floor)
           agent == Get(options, "user_agent_extra", Str(from.user_agent_extra))[2]
           dns == UpdateDnsConfig(from.dns_config, options)
           dump == \/ from.dump_configuration
                   \/ Get(options, "dump_configuration", None) = Bool(TRUE)
           to == UpdateClusterOptions(CoreDefaults, options)
<1>1. to = [from EXCEPT
              !.disable_mozilla_ca_certificates =
                  @ \/ Get(options, "disable_mozilla_ca_certificates", None) = Bool(TRUE),
              !.use_ip_protocol = Get(options, "use_ip_protocol", Str(@))[2],
              !.enable_dns_srv = @ /\ Get(options, "enable_dns_srv", None) # Bool(FALSE),
              !.enable_clustermap_notification =
                  @ /\ Get(options, "enable_clustermap_notification", None) # Bool(FALSE),
              !.network = Get(options, "network", Str(@))[2],
              !.config_poll_interval = MillisOf(options, "config_poll_interval", @),
              !.config_poll_floor = MillisOf(options, "config_poll_floor", @),
              !.user_agent_extra = Get(options, "user_agent_extra", Str(@))[2],
              !.dns_config = UpdateDnsConfig(@, options),
              !.dump_configuration =
                  @ \/ Get(options, "dump_configuration", None) = Bool(TRUE)]
  BY ZenonT(60) DEF UpdateClusterOptions, Timeouts, Security
<1>2. {"disable_mozilla_ca_certificates", "use_ip_protocol", "enable_dns_srv",
       "enable_clustermap_notification", "network", "config_poll_interval",
       "config_poll_floor", "user_agent_extra", "dns_config", "dump_configuration"}
         \subseteq CoreFields
  BY DEF CoreFields
<1>3. TimeoutNames \subseteq CoreFields /\ TrustNames \subseteq CoreFields
  BY DEF CoreFields, TimeoutNames, TrustNames
<1> HIDE DEF to
<1>4. to.disable_mozilla_ca_certificates = mozilla
  BY <1>1, <1>2
<1>5. to.use_ip_protocol = ip
  BY <1>1, <1>2
<1>6. to.enable_dns_srv = srv
  BY <1>1, <1>2
<1>7. to.enable_clustermap_notification = notification
  BY <1>1, <1>2
<1>8. to.network = network
  BY <1>1, <1>2
<1>9. to.config_poll_interval = interval
  BY <1>1, <1>2
<1>10. to.config_poll_floor = floor
  BY <1>1, <1>2
<1>11. to.dns_config = dns
  BY <1>1, <1>2
<1>12. to.dump_configuration = dump
  BY <1>1, <1>2
<1>13. \A n \in TimeoutNames \cup TrustNames : to[n] = from[n]
  BY <1>1, <1>3 DEF TimeoutNames, TrustNames
<1> QED BY <1>4, <1>5, <1>6, <1>7, <1>8, <1>9, <1>10, <1>11, <1>12, <1>13 DEF to

\* All of it: what is in the core, from its defaults and the options.
LEMMA CoreOptions ==
  ASSUME NEW options
  PROVE  LET to == UpdateClusterOptions(CoreDefaults, options)
             timeouts == Nested(options, Timeouts)
             security == Nested(options, Security)
             isTrue(k) == Get(options, k, None) = Bool(TRUE)
             isFalse(k) == Get(options, k, None) = Bool(FALSE)
         IN  /\ \A n \in TimeoutNames : to[n] = MillisOf(timeouts, n, CoreDefaults[n])
             /\ to.config_poll_interval =
                   MillisOf(options, "config_poll_interval", CoreDefaults.config_poll_interval)
             /\ to.config_poll_floor =
                   MillisOf(options, "config_poll_floor", CoreDefaults.config_poll_floor)
             /\ to.dns_config = UpdateDnsConfig(CoreDefaults.dns_config, options)
             /\ to.disable_mozilla_ca_certificates = isTrue("disable_mozilla_ca_certificates")
             /\ to.dump_configuration = isTrue("dump_configuration")
             /\ to.enable_dns_srv = ~isFalse("enable_dns_srv")
             /\ to.enable_clustermap_notification = ~isFalse("enable_clustermap_notification")
             /\ to.network = Get(options, "network", Str(CoreDefaults.network))[2]
             /\ to.use_ip_protocol =
                   Get(options, "use_ip_protocol", Str(CoreDefaults.use_ip_protocol))[2]
             /\ to.trust_only_capella = ~OtherTrust(security)
             /\ to.trust_only_pem_file = Has(security, "trust_only_pem_file")
             /\ to.trust_only_pem_string = Has(security, "trust_only_pem_str")
             /\ to.trust_only_certificates = NonEmpty(security, "trust_only_certificates", <<>>)
             /\ to.trust_only_platform =
                   (Get(security, "trust_only_platform", None) = Bool(TRUE))
             /\ to.tls_verify =
                   IF Get(security, "verify_server_certificate", None) = Bool(FALSE)
                   THEN "none" ELSE "peer"
<1> DEFINE timeouts == Nested(options, Timeouts)
           security == Nested(options, Security)
           first == UpdateClusterTimeoutOptions(CoreDefaults, timeouts)
           second == UpdateClusterSecurityOptions(first, security)
           to == UpdateClusterOptions(CoreDefaults, options)
           rest == CoreFields \ (TimeoutNames \cup TrustNames)
<1>1. /\ DOMAIN CoreDefaults = CoreFields
      /\ CoreDefaults.trust_only_certificates = <<>> /\ CoreDefaults.tls_verify = "peer"
      /\ CoreDefaults.trust_only_capella = TRUE /\ CoreDefaults.enable_dns_srv = TRUE
      /\ CoreDefaults.enable_clustermap_notification = TRUE
      /\ CoreDefaults.trust_only_pem_file = FALSE /\ CoreDefaults.trust_only_pem_string = FALSE
      /\ CoreDefaults.trust_only_platform = FALSE /\ CoreDefaults.dump_configuration = FALSE
      /\ CoreDefaults.disable_mozilla_ca_certificates = FALSE
  BY CoreDefaultsAssumption
<1>2. /\ DOMAIN first = CoreFields
      /\ \A n \in TimeoutNames : first[n] = MillisOf(timeouts, n, CoreDefaults[n])
      /\ \A n \in CoreFields \ TimeoutNames : first[n] = CoreDefaults[n]
  BY <1>1, TimeoutsSet
<1>3. /\ DOMAIN second = CoreFields
      /\ second.trust_only_capella = (first.trust_only_capella /\ ~OtherTrust(security))
      /\ second.trust_only_pem_file =
            (first.trust_only_pem_file \/ Has(security, "trust_only_pem_file"))
      /\ second.trust_only_pem_string =
            (first.trust_only_pem_string \/ Has(security, "trust_only_pem_str"))
      /\ second.trust_only_certificates =
            NonEmpty(security, "trust_only_certificates", first.trust_only_certificates)
      /\ second.trust_only_platform =
            (\/ first.trust_only_platform
             \/ Get(security, "trust_only_platform", None) = Bool(TRUE))
      /\ second.tls_verify = IF Get(security, "verify_server_certificate", None) = Bool(FALSE)
                             THEN "none" ELSE first.tls_verify
      /\ \A n \in CoreFields \ TrustNames : second[n] = first[n]
  BY <1>2, TrustSet
<1>4. /\ to.disable_mozilla_ca_certificates =
            (\/ second.disable_mozilla_ca_certificates
             \/ Get(options, "disable_mozilla_ca_certificates", None) = Bool(TRUE))
      /\ to.use_ip_protocol = Get(options, "use_ip_protocol", Str(second.use_ip_protocol))[2]
      /\ to.enable_dns_srv =
            (second.enable_dns_srv /\ Get(options, "enable_dns_srv", None) # Bool(FALSE))
      /\ to.enable_clustermap_notification =
            (/\ second.enable_clustermap_notification
             /\ Get(options, "enable_clustermap_notification", None) # Bool(FALSE))
      /\ to.network = Get(options, "network", Str(second.network))[2]
      /\ to.config_poll_interval =
            MillisOf(options, "config_poll_interval", second.config_poll_interval)
      /\ to.config_poll_floor =
            MillisOf(options, "config_poll_floor", second.config_poll_floor)
      /\ to.dns_config = UpdateDnsConfig(second.dns_config, options)
      /\ to.dump_configuration =
            (\/ second.dump_configuration
             \/ Get(options, "dump_configuration", None) = Bool(TRUE))
      /\ \A n \in TimeoutNames \cup TrustNames : to[n] = second[n]
  BY <1>3, OthersSet
<1>5. /\ TimeoutNames \subseteq CoreFields \ TrustNames
      /\ TrustNames \subseteq CoreFields \ TimeoutNames
      /\ {"disable_mozilla_ca_certificates", "use_ip_protocol", "enable_dns_srv",
          "enable_clustermap_notification", "network", "config_poll_interval",
          "config_poll_floor", "dns_config", "dump_configuration"} \subseteq rest
  BY DEF CoreFields, TimeoutNames, TrustNames
<1> HIDE DEF timeouts, security, first, second, to
<1>6. \A n \in TimeoutNames : to[n] = MillisOf(timeouts, n, CoreDefaults[n])
  BY <1>2, <1>3, <1>4, <1>5
<1>7. \A n \in rest : second[n] = CoreDefaults[n]
  BY <1>2, <1>3
<1> HIDE DEF rest
<1>8. /\ to.config_poll_interval =
            MillisOf(options, "config_poll_interval", CoreDefaults.config_poll_interval)
      /\ to.config_poll_floor =
            MillisOf(options, "config_poll_floor", CoreDefaults.config_poll_floor)
      /\ to.dns_config = UpdateDnsConfig(CoreDefaults.dns_config, options)
      /\ to.network = Get(options, "network", Str(CoreDefaults.network))[2]
      /\ to.use_ip_protocol =
            Get(options, "use_ip_protocol", Str(CoreDefaults.use_ip_protocol))[2]
  BY <1>4, <1>5, <1>7
<1>9. /\ to.disable_mozilla_ca_certificates =
            (Get(options, "disable_mozilla_ca_certificates", None) = Bool(TRUE))
      /\ to.dump_configuration = (Get(options, "dump_configuration", None) = Bool(TRUE))
      /\ to.enable_dns_srv = ~(Get(options, "enable_dns_srv", None) = Bool(FALSE))
      /\ to.enable_clustermap_notification =
            ~(Get(options, "enable_clustermap_notification", None) = Bool(FALSE))
  BY <1>1, <1>4, <1>5, <1>7
<1>10. \A n \in TrustNames : to[n] = second[n] /\ first[n] = CoreDefaults[n]
  BY <1>2, <1>4, <1>5
<1>11. {"trust_only_capella", "trust_only_pem_file", "trust_only_pem_string",
        "trust_only_certificates", "trust_only_platform", "tls_verify"} \subseteq TrustNames
  BY DEF TrustNames
<1>12. /\ to.trust_only_capella = ~OtherTrust(security)
       /\ to.trust_only_pem_file = Has(security, "trust_only_pem_file")
       /\ to.trust_only_pem_string = Has(security, "trust_only_pem_str")
       /\ to.trust_only_platform = (Get(security, "trust_only_platform", None) = Bool(TRUE))
  <2>1. to.trust_only_capella = ~OtherTrust(security)
    BY <1>1, <1>3, <1>10, <1>11 DEF OtherTrust
  <2>2. to.trust_only_pem_file = Has(security, "trust_only_pem_file")
    BY <1>1, <1>3, <1>10, <1>11 DEF Has
  <2>3. to.trust_only_pem_string = Has(security, "trust_only_pem_str")
    BY <1>1, <1>3, <1>10, <1>11 DEF Has
  <2>4. to.trust_only_platform = (Get(security, "trust_only_platform", None) = Bool(TRUE))
    BY <1>1, <1>3, <1>10, <1>11
  <2> QED BY <2>1, <2>2, <2>3, <2>4
<1>13. /\ to.trust_only_certificates = NonEmpty(security, "trust_only_certificates", <<>>)
       /\ to.tls_verify = IF Get(security, "verify_server_certificate", None) = Bool(FALSE)
                          THEN "none" ELSE "peer"
  BY <1>1, <1>3, <1>10, <1>11
<1> QED BY <1>6, <1>8, <1>9, <1>12, <1>13 DEF to, timeouts, security

-----------------------------------------------------------------------------
(* From what is meant to the core.                                         *)

\* An option of bools is one of two or not there, ...
LEMMA BoolReaches ==
  ASSUME NEW options, NEW name, NEW meant, Reaches(options, <<name, "bool">>, meant)
  PROVE  \/ meant = Absent /\ ~Has(options, name) /\ Get(options, name, None) = None
         \/ /\ meant \in {Bool(TRUE), Bool(FALSE)}
            /\ Has(options, name) /\ Get(options, name, None) = meant
<1>1. CASE meant = Absent
  BY <1>1 DEF Reaches, Get
<1>2. CASE meant # Absent
  <2>1. Typed(meant) /\ ~Raises(Convert("bool", meant)) /\ Has(options, name)
        /\ options[name] = Convert("bool", meant)[2]
    BY <1>2 DEF Reaches
  <2>2. Convert("bool", meant)[2] = meant /\ meant[1] = "bool"
    BY <2>1, ConvertedSame
  <2>3. meant \in {Bool(TRUE), Bool(FALSE)}
    BY <2>1, <2>2 DEF Typed
  <2> QED BY <1>2, <2>1, <2>2, <2>3 DEF Get
<1> QED BY <1>1, <1>2

\* ... a string is the one that was meant, ...
LEMMA StringReaches ==
  ASSUME NEW options, NEW name, NEW meant, Reaches(options, <<name, "str">>, meant)
  PROVE  \/ meant = Absent /\ ~Has(options, name)
         \/ /\ meant # Absent /\ meant[1] = "str"
            /\ Has(options, name) /\ options[name] = meant
<1>1. CASE meant = Absent
  BY <1>1 DEF Reaches
<1>2. CASE meant # Absent
  <2>1. ~Raises(Convert("str", meant)) /\ Has(options, name)
        /\ options[name] = Convert("str", meant)[2]
    BY <1>2 DEF Reaches
  <2>2. Convert("str", meant)[2] = meant /\ meant[1] = "str"
    BY <2>1, ConvertedSame
  <2> QED BY <1>2, <2>1, <2>2
<1> QED BY <1>1, <1>2

\* ... and a duration, unless it overflows, fits.
LEMMA DurationReaches ==
  ASSUME NEW options, NEW name, NEW meant, NEW default,
         Reaches(options, <<name, "timedelta">>, meant),
         ~(Has(options, name) /\ Overflows(options[name]))
  PROVE  DurationFits(meant, MillisOf(options, name, default), default)
<1>1. CASE meant = Absent
  BY <1>1 DEF Reaches, DurationFits, Defaulted, MillisOf
<1>2. CASE meant # Absent
  <2> DEFINE us == Convert("timedelta", meant)[2]
  <2>1. /\ Typed(meant) /\ ~Raises(Convert("timedelta", meant))
        /\ Has(options, name) /\ options[name] = us
    BY <1>2 DEF Reaches
  <2>2. us[1] = "int" /\ us[2] \in Int
    BY <2>1, ConvertedDuration DEF Typed
  <2>3. us[2] >= 0
    BY <2>1, <2>2 DEF Overflows
  <2>4. DurationFits(meant, us[2] \div 1000, default)
    BY <1>2, <2>1, <2>3, DurationsFit DEF Typed
  <2> HIDE DEF us
  <2> QED BY <2>1, <2>4 DEF MillisOf, Millis
<1> QED BY <1>1, <1>2

\* Where the cluster's options come from.
LEMMA ClusterOptions ==
  ASSUME ClusterInv, core # Unset
  PROVE  /\ TypedCluster(given) /\ ~Raises(BlockingAdapter(given))
         /\ details = BlockingAdapter(given)[2]
         /\ core = UpdateClusterOptions(CoreDefaults, RequestOf(given))
         /\ phase # "unconnected" => ~RequestOverflows(RequestOf(given))
BY DEF ClusterInv, RequestOf

\* What the properties call meant is what the lemmas call so.
LEMMA MeantGiven ==
  /\ \A k : MeantCluster(k) = Meant(Levels(given), k)
  /\ \A k : MeantTimeout(k) = MeantIn(given, Timeouts, k)
  /\ \A k : MeantSecurity(k) = MeantIn(given, Security, k)
<1>1. ClusterLevels = Levels(given)
  BY DEF ClusterLevels, QueryString, Levels
<1>2. \A k : MeantCluster(k) = Meant(Levels(given), k)
  BY <1>1 DEF MeantCluster
<1>3. \A k : MeantTimeout(k) = MeantIn(given, Timeouts, k)
  BY <1>1 DEF MeantTimeout, MeantIn, OptionLevels, Timeouts
<1>4. \A k : MeantSecurity(k) = MeantIn(given, Security, k)
  BY <1>1 DEF MeantSecurity, MeantIn, OptionLevels, Security
<1> QED BY <1>2, <1>3, <1>4

\* The timeout of the dns options is set by its own option only.
LEMMA DnsTimeout ==
  ASSUME NEW options
  PROVE  UpdateDnsConfig(CoreDefaults.dns_config, options).timeout =
           MillisOf(Nested(options, Timeouts), "dns_srv_timeout", CoreDefaults.dns_config.timeout)
<1> DEFINE timeouts == Only(Nested(options, Timeouts), {"dns_srv_timeout"})
           asked == timeouts ++ Only(options, {"dns_nameserver", "dns_port"})
           dns == CoreDefaults.dns_config
           name == "dns_srv_timeout"
<1>1. UpdateDnsConfig(dns, options).timeout =
        IF DOMAIN asked = {} THEN dns.timeout ELSE MillisOf(asked, name, dns.timeout)
  BY DEF UpdateDnsConfig, Timeouts
<1>2. /\ Has(asked, name) <=> Has(Nested(options, Timeouts), name)
      /\ Has(asked, name) => asked[name] = Nested(options, Timeouts)[name]
  BY DEF Only, Has, ++
<1>3. Has(asked, name) => DOMAIN asked # {}
  BY DEF Has
<1> HIDE DEF asked, dns
<1> QED BY <1>1, <1>2, <1>3 DEF MillisOf, dns

\* No option that was asked for overflows.
LEMMA NoOverflow ==
  ASSUME NEW options, ~RequestOverflows(options)
  PROVE  /\ \A k \in NumericKeys : ~(Has(options, k) /\ Overflows(options[k]))
         /\ \A k : ~(/\ Has(Nested(options, Timeouts), k)
                     /\ Overflows(Nested(options, Timeouts)[k]))
BY DEF RequestOverflows, Has, Timeouts

\* Each duration reaches its field of the core.
LEMMA DurationsReach == ClusterInv => DurationsReachCore
<1> SUFFICES ASSUME ClusterInv, Connected PROVE DurationsReachCore
  BY DEF DurationsReachCore
<1> DEFINE options == RequestOf(given)
           timeouts == Nested(options, Timeouts)
<1>1. /\ TypedCluster(given) /\ ~Raises(BlockingAdapter(given))
      /\ core = UpdateClusterOptions(CoreDefaults, options) /\ ~RequestOverflows(options)
  BY ClusterOptions DEF Connected
<1>2. /\ \A k \in TimeoutKeys :
            Reaches(timeouts, TimeoutTransforms[k], MeantIn(given, Timeouts, k))
      /\ \A k \in Untouched : Reaches(options, ClusterTransforms[k], Meant(Levels(given), k))
  BY <1>1, CreatedCluster
<1>3. /\ \A n \in TimeoutNames : core[n] = MillisOf(timeouts, n, CoreDefaults[n])
      /\ core.config_poll_interval =
            MillisOf(options, "config_poll_interval", CoreDefaults.config_poll_interval)
      /\ core.config_poll_floor =
            MillisOf(options, "config_poll_floor", CoreDefaults.config_poll_floor)
      /\ core.dns_config = UpdateDnsConfig(CoreDefaults.dns_config, options)
  BY <1>1, CoreOptions
<1>4. /\ \A k \in NumericKeys : ~(Has(options, k) /\ Overflows(options[k]))
      /\ \A k : ~(Has(timeouts, k) /\ Overflows(timeouts[k]))
  BY <1>1, NoOverflow
<1>5. /\ DOMAIN TimeoutFields \subseteq TimeoutKeys
      /\ \A k \in DOMAIN TimeoutFields :
            /\ TimeoutTransforms[k] = <<TimeoutFields[k], "timedelta">>
            /\ TimeoutFields[k] \in TimeoutNames
      /\ "dns_srv_timeout" \in TimeoutKeys
      /\ TimeoutTransforms["dns_srv_timeout"] = <<"dns_srv_timeout", "timedelta">>
  BY DEF TimeoutFields, TimeoutKeys, TimeoutTransforms, TimeoutNames, Same, ++
<1>6. \A k \in {"config_poll_floor", "config_poll_interval"} :
         k \in Untouched /\ k \in NumericKeys /\ ClusterTransforms[k] = <<k, "timedelta">>
  <2>1. \A k \in {"config_poll_floor", "config_poll_interval"} :
           k \in Untouched /\ k \in NumericKeys
    BY DEF Untouched, ClusterKeys, Security, Timeouts, NumericKeys
  <2>2. \A k \in {"config_poll_floor", "config_poll_interval"} :
           ClusterTransforms[k] = <<k, "timedelta">>
    BY SMTT(60) DEF ClusterTransforms, Same, ++
  <2> QED BY <2>1, <2>2
<1> HIDE DEF options, timeouts
<1>7. ASSUME NEW k \in DOMAIN TimeoutFields
      PROVE  DurationFits(MeantTimeout(k), core[TimeoutFields[k]], CoreDefaults[TimeoutFields[k]])
  <2>1. Reaches(timeouts, <<TimeoutFields[k], "timedelta">>, MeantTimeout(k))
    BY <1>2, <1>5, MeantGiven
  <2> QED BY <1>3, <1>4, <1>5, <2>1, DurationReaches
<1>8. DurationFits(MeantTimeout("dns_srv_timeout"), core.dns_config.timeout,
                   CoreDefaults.dns_config.timeout)
  <2>1. Reaches(timeouts, <<"dns_srv_timeout", "timedelta">>, MeantTimeout("dns_srv_timeout"))
    BY <1>2, <1>5, MeantGiven
  <2>2. core.dns_config.timeout =
          MillisOf(timeouts, "dns_srv_timeout", CoreDefaults.dns_config.timeout)
    BY <1>3, DnsTimeout DEF timeouts
  <2> QED BY <1>4, <2>1, <2>2, DurationReaches
<1>9. ASSUME NEW k \in {"config_poll_floor", "config_poll_interval"}
      PROVE  DurationFits(MeantCluster(k), core[k], CoreDefaults[k])
  <2>1. Reaches(options, <<k, "timedelta">>, MeantCluster(k))
    BY <1>2, <1>6, MeantGiven
  <2>2. core[k] = MillisOf(options, k, CoreDefaults[k])
    BY <1>3
  <2> QED BY <1>4, <1>6, <2>1, <2>2, DurationReaches
<1> QED BY <1>7, <1>8, <1>9 DEF DurationsReachCore

\* The loop of an asyncio cluster, when it gets one.
LEMMA LoopIsChosen ==
  ASSUME NEW asked, NEW current, ~Raises(AdapterLoop(asked, current))
  PROVE  LET chosen == AdapterLoop(asked, current)[2]
         IN  /\ asked # NoLoop => chosen = asked
             /\ asked = NoLoop => IsValidLoop(chosen)
             /\ asked = NoLoop /\ current.running => chosen = current
BY DEF AdapterLoop, GetEventLoop, GetWorkingLoop, IsValidLoop, NewLoop, NoLoop,
       Check, Raises, Ok, Raise

\* Every other option reaches the report of the core's options.
LEMMA OptionsReach == ClusterInv => OptionsReachCore
<1> SUFFICES ASSUME ClusterInv, Connected PROVE OptionsReachCore
  BY DEF OptionsReachCore
<1> DEFINE options == RequestOf(given)
           security == Nested(options, Security)
           isTrue(k) == Get(options, k, None) = Bool(TRUE)
           isFalse(k) == Get(options, k, None) = Bool(FALSE)
           creds == ClusterCredentials(details.credential)
           ipMeant == MeantCluster("ip_protocol")
           flags == {"disable_mozilla_ca_certificates", "enable_clustermap_notification",
                     "dump_configuration"}
<1>1. /\ TypedCluster(given) /\ ~Raises(BlockingAdapter(given))
      /\ details = BlockingAdapter(given)[2]
      /\ core = UpdateClusterOptions(CoreDefaults, options)
  BY ClusterOptions DEF Connected
<1>2. /\ \A k \in SecurityKeys :
            Reaches(security, SecurityTransforms[k], MeantIn(given, Security, k))
      /\ \A k \in Untouched : Reaches(options, ClusterTransforms[k], Meant(Levels(given), k))
      /\ Has(options, "enable_dns_srv") <=> Get(QueryString, "srv", None) = Bool(FALSE)
      /\ Has(options, "enable_dns_srv") => options["enable_dns_srv"] = Bool(FALSE)
  BY <1>1, CreatedCluster DEF QueryString
<1>3. /\ core.disable_mozilla_ca_certificates = isTrue("disable_mozilla_ca_certificates")
      /\ core.dump_configuration = isTrue("dump_configuration")
      /\ core.enable_dns_srv = ~isFalse("enable_dns_srv")
      /\ core.enable_clustermap_notification = ~isFalse("enable_clustermap_notification")
      /\ core.network = Get(options, "network", Str(CoreDefaults.network))[2]
      /\ core.use_ip_protocol =
            Get(options, "use_ip_protocol", Str(CoreDefaults.use_ip_protocol))[2]
      /\ core.tls_verify = IF Get(security, "verify_server_certificate", None) = Bool(FALSE)
                           THEN "none" ELSE "peer"
  BY <1>1, CoreOptions
<1>4. /\ \A k \in flags \cup {"enable_dns_srv", "network", "tls_verify"} : Info[k] = core[k]
      /\ Info.ip_protocol = core.use_ip_protocol /\ Info.credentials = creds
  BY DEF Info, ConnectionInfo, ++
<1>5. flags \cup {"network", "ip_protocol"} \subseteq Untouched
  BY DEF Untouched, ClusterKeys, Security, Timeouts
<1>6. /\ \A k \in flags : ClusterTransforms[k] = <<k, "bool">>
      /\ ClusterTransforms["network"] = <<"network", "str">>
      /\ ClusterTransforms["ip_protocol"] = <<"use_ip_protocol", "IpProtocol">>
  BY SMTT(60) DEF ClusterTransforms, Same, ++
<1>7. "verify_server_certificate" \in SecurityKeys
      /\ SecurityTransforms["verify_server_certificate"] = <<"verify_server_certificate", "bool">>
  BY DEF SecurityKeys, SecurityTransforms, Same, ++
<1>8. /\ CoreDefaults.disable_mozilla_ca_certificates = FALSE
      /\ CoreDefaults.dump_configuration = FALSE
      /\ CoreDefaults.enable_clustermap_notification = TRUE
  BY CoreDefaultsAssumption
<1>9. /\ None # Bool(TRUE) /\ None # Bool(FALSE) /\ Absent # Bool(TRUE) /\ Absent # Bool(FALSE)
      /\ Bool(TRUE) # Bool(FALSE)
      /\ Plain(Bool(TRUE)) = TRUE /\ Plain(Bool(FALSE)) = FALSE
  BY DEF None, Absent, Bool, Plain
<1> HIDE DEF options, security, creds
<1>10. ASSUME NEW k \in flags
       PROVE  \/ MeantCluster(k) = Absent /\ Get(options, k, None) = None
              \/ /\ MeantCluster(k) \in {Bool(TRUE), Bool(FALSE)}
                 /\ Get(options, k, None) = MeantCluster(k)
  <2>1. Reaches(options, <<k, "bool">>, MeantCluster(k))
    <3>1. k \in Untouched /\ ClusterTransforms[k] = <<k, "bool">>
      BY <1>5, <1>6
    <3> QED BY <1>2, <3>1, MeantGiven
  <2> QED BY <2>1, BoolReaches
<1>11. ASSUME NEW k \in flags
       PROVE  Info[k] = IF MeantCluster(k) = Absent THEN CoreDefaults[k] ELSE Plain(MeantCluster(k))
  <2> DEFINE m == MeantCluster(k)
  <2>1. Info[k] = core[k]
    BY <1>4
  <2>2. core[k] = IF k = "enable_clustermap_notification" THEN ~isFalse(k) ELSE isTrue(k)
    BY <1>3
  <2>3. CoreDefaults[k] = (k = "enable_clustermap_notification")
    BY <1>8
  <2>4. \/ m = Absent /\ Get(options, k, None) = None
        \/ m \in {Bool(TRUE), Bool(FALSE)} /\ Get(options, k, None) = m
    BY <1>10
  <2> HIDE DEF m, flags
  <2>5. CASE m = Absent
    BY <1>9, <2>1, <2>2, <2>3, <2>4, <2>5 DEF m
  <2>6. CASE m = Bool(TRUE)
    BY <1>9, <2>1, <2>2, <2>4, <2>6 DEF m
  <2>7. CASE m = Bool(FALSE)
    BY <1>9, <2>1, <2>2, <2>4, <2>7 DEF m
  <2> QED BY <2>4, <2>5, <2>6, <2>7
<1>12. Info["network"] = IF MeantCluster("network") = Absent THEN CoreDefaults["network"]
                         ELSE Plain(MeantCluster("network"))
  <2>1. Reaches(options, <<"network", "str">>, MeantCluster("network"))
    BY <1>2, <1>5, <1>6, MeantGiven
  <2>2. Str(CoreDefaults["network"])[2] = CoreDefaults["network"]
    BY DEF Str
  <2> QED BY <1>3, <1>4, <2>1, <2>2, StringReaches DEF Get, Plain
<1>13. Info.ip_protocol = IF ipMeant = Absent THEN CoreDefaults.use_ip_protocol ELSE Plain(ipMeant)
  <2>1. Reaches(options, <<"use_ip_protocol", "IpProtocol">>, ipMeant)
    BY <1>2, <1>5, <1>6, MeantGiven
  <2>2. \A v : Str(v)[2] = v
    BY DEF Str
  <2> HIDE DEF ipMeant
  <2>3. CASE ipMeant = Absent
    BY <1>3, <1>4, <2>1, <2>2, <2>3 DEF Reaches, Get
  <2>4. CASE ipMeant # Absent
    <3>1. /\ ~Raises(Convert("IpProtocol", ipMeant)) /\ Has(options, "use_ip_protocol")
          /\ options["use_ip_protocol"] = Convert("IpProtocol", ipMeant)[2]
      BY <2>1, <2>4 DEF Reaches
    <3>2. Convert("IpProtocol", ipMeant)[2] = Str(ipMeant[2]) /\ ipMeant[1] \in {"str", "IpProtocol"}
      BY <3>1, ConvertedEnum
    <3> QED BY <1>3, <1>4, <2>2, <2>4, <3>1, <3>2 DEF Get, Plain
  <2> QED BY <2>3, <2>4
<1>14. ~Info.enable_dns_srv <=> Get(QueryString, "srv", None) = Bool(FALSE)
  <2>1. isFalse("enable_dns_srv") <=> Has(options, "enable_dns_srv")
    BY <1>2, <1>9 DEF Get
  <2>2. Info.enable_dns_srv = ~isFalse("enable_dns_srv")
    BY <1>3, <1>4
  <2> QED BY <1>2, <2>1, <2>2
<1>15. Info.tls_verify = "none" <=> MeantSecurity("verify_server_certificate") = Bool(FALSE)
  <2> DEFINE m == MeantSecurity("verify_server_certificate")
  <2>1. Reaches(security, <<"verify_server_certificate", "bool">>, m)
    BY <1>2, <1>7, MeantGiven
  <2>2. \/ m = Absent /\ Get(security, "verify_server_certificate", None) = None
        \/ Get(security, "verify_server_certificate", None) = m
    BY <2>1, BoolReaches
  <2> HIDE DEF m
  <2> QED BY <1>3, <1>4, <1>9, <2>2 DEF m
<1>16. Info.credentials.username = given.username[2]
  <2>1. Has(details.credential, "username") /\ details.credential.username = given.username[2]
    BY <1>1, RequestedOptions
  <2> QED BY <1>4, <2>1 DEF creds, ClusterCredentials, Has, ++
<1>17. given.api = "asyncio" =>
          /\ given.loop # NoLoop => loop = given.loop
          /\ given.loop = NoLoop => IsValidLoop(loop)
          /\ given.loop = NoLoop /\ given.current.running => loop = given.current
  <2> SUFFICES ASSUME given.api = "asyncio"
               PROVE  /\ given.loop # NoLoop => loop = given.loop
                      /\ given.loop = NoLoop => IsValidLoop(loop)
                      /\ given.loop = NoLoop /\ given.current.running => loop = given.current
    OBVIOUS
  <2>1. /\ ~Raises(AdapterLoop(given.loop, given.current))
        /\ loop = AdapterLoop(given.loop, given.current)[2]
    BY DEF ClusterInv, Connected
  <2> QED BY <2>1, LoopIsChosen
<1> QED BY <1>11, <1>12, <1>13, <1>14, <1>15, <1>16, <1>17 DEF OptionsReachCore

\* Trust in Capella's certificates excludes all other, as given and as meant.
LEMMA TrustReaches == ClusterInv => TrustIsExclusive
<1> SUFFICES ASSUME ClusterInv, Connected PROVE TrustIsExclusive
  BY DEF TrustIsExclusive
<1> DEFINE options == RequestOf(given)
           security == Nested(options, Security)
           capella == MeantSecurity("trust_only_capella")
           file == MeantSecurity("trust_only_pem_file")
           string == MeantSecurity("trust_only_pem_str")
           certificates == MeantSecurity("trust_only_certificates")
           platform == MeantSecurity("trust_only_platform")
           asks == \/ file # Absent \/ string # Absent \/ certificates # Absent
                   \/ platform = Bool(TRUE)
<1>1. /\ TypedCluster(given) /\ ~Raises(BlockingAdapter(given))
      /\ core = UpdateClusterOptions(CoreDefaults, options)
  BY ClusterOptions DEF Connected
<1>2. /\ \A k \in SecurityKeys : Reaches(security, SecurityTransforms[k], MeantSecurity(k))
      /\ ValidSecurity(options)
  BY <1>1, CreatedCluster, MeantGiven
<1>3. /\ core.trust_only_capella = ~OtherTrust(security)
      /\ core.trust_only_pem_file = Has(security, "trust_only_pem_file")
      /\ core.trust_only_pem_string = Has(security, "trust_only_pem_str")
      /\ core.trust_only_certificates = NonEmpty(security, "trust_only_certificates", <<>>)
      /\ core.trust_only_platform = (Get(security, "trust_only_platform", None) = Bool(TRUE))
  BY <1>1, CoreOptions
<1>4. /\ {"trust_only_capella", "trust_only_pem_file", "trust_only_pem_str",
          "trust_only_certificates", "trust_only_platform"} \subseteq SecurityKeys
      /\ SecurityTransforms["trust_only_capella"] = <<"trust_only_capella", "bool">>
      /\ SecurityTransforms["trust_only_pem_file"] = <<"trust_only_pem_file", "path">>
      /\ SecurityTransforms["trust_only_pem_str"] = <<"trust_only_pem_str", "str">>
      /\ SecurityTransforms["trust_only_certificates"] = <<"trust_only_certificates", "str_list">>
      /\ SecurityTransforms["trust_only_platform"] = <<"trust_only_platform", "bool">>
  BY DEF SecurityKeys, SecurityTransforms, Same, ++
<1>5. Get(security, "trust_only_capella", None) = Bool(TRUE) => ~TrustsCertificates(security)
  BY <1>2 DEF ValidSecurity, options, Security
<1> HIDE DEF options, security
<1>6. /\ Reaches(security, <<"trust_only_capella", "bool">>, capella)
      /\ Reaches(security, <<"trust_only_pem_file", "path">>, file)
      /\ Reaches(security, <<"trust_only_pem_str", "str">>, string)
      /\ Reaches(security, <<"trust_only_certificates", "str_list">>, certificates)
      /\ Reaches(security, <<"trust_only_platform", "bool">>, platform)
  BY <1>2, <1>4
<1> SUFFICES /\ core.trust_only_capella =>
                   /\ ~core.trust_only_pem_file /\ ~core.trust_only_pem_string
                   /\ core.trust_only_certificates = <<>> /\ ~core.trust_only_platform
             /\ core.trust_only_capella <=> capella # Bool(FALSE) /\ ~asks
             /\ capella = Bool(TRUE) /\ ~core.trust_only_capella =>
                   \/ platform = Bool(TRUE)
                   \/ IsNullOrEmpty(file) \/ IsNullOrEmpty(string)
                   \/ certificates = List(<<>>)
  BY DEF TrustIsExclusive, AsksForOthers, GivesCertificates
<1>7. /\ \/ capella = Absent /\ Get(security, "trust_only_capella", None) = None
         \/ /\ capella \in {Bool(TRUE), Bool(FALSE)}
            /\ Get(security, "trust_only_capella", None) = capella
      /\ \/ platform = Absent /\ Get(security, "trust_only_platform", None) = None
         \/ /\ platform \in {Bool(TRUE), Bool(FALSE)}
            /\ Get(security, "trust_only_platform", None) = platform
  BY <1>6, BoolReaches
<1>8. /\ None # Bool(FALSE) /\ Absent # Bool(FALSE) /\ None # Bool(TRUE) /\ Absent # Bool(TRUE)
      /\ Bool(TRUE) # Bool(FALSE)
  BY DEF None, Absent, Bool
<1>9. /\ Has(security, "trust_only_pem_file") <=> file # Absent
      /\ Has(security, "trust_only_pem_str") <=> string # Absent
      /\ Has(security, "trust_only_certificates") <=> certificates # Absent
  BY <1>6 DEF Reaches
<1> HIDE DEF capella, file, string, certificates, platform
<1>10. OtherTrust(security) <=> capella = Bool(FALSE) \/ asks
  <2>1. OtherTrust(security) <=>
           \/ Get(security, "trust_only_capella", None) = Bool(FALSE)
           \/ Get(security, "trust_only_platform", None) = Bool(TRUE)
           \/ Has(security, "trust_only_pem_file") \/ Has(security, "trust_only_pem_str")
           \/ Has(security, "trust_only_certificates")
    BY DEF OtherTrust, Has
  <2> QED BY <1>7, <1>8, <1>9, <2>1
<1>11. ASSUME ~OtherTrust(security)
       PROVE  /\ ~Has(security, "trust_only_pem_file") /\ ~Has(security, "trust_only_pem_str")
              /\ NonEmpty(security, "trust_only_certificates", <<>>) = <<>>
              /\ Get(security, "trust_only_platform", None) # Bool(TRUE)
  <2>1. /\ ~Has(security, "trust_only_pem_file") /\ ~Has(security, "trust_only_pem_str")
        /\ ~Has(security, "trust_only_certificates")
        /\ Get(security, "trust_only_platform", None) # Bool(TRUE)
    BY <1>11 DEF OtherTrust, Has
  <2> QED BY <2>1 DEF NonEmpty, Get
<1>12. ASSUME capella = Bool(TRUE), ~core.trust_only_capella
       PROVE  \/ platform = Bool(TRUE)
              \/ IsNullOrEmpty(file) \/ IsNullOrEmpty(string)
              \/ certificates = List(<<>>)
  <2>1. /\ IsNullOrEmpty(Get(security, "trust_only_pem_file", None))
        /\ IsNullOrEmpty(Get(security, "trust_only_pem_str", None))
        /\ Get(security, "trust_only_certificates", List(<<>>)) = List(<<>>)
    BY <1>5, <1>7, <1>8, <1>12 DEF TrustsCertificates
  <2>2. asks
    BY <1>3, <1>8, <1>10, <1>12
  <2>3. CASE platform = Bool(TRUE)
    BY <2>3
  <2>4. CASE file # Absent
    <3>1. /\ Has(security, "trust_only_pem_file") /\ ~Raises(ValidatePath(file))
          /\ security["trust_only_pem_file"] = ValidatePath(file)[2]
      BY <1>6, <2>4 DEF Reaches, Convert
    <3>2. security["trust_only_pem_file"] = file
      BY <3>1 DEF ValidatePath, Check, Raises, Raise, Ok
    <3> QED BY <2>1, <3>1, <3>2 DEF Get
  <2>5. CASE string # Absent
    <3>1. /\ Has(security, "trust_only_pem_str")
          /\ ~Raises(Convert("str", string))
          /\ security["trust_only_pem_str"] = Convert("str", string)[2]
      BY <1>6, <2>5 DEF Reaches
    <3>2. Convert("str", string) = Check(string[1] = "str", string, "ValueError")
      BY DEF Convert
    <3>3. security["trust_only_pem_str"] = string
      BY <3>1, <3>2 DEF Check, Raises, Raise, Ok
    <3> QED BY <2>1, <3>1, <3>3 DEF Get
  <2>6. CASE certificates # Absent
    <3>1. /\ Has(security, "trust_only_certificates")
          /\ ~Raises(Convert("str_list", certificates))
          /\ security["trust_only_certificates"] = Convert("str_list", certificates)[2]
      BY <1>6, <2>6 DEF Reaches
    <3>2. Convert("str_list", certificates) = Check(IsStrList(certificates), certificates, "ValueError")
      BY DEF Convert
    <3>3. security["trust_only_certificates"] = certificates
      BY <3>1, <3>2 DEF Check, Raises, Raise, Ok
    <3> QED BY <2>1, <3>1, <3>3 DEF Get
  <2> QED BY <2>2, <2>3, <2>4, <2>5, <2>6
<1>13. core.trust_only_capella =>
          /\ ~core.trust_only_pem_file /\ ~core.trust_only_pem_string
          /\ core.trust_only_certificates = <<>> /\ ~core.trust_only_platform
  BY <1>3, <1>11
<1>14. core.trust_only_capella <=> capella # Bool(FALSE) /\ ~asks
  BY <1>3, <1>10
<1> HIDE DEF asks
<1> QED BY <1>12, <1>13, <1>14

-----------------------------------------------------------------------------
(* Types, and the invariant.                                               *)

SixteenBits(n) == n \in Int /\ 0 <= n /\ n <= 65535

\* What is left of a number has sixteen bits, ...
LEMMA Remainder ==
  ASSUME NEW n \in Int
  PROVE  SixteenBits(n % 65536)
BY DEF SixteenBits

\* ... so a port has, ...
LEMMA PortFits ==
  ASSUME NEW v, v \in {Bool(TRUE), Bool(FALSE)} \/ v[2] \in Int
  PROVE  SixteenBits(PortOf(v))
<1>1. Bool(TRUE) # Bool(FALSE) /\ SixteenBits(0) /\ SixteenBits(1)
  BY DEF Bool, SixteenBits
<1>2. CASE v = Bool(TRUE)
  <2>1. PortOf(v) = 1
    BY <1>1, <1>2 DEF PortOf
  <2> QED BY <1>1, <2>1
<1>3. CASE v = Bool(FALSE)
  <2>1. PortOf(v) = 0
    BY <1>1, <1>3 DEF PortOf
  <2> QED BY <1>1, <2>1
<1>4. CASE v # Bool(TRUE) /\ v # Bool(FALSE)
  <2>1. PortOf(v) = v[2] % 65536
    BY <1>4 DEF PortOf
  <2>2. v[2] \in Int
    BY <1>4
  <2>3. SixteenBits(v[2] % 65536)
    BY <2>2, Remainder
  <2> QED BY <2>1, <2>3
<1> QED BY <1>2, <1>3, <1>4

\* ... and so has the port of the dns options, even of a request that fails.
LEMMA DnsPort ==
  ASSUME NEW options, NEW meant, Reaches(options, <<"dns_port", "int">>, meant)
  PROVE  LET port == UpdateDnsConfig(CoreDefaults.dns_config, options).port
         IN  SixteenBits(port)
<1> DEFINE timeouts == Only(Nested(options, "timeout_options"), {"dns_srv_timeout"})
           asked == timeouts ++ Only(options, {"dns_nameserver", "dns_port"})
           dns == CoreDefaults.dns_config
           port == UpdateDnsConfig(dns, options).port
<1>1. SixteenBits(dns.port)
  BY CoreDefaultsAssumption DEF SixteenBits
<1>2. /\ Has(asked, "dns_port") <=> Has(options, "dns_port")
      /\ Has(options, "dns_port") => asked["dns_port"] = options["dns_port"]
  BY DEF Only, Has, ++
<1>3. port = IF DOMAIN asked # {} /\ Has(asked, "dns_port") THEN PortOf(asked["dns_port"])
             ELSE dns.port
  BY DEF UpdateDnsConfig
<1>4. Has(options, "dns_port") =>
        options["dns_port"] \in {Bool(TRUE), Bool(FALSE)} \/ options["dns_port"][2] \in Int
  <2>1. SUFFICES ASSUME Has(options, "dns_port")
                 PROVE  options["dns_port"] \in {Bool(TRUE), Bool(FALSE)}
                        \/ options["dns_port"][2] \in Int
    OBVIOUS
  <2>2. Typed(meant) /\ ~Raises(Convert("int", meant)) /\ options["dns_port"] = Convert("int", meant)[2]
    BY <2>1 DEF Reaches
  <2>3. Convert("int", meant) = Check(meant[1] \in {"int", "bool"}, meant, "ValueError")
    BY DEF Convert
  <2>4. options["dns_port"] = meant /\ meant[1] \in {"int", "bool"}
    BY <2>2, <2>3 DEF Check, Raises, Raise, Ok
  <2> QED BY <2>2, <2>4 DEF Typed
<1> SUFFICES SixteenBits(port)
  OBVIOUS
<1> HIDE DEF asked, dns, port
<1>5. CASE ~Has(options, "dns_port")
  BY <1>1, <1>2, <1>3, <1>5
<1>6. CASE Has(options, "dns_port")
  <2> DEFINE v == options["dns_port"]
  <2>1. port \in {PortOf(v), dns.port}
    BY <1>2, <1>3, <1>6
  <2>2. SixteenBits(PortOf(v))
    BY <1>4, <1>6, PortFits
  <2> HIDE DEF v
  <2> QED BY <1>1, <2>1, <2>2
<1> QED BY <1>5, <1>6

\* The types of the core's options, also of those of a request that fails, ...
LEMMA CoreTypes ==
  ASSUME ClusterInv, core # Unset
  PROVE  /\ core.dns_config.port \in Nat /\ core.dns_config.port <= 65535
         /\ core.use_ip_protocol \in EnumValues("IpProtocol")
         /\ core.tls_verify \in {"none", "peer"}
<1> DEFINE options == RequestOf(given)
           security == Nested(options, Security)
           dnsMeant == Meant(Levels(given), "dns_port")
           ipMeant == Meant(Levels(given), "ip_protocol")
<1>1. /\ TypedCluster(given) /\ ~Raises(BlockingAdapter(given))
      /\ core = UpdateClusterOptions(CoreDefaults, options)
  BY ClusterOptions
<1>2. \A k \in Untouched : Reaches(options, ClusterTransforms[k], Meant(Levels(given), k))
  BY <1>1, CreatedCluster
<1>3. /\ core.dns_config = UpdateDnsConfig(CoreDefaults.dns_config, options)
      /\ core.use_ip_protocol =
            Get(options, "use_ip_protocol", Str(CoreDefaults.use_ip_protocol))[2]
      /\ core.tls_verify = IF Get(security, "verify_server_certificate", None) = Bool(FALSE)
                           THEN "none" ELSE "peer"
  BY <1>1, CoreOptions
<1>4. /\ {"dns_port", "ip_protocol"} \subseteq Untouched
      /\ ClusterTransforms["dns_port"] = <<"dns_port", "int">>
      /\ ClusterTransforms["ip_protocol"] = <<"use_ip_protocol", "IpProtocol">>
  <2>1. {"dns_port", "ip_protocol"} \subseteq Untouched
    BY DEF Untouched, ClusterKeys, Security, Timeouts
  <2>2. /\ ClusterTransforms["dns_port"] = <<"dns_port", "int">>
        /\ ClusterTransforms["ip_protocol"] = <<"use_ip_protocol", "IpProtocol">>
    BY SMTT(60) DEF ClusterTransforms, Same, ++
  <2> QED BY <2>1, <2>2
<1>5. /\ Reaches(options, <<"dns_port", "int">>, dnsMeant)
      /\ Reaches(options, <<"use_ip_protocol", "IpProtocol">>, ipMeant)
  BY <1>2, <1>4
<1> HIDE DEF options, security, dnsMeant, ipMeant
<1>6. core.dns_config.port \in Nat /\ core.dns_config.port <= 65535
  <2>1. SixteenBits(core.dns_config.port)
    BY <1>3, <1>5, DnsPort
  <2> QED BY <2>1 DEF SixteenBits
<1>7. core.use_ip_protocol \in EnumValues("IpProtocol")
  <2>1. \A v : Str(v)[2] = v
    BY DEF Str
  <2>2. CoreDefaults.use_ip_protocol \in EnumValues("IpProtocol")
    BY CoreDefaultsAssumption
  <2>3. CASE ~Has(options, "use_ip_protocol")
    BY <1>3, <2>1, <2>2, <2>3 DEF Get
  <2>4. CASE Has(options, "use_ip_protocol")
    <3>1. /\ ~Raises(Convert("IpProtocol", ipMeant))
          /\ options["use_ip_protocol"] = Convert("IpProtocol", ipMeant)[2]
      BY <1>5, <2>4 DEF Reaches
    <3>2. /\ Convert("IpProtocol", ipMeant)[2] = Str(ipMeant[2])
          /\ ipMeant[2] \in EnumValues("IpProtocol")
      BY <3>1, ConvertedEnum
    <3> QED BY <1>3, <2>1, <2>4, <3>1, <3>2 DEF Get
  <2> QED BY <2>3, <2>4
<1>8. core.tls_verify \in {"none", "peer"}
  <2> DEFINE verify == core.tls_verify
  <2>1. verify = IF Get(security, "verify_server_certificate", None) = Bool(FALSE)
                 THEN "none" ELSE "peer"
    BY <1>3
  <2> SUFFICES verify = "none" \/ verify = "peer"
    BY DEF verify
  <2> HIDE DEF verify
  <2>2. CASE Get(security, "verify_server_certificate", None) = Bool(FALSE)
    BY <2>1, <2>2
  <2>3. CASE Get(security, "verify_server_certificate", None) # Bool(FALSE)
    BY <2>1, <2>3
  <2> QED BY <2>2, <2>3
<1> QED BY <1>6, <1>7, <1>8

\* ... and of those of a query.
LEMMA QueryTypes ==
  ASSUME CallInv, coreQuery # Unset
  PROVE  /\ coreQuery.timeout \in Nat
         /\ coreQuery.scan_consistency \in EnumValues("QueryScanConsistency") \cup {"unset"}
<1> DEFINE args == ToReqDict(request)[2]
           scan == MeantQuery("scan_consistency")
           timeout == MeantQuery("timeout")
<1>1. /\ TypedCall(call) /\ ~Raises(BuildQueryOptions(args))
      /\ coreQuery = BuildQueryOptions(args)[2]
  BY DEF CallInv
<1>2. /\ ~OptionsRefused(args)
      /\ coreQuery.scan_consistency = Get(args, "scan_consistency", Str("unset"))[2]
      /\ coreQuery.timeout = QueryTimeout(args)
  BY <1>1, QueryFields
<1>3. /\ QueryTransforms["scan_consistency"] = <<"scan_consistency", "QueryScanConsistency">>
      /\ QueryTransforms["timeout"] = <<"timeout", "duration">>
  BY DEF QueryTransforms, Same, ++
<1>4. Has(args, "scan_consistency") =>
        /\ ~Raises(Convert("QueryScanConsistency", scan))
        /\ args["scan_consistency"] = Convert("QueryScanConsistency", scan)[2]
  BY <1>3, PlainOptions
<1>5. Has(args, "timeout") => /\ ~Raises(Convert("duration", timeout))
                              /\ args["timeout"] = Convert("duration", timeout)[2]
  BY <1>3, PlainOptions
<1>6. Typed(timeout)
  <2>1. Typed(Absent)
    BY DEF Typed, Absent
  <2> QED BY <1>1, <2>1, MeantOfTwo DEF MeantQuery, QueryLevels, TypedCall, AllTyped, Has
<1> HIDE DEF args, scan, timeout
<1>7. coreQuery.timeout \in Nat
  <2>1. CASE ~Has(args, "timeout")
    BY <1>2, <2>1, CoreDefaultsAssumption DEF QueryTimeout
  <2>2. CASE Has(args, "timeout")
    <3>1. args["timeout"][2] \in Int
      BY <1>5, <1>6, <2>2, ConvertedDuration DEF Typed
    <3>2. ~(args["timeout"][2] < 0)
      BY <1>2, <2>2 DEF OptionsRefused
    <3>3. args["timeout"][2] \div 1000 \in Nat
      BY <3>1, <3>2
    <3> QED BY <1>2, <2>2, <3>3 DEF QueryTimeout
  <2> QED BY <2>1, <2>2
<1>8. coreQuery.scan_consistency \in EnumValues("QueryScanConsistency") \cup {"unset"}
  <2>1. \A v : Str(v)[2] = v
    BY DEF Str
  <2>2. CASE ~Has(args, "scan_consistency")
    BY <1>2, <2>1, <2>2 DEF Get
  <2>3. CASE Has(args, "scan_consistency")
    <3>1. /\ Convert("QueryScanConsistency", scan)[2] = Str(scan[2])
          /\ scan[2] \in EnumValues("QueryScanConsistency")
      BY <1>4, <2>3, ConvertedEnum
    <3> QED BY <1>2, <1>4, <2>1, <2>3, <3>1 DEF Get
  <2> QED BY <2>2, <2>3
<1> QED BY <1>7, <1>8

\* The three invariants together give the types.
LEMMA AllTypes == ErrorInv /\ CallInv /\ ClusterInv => TypeOK
<1> SUFFICES ASSUME ErrorInv, CallInv, ClusterInv PROVE TypeOK
  OBVIOUS
<1>1. phase \in Phases /\ coreError \in {NoError} \cup CoreErrors
  BY DEF ClusterInv
<1>2. outcome.class \in {"result", "FileNotFoundError"} \cup ColumnarErrors \cup ClientErrors
  <2>1. CASE phase \in {"new", "connecting", "connected", "submitting", "waiting"}
    BY <2>1 DEF ErrorInv, Result
  <2>2. CASE phase \in {"refused", "unconnected", "rejected", "failed", "done"}
    BY <2>2 DEF ErrorInv, ErrorsAreMapped, ClientErrors
  <2>3. phase \in {"new", "connecting", "connected", "submitting", "waiting"}
                 \cup {"refused", "unconnected", "rejected", "failed", "done"}
    BY <1>1 DEF Phases
  <2> QED BY <2>1, <2>2, <2>3
<1> QED BY <1>1, <1>2, CoreTypes, QueryTypes DEF TypeOK

\* Nothing has been given initially, ...
LEMMA InitCluster == Init => ClusterInv
BY DEF Init, ClusterInv, Phases, Unset

\* ... and every step keeps track of what was.
LEMMA NextCluster == ClusterInv /\ [Next]_vars => ClusterInv'
<1> SUFFICES ASSUME ClusterInv, [Next]_vars
             PROVE  ClusterInv'
  OBVIOUS
<1> USE DEF ClusterInv, Phases, Fails
<1>1. CASE CreateCluster
  <2>1. PICK c \in ClusterCalls :
          LET created == IF c.api = "asyncio" THEN AsyncAdapter(c) ELSE BlockingAdapter(c)
          IN  /\ given' = c
              /\ IF Raises(created) THEN phase' = "refused"
                 ELSE /\ phase' = "connecting" /\ details' = created[2]
                      /\ loop' = IF c.api = "asyncio" THEN AdapterLoop(c.loop, c.current)[2]
                                 ELSE NoLoop
    BY <1>1 DEF CreateCluster, Creates
  <2>2. phase = "new" /\ UNCHANGED <<core, coreError>>
    BY <1>1 DEF CreateCluster, Creates
  <2>3. CASE phase' = "refused"
    BY <2>2, <2>3
  <2>4. CASE phase' = "connecting"
    <3>1. TypedCluster(c)
      BY CallsAssumption
    <3>2. CASE c.api = "asyncio"
      <4>1. ~Raises(AsyncAdapter(c)) /\ details' = AsyncAdapter(c)[2]
            /\ loop' = AdapterLoop(c.loop, c.current)[2]
        BY <2>1, <2>4, <3>2
      <4>2. Raises(Credential(c.username, c.password)) => Raises(BlockingAdapter(c))
        BY DEF BlockingAdapter, Create
      <4>3. /\ ~Raises(AdapterLoop(c.loop, c.current)) /\ AsyncAdapter(c) = BlockingAdapter(c)
        BY <4>1, <4>2 DEF AsyncAdapter
      <4> QED BY <2>1, <2>2, <2>4, <3>1, <4>1, <4>3
    <3>3. CASE c.api # "asyncio"
      <4>1. ~Raises(BlockingAdapter(c)) /\ details' = BlockingAdapter(c)[2]
        BY <2>1, <2>4, <3>3
      <4> QED BY <2>1, <2>2, <2>4, <3>1, <3>3, <4>1
    <3> QED BY <3>2, <3>3
  <2> QED BY <2>1, <2>3, <2>4
<1>2. CASE Connect
  <2> DEFINE options == ConnectReqDict(ConnectRequest(details)).options
  <2>1. /\ phase = "connecting" /\ phase' \in {"unconnected", "connected"}
        /\ coreError' \in {NoError} \cup CoreErrors /\ UNCHANGED <<given, loop, details>>
        /\ core' = UpdateClusterOptions(CoreDefaults, options)
        /\ phase' # "unconnected" => ~RequestOverflows(options)
    BY <1>2 DEF Connect
  <2> HIDE DEF options
  <2> QED BY <2>1 DEF options
<1>3. CASE ExecuteQuery
  <2>1. /\ phase = "connected" /\ phase' \in {"rejected", "submitting"}
        /\ UNCHANGED <<given, loop, details, core, coreError>>
    BY <1>3 DEF ExecuteQuery, Executes
  <2> QED BY <2>1
<1>4. CASE Submit
  <2>1. /\ phase = "submitting" /\ phase' \in {"failed", "waiting", "done"}
        /\ coreError' \in {coreError} \cup CoreErrors
        /\ UNCHANGED <<given, loop, details, core>>
    BY <1>4 DEF Submit
  <2> QED BY <2>1
<1>5. CASE Answer
  <2>1. /\ phase = "waiting" /\ phase' = "done" /\ coreError' \in {NoError} \cup CoreErrors
        /\ UNCHANGED <<given, loop, details, core>>
    BY <1>5 DEF Answer
  <2> QED BY <2>1
<1>6. CASE UNCHANGED vars
  BY <1>6 DEF vars
<1> QED BY <1>1, <1>2, <1>3, <1>4, <1>5, <1>6 DEF Next

\* The inductive invariant of a cluster's way to the core.
THEOREM ClusterInvariance == Spec => []ClusterInv
BY InitCluster, NextCluster, PTL DEF Spec

\* What the core is given has the core's types and ranges, and what the
\* application gets is a result or one of the exceptions it may get.
THEOREM TypeCorrect == Spec => []TypeOK
BY ErrorInvariance, CallInvariance, ClusterInvariance, AllTypes, PTL

\* Every duration reaches the field of the core that it is meant for.
THEOREM DurationsAreMeant == Spec => []DurationsReachCore
BY ClusterInvariance, DurationsReach, PTL

\* Every other option is reported as it is meant, and an asyncio cluster has a loop.
THEOREM OptionsAreMeant == Spec => []OptionsReachCore
BY ClusterInvariance, OptionsReach, PTL

\* Trust in Capella's certificates excludes all other.
THEOREM TrustIsKept == Spec => []TrustIsExclusive
BY ClusterInvariance, TrustReaches, PTL
=============================================================================
