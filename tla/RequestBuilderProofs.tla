------------------------- MODULE RequestBuilderProofs -------------------------
(***************************************************************************)
(* Proofs that the gaiandb.js in and out nodes build the statements of     *)
(* spec 4.4.  The lemmas InNodeMeetsSpec and OutNodeMeetsSpec are about    *)
(* every string table name, operation, filter, projection and payload, not *)
(* only the few values TLC enumerates; the theorems then carry them over   *)
(* to every reachable state.  They assume string filters: a filter of      *)
(* false or 0 is where the code parts from the spec (runs                  *)
(* builder_falsy_filter and the finding at gaiandb.js:484).                *)
(***************************************************************************)
EXTENDS RequestBuilder, SequenceTheorems, TLAPS

(* v is a JavaScript string. *)
IsStr(v) == v = Str(v.str)

-----------------------------------------------------------------------------
(* SQL token sequences: appending one token to a literal tuple. *)

LEMMA AppendToken1 == ASSUME NEW a, NEW b PROVE <<a>> \o <<b>> = <<a, b>>
<1> DEFINE S == {a, b}
<1>1. <<a>> \in Seq(S) /\ <<b>> \in Seq(S) /\ <<a, b>> \in Seq(S)
    OBVIOUS
<1>2. <<a>> \o <<b>> \in Seq(S) /\ Len(<<a>> \o <<b>>) = 2
      /\ \A i \in 1 .. 2 : (<<a>> \o <<b>>)[i] = IF i <= 1 THEN <<a>>[i] ELSE <<b>>[i - 1]
    BY <1>1, ConcatProperties
<1>3. Len(<<a, b>>) = 2 /\ \A i \in 1 .. 2 : (<<a>> \o <<b>>)[i] = <<a, b>>[i]
    BY <1>2
<1>4. QED
    BY <1>1, <1>2, <1>3, SeqEqual

LEMMA AppendToken2 == ASSUME NEW a, NEW b, NEW c PROVE <<a, b>> \o <<c>> = <<a, b, c>>
<1> DEFINE S == {a, b, c}
<1>1. <<a, b>> \in Seq(S) /\ <<c>> \in Seq(S) /\ <<a, b, c>> \in Seq(S)
    OBVIOUS
<1>2. <<a, b>> \o <<c>> \in Seq(S) /\ Len(<<a, b>> \o <<c>>) = 3
      /\ \A i \in 1 .. 3 : (<<a, b>> \o <<c>>)[i] = IF i <= 2 THEN <<a, b>>[i] ELSE <<c>>[i - 2]
    BY <1>1, ConcatProperties
<1>3. Len(<<a, b, c>>) = 3 /\ \A i \in 1 .. 3 : (<<a, b>> \o <<c>>)[i] = <<a, b, c>>[i]
    BY <1>2
<1>4. QED
    BY <1>1, <1>2, <1>3, SeqEqual

LEMMA AppendToken3 ==
    ASSUME NEW a, NEW b, NEW c, NEW d PROVE <<a, b, c>> \o <<d>> = <<a, b, c, d>>
<1> DEFINE S == {a, b, c, d}
<1>1. <<a, b, c>> \in Seq(S) /\ <<d>> \in Seq(S) /\ <<a, b, c, d>> \in Seq(S)
    OBVIOUS
<1>2. <<a, b, c>> \o <<d>> \in Seq(S) /\ Len(<<a, b, c>> \o <<d>>) = 4
      /\ \A i \in 1 .. 4 : (<<a, b, c>> \o <<d>>)[i] = IF i <= 3 THEN <<a, b, c>>[i] ELSE <<d>>[i - 3]
    BY <1>1, ConcatProperties
<1>3. Len(<<a, b, c, d>>) = 4 /\ \A i \in 1 .. 4 : (<<a, b, c>> \o <<d>>)[i] = <<a, b, c, d>>[i]
    BY <1>2
<1>4. QED
    BY <1>1, <1>2, <1>3, SeqEqual


-----------------------------------------------------------------------------
(* JavaScript strings: truthiness, loose comparison with "" and the words  *)
(* they add to the SQL text.                                               *)

LEMMA StrFacts ==
    ASSUME NEW s
    PROVE  /\ IsStr(Str(s))
           /\ Falsy(Str(s)) <=> s = ""
           /\ LooseEqualsEmpty(Str(s)) <=> s = ""
           /\ (Str(s) = Str("")) <=> s = ""
           /\ (s # "" => Text(Str(s)) = << s >>)
           /\ (s = "" => Text(Str(s)) = << >>)
           /\ Str(s) # Undefined
           /\ Str(s).str = s
BY DEF IsStr, Falsy, LooseEqualsEmpty, Text, Str, Undefined, Bool, Num

(* Two JavaScript strings are equal just when their texts are. *)
LEMMA StrInjective ==
    ASSUME NEW s, NEW t
    PROVE  Str(s) = Str(t) <=> s = t
BY DEF Str

(* A present string filter gives the WHERE clause of the spec, whether the *)
(* test is its truthiness (in node) or == "" (out node).                   *)
LEMMA SelectorMeetsSpec ==
    ASSUME NEW msg, "filter" \in DOMAIN msg, IsStr(msg.filter)
    PROVE  /\ (IF Falsy(Get(msg, "filter")) THEN << >>
               ELSE <<"WHERE">> \o Text(Get(msg, "filter"))) = SpecWhere(msg)
           /\ (IF LooseEqualsEmpty(Get(msg, "filter")) THEN << >>
               ELSE <<"WHERE">> \o Text(Get(msg, "filter"))) = SpecWhere(msg)
<1> DEFINE f == msg.filter.str
<1>1. msg.filter = Str(f)
    BY DEF IsStr
<1>2. Get(msg, "filter") = Str(f)
    BY <1>1 DEF Get
<1>3. CASE f = ""
    <2>1. Falsy(Str(f)) /\ LooseEqualsEmpty(Str(f)) /\ msg.filter = Str("")
        BY <1>1, <1>3, StrFacts
    <2>2. SpecWhere(msg) = << >>
        BY <2>1 DEF SpecWhere
    <2>3. QED
        BY <1>2, <2>1, <2>2
<1>4. CASE f # ""
    <2>1. ~Falsy(Str(f)) /\ ~LooseEqualsEmpty(Str(f)) /\ Text(Str(f)) = << f >>
        BY <1>4, StrFacts
    <2>2. SpecWhere(msg) = <<"WHERE", f>>
        BY <1>1, <1>4, StrFacts DEF SpecWhere
    <2>3. QED
        BY <1>2, <2>1, <2>2, AppendToken1
<1>5. QED
    BY <1>3, <1>4

(* msg.projection || "*" gives the spec's projection for a string or an    *)
(* absent projection.                                                      *)
LEMMA ProjectionMeetsSpec ==
    ASSUME NEW msg, "projection" \in DOMAIN msg => IsStr(msg.projection)
    PROVE  Text(Or(Get(msg, "projection"), Str("*"))) = << SpecProjection(msg) >>
<1>0. Text(Str("*")) = << "*" >> /\ ~Falsy(Str("*"))
    BY DEF Text, Str, Falsy, Undefined, Bool, Num
<1>1. CASE "projection" \notin DOMAIN msg
    <2>1. Get(msg, "projection") = Undefined /\ Falsy(Undefined)
        BY <1>1 DEF Get, Falsy
    <2>2. QED
        BY <1>0, <1>1, <2>1 DEF SpecProjection, Or
<1>2. CASE "projection" \in DOMAIN msg
    <2> DEFINE p == msg.projection.str
    <2>1. msg.projection = Str(p) /\ Get(msg, "projection") = Str(p)
        BY <1>2 DEF IsStr, Get
    <2>2. CASE p = ""
        <3>1. Falsy(Str(p)) /\ msg.projection = Str("")
            BY <2>1, <2>2, StrFacts
        <3>2. QED
            BY <1>0, <2>1, <3>1 DEF SpecProjection, Or
    <2>3. CASE p # ""
        <3>1. ~Falsy(Str(p)) /\ Text(Str(p)) = << p >> /\ msg.projection # Str("")
            BY <2>1, <2>3, StrFacts
        <3>2. QED
            BY <1>2, <2>1, <3>1 DEF SpecProjection, Or
    <2>4. QED
        BY <2>2, <2>3
<1>3. QED
    BY <1>1, <1>2

(* The in node's operation is a string: config.operation, or "select". *)
LEMMA InOperationIsString ==
    ASSUME NEW config, IsStr(Get(config, "operation")) \/ Get(config, "operation") = Undefined
    PROVE  IsStr(InOperation(config))
<1>1. IsStr(Str("select")) /\ Falsy(Undefined)
    BY StrFacts DEF Falsy
<1>2. QED
    BY <1>1 DEF InOperation, Or

(* The gaiandb in node, for a message whose table resolves to a name T:    *)
(* the select or count of spec 4.4, or a warning for another operation.    *)
LEMMA InNodeMeetsSpec ==
    ASSUME NEW config, NEW msg, NEW T, T # "",
           ResolvedTable(TableOf(config), msg) = Str(T),
           IsStr(Get(config, "operation")) \/ Get(config, "operation") = Undefined,
           "filter" \in DOMAIN msg => IsStr(msg.filter),
           "projection" \in DOMAIN msg => IsStr(msg.projection)
    PROVE  InNodeSQL(config, msg) = SpecStatement("in", InOperation(config).str, T, msg)
<1> DEFINE op == InOperation(config).str
           P  == SpecProjection(msg)
           W  == SpecWhere(msg)
<1>1. InOperation(config) = Str(op)
    BY InOperationIsString DEF IsStr
<1>2. ~Falsy(Str(T)) /\ Text(Str(T)) = << T >>
    BY StrFacts
<1>3. (IF Falsy(Get(msg, "filter")) THEN << >>
       ELSE <<"WHERE">> \o Text(Get(msg, "filter"))) = W
    <2>1. CASE "filter" \in DOMAIN msg
        BY <2>1, SelectorMeetsSpec
    <2>2. CASE "filter" \notin DOMAIN msg
        BY <2>2 DEF Get, Falsy, SpecWhere
    <2>3. QED
        BY <2>1, <2>2
<1>4. Text(Or(Get(msg, "projection"), Str("*"))) = << P >>
    BY ProjectionMeetsSpec
<1>5. /\ Str(op) = Str("select") <=> op = "select"
      /\ Str(op) = Str("count") <=> op = "count"
    BY StrFacts DEF Str
<1>6. CASE op = "select"
    <2>1. InNodeSQL(config, msg)
          = Issue("Query", <<"SELECT">> \o << P >> \o <<"FROM">> \o << T >> \o W)
        BY <1>1, <1>2, <1>3, <1>4, <1>5, <1>6 DEF InNodeSQL
    <2>2. <<"SELECT">> \o << P >> = <<"SELECT", P>>
        BY AppendToken1
    <2>3. <<"SELECT", P>> \o <<"FROM">> = <<"SELECT", P, "FROM">>
        BY AppendToken2
    <2>4. <<"SELECT", P, "FROM">> \o << T >> = <<"SELECT", P, "FROM", T>>
        BY AppendToken3
    <2>5. QED
        BY <1>6, <2>1, <2>2, <2>3, <2>4 DEF SpecStatement
<1>7. CASE op = "count"
    <2>1. InNodeSQL(config, msg)
          = Issue("Query", <<"SELECT", "count(*)", "FROM">> \o << T >> \o W)
        BY <1>1, <1>2, <1>3, <1>5, <1>7 DEF InNodeSQL
    <2>2. <<"SELECT", "count(*)", "FROM">> \o << T >> = <<"SELECT", "count(*)", "FROM", T>>
        BY AppendToken3
    <2>3. QED
        BY <1>7, <2>1, <2>2 DEF SpecStatement
<1>8. CASE op \notin {"select", "count"}
    <2>1. InNodeSQL(config, msg) = Warn
        BY <1>1, <1>2, <1>5, <1>8 DEF InNodeSQL
    <2>2. QED
        BY <1>8, <2>1 DEF SpecStatement
<1>9. QED
    BY <1>6, <1>7, <1>8

(* config.operation, a string or undefined, is a given operation just    *)
(* when its text is that operation's name.                                 *)
LEMMA OperationTest ==
    ASSUME NEW O, IsStr(O) \/ O = Undefined
    PROVE  /\ O = Str("insert") <=> O.str = "insert"
           /\ O = Str("update") <=> O.str = "update"
           /\ O = Str("delete") <=> O.str = "delete"
<1>1. CASE IsStr(O)
    <2>1. O = Str(O.str)
        BY <1>1 DEF IsStr
    <2>2. QED
        BY <2>1, StrInjective
<1>2. CASE O = Undefined
    <2>1. O.str = "undefined"
        BY <1>2 DEF Undefined
    <2>2. O # Str("insert") /\ O # Str("update") /\ O # Str("delete")
        BY <1>2 DEF Str, Undefined
    <2>3. QED
        BY <2>1, <2>2
<1>3. QED
    BY <1>1, <1>2

(* The gaiandb out node, for a message whose table resolves to a name T:   *)
(* the insert, update or delete of spec 4.4, or a warning for another      *)
(* operation and for an update or delete without a filter field.          *)
LEMMA OutNodeMeetsSpec ==
    ASSUME NEW config, NEW msg, NEW T, T # "",
           ResolvedTable(TableOf(config), msg) = Str(T),
           NEW O, Get(config, "operation") = O, IsStr(O) \/ O = Undefined,
           "payload" \in DOMAIN msg,
           "filter" \in DOMAIN msg => IsStr(msg.filter)
    PROVE  OutNodeSQL(config, msg) = SpecStatement("out", O.str, T, msg)
<1> DEFINE V == Text(msg.payload)
           W == SpecWhere(msg)
<1>1. ~Falsy(Str(T)) /\ Text(Str(T)) = << T >>
    BY StrFacts
<1>2. Text(Get(msg, "payload")) = V
    BY DEF Get
<1>3. "filter" \in DOMAIN msg =>
         (IF LooseEqualsEmpty(Get(msg, "filter")) THEN << >>
          ELSE <<"WHERE">> \o Text(Get(msg, "filter"))) = W
    BY SelectorMeetsSpec
<1>4. /\ O = Str("insert") <=> O.str = "insert"
      /\ O = Str("update") <=> O.str = "update"
      /\ O = Str("delete") <=> O.str = "delete"
    BY OperationTest
<1>5. CASE O.str = "insert"
    <2>1. OutNodeSQL(config, msg)
          = Issue("Update", <<"INSERT", "INTO">> \o << T >> \o <<"VALUES">> \o V)
        BY <1>1, <1>2, <1>4, <1>5 DEF OutNodeSQL
    <2>2. <<"INSERT", "INTO">> \o << T >> = <<"INSERT", "INTO", T>>
        BY AppendToken2
    <2>3. <<"INSERT", "INTO", T>> \o <<"VALUES">> = <<"INSERT", "INTO", T, "VALUES">>
        BY AppendToken3
    <2>4. QED
        BY <1>5, <2>1, <2>2, <2>3 DEF SpecStatement
<1>6. CASE O.str = "update" /\ "filter" \in DOMAIN msg
    <2>1. OutNodeSQL(config, msg)
          = Issue("Update", <<"UPDATE">> \o << T >> \o <<"SET">> \o V \o W)
        BY <1>1, <1>2, <1>3, <1>4, <1>6 DEF OutNodeSQL
    <2>2. <<"UPDATE">> \o << T >> = <<"UPDATE", T>>
        BY AppendToken1
    <2>3. <<"UPDATE", T>> \o <<"SET">> = <<"UPDATE", T, "SET">>
        BY AppendToken2
    <2>4. QED
        BY <1>6, <2>1, <2>2, <2>3 DEF SpecStatement
<1>7. CASE O.str = "delete" /\ "filter" \in DOMAIN msg
    <2>1. OutNodeSQL(config, msg) = Issue("Update", <<"DELETE", "FROM">> \o << T >> \o W)
        BY <1>1, <1>3, <1>4, <1>7 DEF OutNodeSQL
    <2>2. <<"DELETE", "FROM">> \o << T >> = <<"DELETE", "FROM", T>>
        BY AppendToken2
    <2>3. QED
        BY <1>7, <2>1, <2>2 DEF SpecStatement
<1>8. CASE ~ \/ O.str = "insert"
             \/ O.str = "update" /\ "filter" \in DOMAIN msg
             \/ O.str = "delete" /\ "filter" \in DOMAIN msg
    <2>1. OutNodeSQL(config, msg) = Warn
        BY <1>1, <1>4, <1>8 DEF OutNodeSQL
    <2>2. QED
        BY <1>8, <2>1 DEF SpecStatement
<1>9. QED
    BY <1>5, <1>6, <1>7, <1>8

-----------------------------------------------------------------------------
(* The values the model's messages and configurations carry. *)

(* Every filter a message may carry is a string. *)
StringFilters == \A v \in FilterValues : IsStr(v)

LEMMA ObjectFields ==
    ASSUME NEW fields, NEW o \in Objects(fields), NEW f \in DOMAIN o
    PROVE  f \in DOMAIN fields /\ o[f] \in fields[f]
BY DEF Objects

(* A message carries a payload, and its filter, projection and topic are  *)
(* strings when present and the filters are strings.                      *)
LEMMA MessageFields ==
    ASSUME StringFilters, NEW m \in Messages
    PROVE  /\ "payload" \in DOMAIN m
           /\ "filter" \in DOMAIN m => IsStr(m.filter)
           /\ "projection" \in DOMAIN m => IsStr(m.projection)
           /\ "topic" \in DOMAIN m => IsStr(m.topic)
<1> DEFINE F == [filter |-> FilterValues, projection |-> {Str(""), Str("name")},
                 payload |-> {Str(""), Str("v")}, topic |-> {Str(""), Str("Logs")}]
<1>1. m \in Objects(F) /\ "payload" \in DOMAIN m
    BY DEF Messages
<1>2. ASSUME NEW f \in DOMAIN m PROVE m[f] \in F[f]
    BY <1>1, ObjectFields
<1>3. IsStr(Str("")) /\ IsStr(Str("name")) /\ IsStr(Str("Logs"))
    BY StrFacts
<1>4. QED
    BY <1>1, <1>2, <1>3 DEF StringFilters

(* The configuration of a gaiandb in or out node: its operation is a      *)
(* string or absent, and its table one of the model's templates.          *)
LEMMA ConfigFields ==
    ASSUME NEW c \in InConfigs \cup OutConfigs
    PROVE  /\ IsStr(Get(c, "operation")) \/ Get(c, "operation") = Undefined
           /\ TableOf(c) \in TableTemplates \cup {Str("LT0"), Undefined}
<1>1. "operation" \in DOMAIN c =>
         c.operation \in {Str("select"), Str("count"), Str("avg"),
                          Str("insert"), Str("update"), Str("delete"), Str("upsert")}
    BY ObjectFields DEF InConfigs, OutConfigs
<1>2. /\ IsStr(Str("select")) /\ IsStr(Str("count")) /\ IsStr(Str("avg"))
      /\ IsStr(Str("insert")) /\ IsStr(Str("update")) /\ IsStr(Str("delete"))
      /\ IsStr(Str("upsert"))
    BY StrFacts
<1>3. IsStr(Get(c, "operation")) \/ Get(c, "operation") = Undefined
    BY <1>1, <1>2 DEF Get
<1>4. "table" \in DOMAIN c => c.table \in TableTemplates
    BY ObjectFields DEF InConfigs, OutConfigs
<1>5. "logicaltable" \in DOMAIN c => c.logicaltable = Str("LT0")
    BY ObjectFields DEF InConfigs, OutConfigs
<1>6. QED
    BY <1>3, <1>4, <1>5 DEF TableOf, Get

(* The table a gaiandb in or out node resolves for a message is a string  *)
(* or undefined.                                                           *)
LEMMA ResolvedTableIsString ==
    ASSUME NEW c \in InConfigs \cup OutConfigs, NEW msg
    PROVE  IsStr(ResolvedTable(TableOf(c), msg)) \/ ResolvedTable(TableOf(c), msg) = Undefined
<1>1. TableOf(c) \in TableTemplates \cup {Str("LT0"), Undefined}
    BY ConfigFields
<1>2. CASE Falsy(TableOf(c))
    BY <1>2 DEF ResolvedTable
<1>3. CASE ~Falsy(TableOf(c)) /\ TableOf(c) = Str("{{topic}}")
    <2>1. \E s : Render(TableOf(c), msg) = Str(s)
        BY <1>3 DEF Render
    <2>2. QED
        BY <1>3, <2>1, StrFacts DEF ResolvedTable
<1>4. CASE ~Falsy(TableOf(c)) /\ TableOf(c) # Str("{{topic}}")
    <2>1. TableOf(c) \in {Str("Sensors"), Str("LT0")}
        BY <1>1, <1>4 DEF TableTemplates, Falsy
    <2>2. IsStr(Str("Sensors")) /\ IsStr(Str("LT0"))
        BY StrFacts
    <2>3. QED
        BY <1>4, <2>1, <2>2 DEF ResolvedTable, Render
<1>5. QED
    BY <1>2, <1>3, <1>4

-----------------------------------------------------------------------------
(* The gaiandb release: every handled message, of every reachable state. *)

(* The deployed node is one of the model's gaiandb nodes. *)
LEMMA NodeConfig ==
    ASSUME Release = "gaiandb", NEW n \in Nodes
    PROVE  /\ n.kind = "in" => n.config \in InConfigs
           /\ n.kind = "out" => n.config \in OutConfigs
BY DEF Nodes, Deployed

(* The table a handled message resolves to is a non-empty string T, the   *)
(* node's table resolved for that message.                                 *)
LEMMA HandledTableIsName ==
    ASSUME Release = "gaiandb", NEW c \in InConfigs \cup OutConfigs, NEW msg,
           ~Falsy(ResolvedTable(TableOf(c), msg))
    PROVE  LET T == ResolvedTable(TableOf(c), msg).str
           IN  T # "" /\ ResolvedTable(TableOf(c), msg) = Str(T)
<1>1. IsStr(ResolvedTable(TableOf(c), msg))
    BY ResolvedTableIsString DEF Falsy
<1>2. QED
    BY <1>1, StrFacts DEF IsStr

(* The invariant: both properties, and a node the code can deploy. *)
BInv == node \in Nodes /\ IssuesSpecQuery /\ IssuesSpecMutation

LEMMA InitBInv == Init => BInv
BY DEF Init, BInv, IssuesSpecQuery, IssuesSpecMutation, HandledNamesTable

(* An in node's step: the message it handles meets spec 4.4. *)
LEMMA InStep ==
    ASSUME Release = "gaiandb", StringFilters, node \in Nodes, InNodeInput
    PROVE  IssuesSpecQuery' /\ IssuesSpecMutation'
<1>1. PICK m \in Messages : handled' = [msg |-> m, outcome |-> InNodeSQL(node.config, m)]
    BY DEF InNodeInput, Handle
<1>2. node' = node /\ node.kind = "in"
    BY DEF InNodeInput, Handle
<1>3. IssuesSpecMutation'
    BY <1>2 DEF IssuesSpecMutation, HandledNamesTable
<1>4. IssuesSpecQuery'
    <2> DEFINE c == node.config
               R == ResolvedTable(TableOf(c), m)
    <2>1. SUFFICES ASSUME HandledNamesTable("in")'
                   PROVE  handled'.outcome = SpecOutcome'
        BY DEF IssuesSpecQuery
    <2>2. c \in InConfigs
        BY <1>2, NodeConfig
    <2>3. HandledTable' = R /\ HandledOperation' = InOperation(c)
        BY <1>1, <1>2 DEF HandledTable, HandledOperation
    <2>4. R.str # "" /\ R = Str(R.str)
        BY <2>1, <2>2, <2>3, HandledTableIsName DEF HandledNamesTable
    <2>5. InNodeSQL(c, m) = SpecStatement("in", InOperation(c).str, R.str, m)
        <3>1. IsStr(Get(c, "operation")) \/ Get(c, "operation") = Undefined
            BY <2>2, ConfigFields
        <3>2. /\ "filter" \in DOMAIN m => IsStr(m.filter)
              /\ "projection" \in DOMAIN m => IsStr(m.projection)
            BY MessageFields
        <3>3. QED
            BY <2>4, <3>1, <3>2, InNodeMeetsSpec
    <2>6. QED
        BY <1>1, <1>2, <2>3, <2>5 DEF SpecOutcome
<1>5. QED
    BY <1>3, <1>4

(* An out node's step: the message it handles meets spec 4.4. *)
LEMMA OutStep ==
    ASSUME Release = "gaiandb", StringFilters, node \in Nodes, OutNodeInput
    PROVE  IssuesSpecQuery' /\ IssuesSpecMutation'
<1>1. PICK m \in Messages : handled' = [msg |-> m, outcome |-> OutNodeSQL(node.config, m)]
    BY DEF OutNodeInput, Handle
<1>2. node' = node /\ node.kind = "out"
    BY DEF OutNodeInput, Handle
<1>3. IssuesSpecQuery'
    BY <1>2 DEF IssuesSpecQuery, HandledNamesTable
<1>4. IssuesSpecMutation'
    <2> DEFINE c == node.config
               R == ResolvedTable(TableOf(c), m)
               O == Get(c, "operation")
    <2>1. SUFFICES ASSUME HandledNamesTable("out")'
                   PROVE  handled'.outcome = SpecOutcome'
        BY DEF IssuesSpecMutation
    <2>2. c \in OutConfigs
        BY <1>2, NodeConfig
    <2>3. HandledTable' = R /\ HandledOperation' = O
        BY <1>1, <1>2 DEF HandledTable, HandledOperation
    <2>4. R.str # "" /\ R = Str(R.str)
        BY <2>1, <2>2, <2>3, HandledTableIsName DEF HandledNamesTable
    <2>5. OutNodeSQL(c, m) = SpecStatement("out", O.str, R.str, m)
        <3>1. IsStr(O) \/ O = Undefined
            BY <2>2, ConfigFields
        <3>2. /\ "payload" \in DOMAIN m
              /\ "filter" \in DOMAIN m => IsStr(m.filter)
            BY MessageFields
        <3>3. QED
            BY <2>4, <3>1, <3>2, OutNodeMeetsSpec
    <2>6. QED
        BY <1>1, <1>2, <2>3, <2>5 DEF SpecOutcome
<1>5. QED
    BY <1>3, <1>4

(* A sql node's step: neither property is about it. *)
LEMMA SqlStep ==
    ASSUME SqlNodeInput
    PROVE  IssuesSpecQuery' /\ IssuesSpecMutation'
<1>1. node' = node /\ node.kind = "sql"
    BY DEF SqlNodeInput, Handle
<1>2. QED
    BY <1>1 DEF IssuesSpecQuery, IssuesSpecMutation, HandledNamesTable

LEMMA NextBInv ==
    ASSUME Release = "gaiandb", StringFilters
    PROVE  BInv /\ [Next]_<<node, handled>> => BInv'
<1> SUFFICES ASSUME BInv, [Next]_<<node, handled>> PROVE BInv'
    OBVIOUS
<1>1. node' \in Nodes
    BY DEF BInv, Next, InNodeInput, OutNodeInput, SqlNodeInput, Handle
<1>2. CASE InNodeInput
    BY <1>1, <1>2, InStep DEF BInv
<1>3. CASE OutNodeInput
    BY <1>1, <1>3, OutStep DEF BInv
<1>4. CASE SqlNodeInput
    BY <1>1, <1>4, SqlStep DEF BInv
<1>5. CASE UNCHANGED <<node, handled>>
    BY <1>5 DEF BInv, IssuesSpecQuery, IssuesSpecMutation, HandledNamesTable,
                SpecOutcome, HandledTable, HandledOperation
<1>6. QED
    BY <1>2, <1>3, <1>4, <1>5 DEF Next

(* Spec 4.4, scenario A, for every string table name, operation, filter    *)
(* and projection: whenever a gaiandb in node (gaiandb.js, the "input"     *)
(* handler of GaianDBInNode) has handled a message whose table resolves to *)
(* a name, it has submitted exactly the select or count the spec           *)
(* prescribes, or only warned.  Filters are strings, as in run             *)
(* builder_gaiandb.                                                        *)
THEOREM GaiandbIssuesSpecQuery ==
    ASSUME Release = "gaiandb", StringFilters
    PROVE  Spec => []IssuesSpecQuery
<1>1. BInv => IssuesSpecQuery
    BY DEF BInv
<1>2. QED
    BY <1>1, InitBInv, NextBInv, PTL DEF Spec

(* Spec 4.4, scenarios B and C, for every string table name, operation,    *)
(* filter and payload: whenever a gaiandb out node (the "input" handler of *)
(* GaianDBOutNode) has handled a message whose table resolves to a name,   *)
(* it has submitted exactly the insert, update or delete the spec          *)
(* prescribes -- an update or delete only when the message has a filter   *)
(* field, with a WHERE clause unless the filter is "" -- or only warned.   *)
THEOREM GaiandbIssuesSpecMutation ==
    ASSUME Release = "gaiandb", StringFilters
    PROVE  Spec => []IssuesSpecMutation
<1>1. BInv => IssuesSpecMutation
    BY DEF BInv
<1>2. QED
    BY <1>1, InitBInv, NextBInv, PTL DEF Spec

-----------------------------------------------------------------------------
(* The legacy gaian release: the in node. *)

(* The gaian in node, for a message whose logical table renders to a name *)
(* T: the select or count of spec 4.4, or a warning for another operation. *)
LEMMA LegacyInNodeMeetsSpec ==
    ASSUME NEW config, NEW msg, NEW T, T # "",
           Render(Get(config, "logicaltable"), msg) = Str(T),
           IsStr(Get(config, "operation")) \/ Get(config, "operation") = Undefined,
           "filter" \in DOMAIN msg => IsStr(msg.filter),
           "projection" \in DOMAIN msg => IsStr(msg.projection)
    PROVE  LegacyInNodeSQL(config, msg)
             = SpecStatement("in", InOperation(config).str, T, msg)
<1> DEFINE op == InOperation(config).str
           P  == SpecProjection(msg)
           W  == SpecWhere(msg)
<1>1. InOperation(config) = Str(op)
    BY InOperationIsString DEF IsStr
<1>2. Text(Str(T)) = << T >>
    BY StrFacts
<1>3. (IF Falsy(Get(msg, "filter")) THEN << >>
       ELSE <<"WHERE">> \o Text(Get(msg, "filter"))) = W
    <2>1. CASE "filter" \in DOMAIN msg
        BY <2>1, SelectorMeetsSpec
    <2>2. CASE "filter" \notin DOMAIN msg
        BY <2>2 DEF Get, Falsy, SpecWhere
    <2>3. QED
        BY <2>1, <2>2
<1>4. Text(Or(Get(msg, "projection"), Str("*"))) = << P >>
    BY ProjectionMeetsSpec
<1>5. /\ Str(op) = Str("select") <=> op = "select"
      /\ Str(op) = Str("count") <=> op = "count"
    BY StrInjective
<1>6. CASE op = "select"
    <2>1. LegacyInNodeSQL(config, msg)
          = Issue("Query", <<"SELECT">> \o << P >> \o <<"FROM">> \o << T >> \o W)
        BY <1>1, <1>2, <1>3, <1>4, <1>5, <1>6 DEF LegacyInNodeSQL
    <2>2. <<"SELECT">> \o << P >> = <<"SELECT", P>>
        BY AppendToken1
    <2>3. <<"SELECT", P>> \o <<"FROM">> = <<"SELECT", P, "FROM">>
        BY AppendToken2
    <2>4. <<"SELECT", P, "FROM">> \o << T >> = <<"SELECT", P, "FROM", T>>
        BY AppendToken3
    <2>5. QED
        BY <1>6, <2>1, <2>2, <2>3, <2>4 DEF SpecStatement
<1>7. CASE op = "count"
    <2>1. LegacyInNodeSQL(config, msg)
          = Issue("Query", <<"SELECT", "count(*)", "FROM">> \o << T >> \o W)
        BY <1>1, <1>2, <1>3, <1>5, <1>7 DEF LegacyInNodeSQL
    <2>2. <<"SELECT", "count(*)", "FROM">> \o << T >> = <<"SELECT", "count(*)", "FROM", T>>
        BY AppendToken3
    <2>3. QED
        BY <1>7, <2>1, <2>2 DEF SpecStatement
<1>8. CASE op \notin {"select", "count"}
    <2>1. LegacyInNodeSQL(config, msg) = Warn
        BY <1>1, <1>5, <1>8 DEF LegacyInNodeSQL
    <2>2. QED
        BY <1>8, <2>1 DEF SpecStatement
<1>9. QED
    BY <1>6, <1>7, <1>8

(* A legacy in node's configuration: a string operation or none, and a    *)
(* logical table that is one of the model's templates.                     *)
LEMMA LegacyConfigFields ==
    ASSUME NEW c \in LegacyConfigs({Str("select"), Str("count"), Str("avg")})
    PROVE  /\ IsStr(Get(c, "operation")) \/ Get(c, "operation") = Undefined
           /\ Get(c, "logicaltable") \in TableTemplates
<1>1. c \in Objects([logicaltable |-> TableTemplates,
                     operation |-> {Str("select"), Str("count"), Str("avg")}])
      /\ "logicaltable" \in DOMAIN c
    BY DEF LegacyConfigs
<1>2. "operation" \in DOMAIN c => c.operation \in {Str("select"), Str("count"), Str("avg")}
    BY <1>1, ObjectFields
<1>3. IsStr(Str("select")) /\ IsStr(Str("count")) /\ IsStr(Str("avg"))
    BY StrFacts
<1>4. c.logicaltable \in TableTemplates
    BY <1>1, ObjectFields
<1>5. QED
    BY <1>1, <1>2, <1>3, <1>4 DEF Get

(* A template that is not falsy renders to a non-empty string T. *)
LEMMA RenderedTableIsName ==
    ASSUME NEW t \in TableTemplates, NEW msg, ~Falsy(ResolvedTable(t, msg))
    PROVE  LET T == ResolvedTable(t, msg).str
           IN  T # "" /\ ResolvedTable(t, msg) = Str(T) /\ Render(t, msg) = Str(T)
<1>1. ~Falsy(t) /\ ResolvedTable(t, msg) = Render(t, msg)
    BY DEF ResolvedTable, Falsy
<1>2. \E s : Render(t, msg) = Str(s)
    BY DEF TableTemplates, Render
<1>3. QED
    BY <1>1, <1>2, StrFacts

(* The invariant of the legacy release. *)
LegacyInv == node \in Nodes /\ IssuesSpecQuery

LEMMA InitLegacyInv == Init => LegacyInv
BY DEF Init, LegacyInv, IssuesSpecQuery, HandledNamesTable

(* A legacy in node's step: the message it handles meets spec 4.4. *)
LEMMA LegacyInStep ==
    ASSUME Release = "gaian", StringFilters, node \in Nodes, LegacyInNodeInput
    PROVE  IssuesSpecQuery'
<1>1. PICK m \in Messages : handled' = [msg |-> m, outcome |-> LegacyInNodeSQL(node.config, m)]
    BY DEF LegacyInNodeInput, Handle
<1>2. node' = node /\ node.kind = "in"
    BY DEF LegacyInNodeInput, Handle
<1> DEFINE c == node.config
           t == Get(c, "logicaltable")
           R == ResolvedTable(t, m)
<1>3. SUFFICES ASSUME HandledNamesTable("in")'
               PROVE  handled'.outcome = SpecOutcome'
    BY DEF IssuesSpecQuery
<1>4. c \in LegacyConfigs({Str("select"), Str("count"), Str("avg")})
    BY <1>2 DEF Nodes, Deployed
<1>5. HandledTable' = R /\ HandledOperation' = InOperation(c)
    BY <1>1, <1>2 DEF HandledTable, HandledOperation
<1>6. t \in TableTemplates /\ (IsStr(Get(c, "operation")) \/ Get(c, "operation") = Undefined)
    BY <1>4, LegacyConfigFields
<1>7. R.str # "" /\ Render(t, m) = Str(R.str)
    BY <1>3, <1>5, <1>6, RenderedTableIsName DEF HandledNamesTable
<1>8. /\ "filter" \in DOMAIN m => IsStr(m.filter)
      /\ "projection" \in DOMAIN m => IsStr(m.projection)
    BY MessageFields
<1>9. LegacyInNodeSQL(c, m) = SpecStatement("in", InOperation(c).str, R.str, m)
    BY <1>6, <1>7, <1>8, LegacyInNodeMeetsSpec
<1>10. QED
    BY <1>1, <1>2, <1>5, <1>9 DEF SpecOutcome

LEMMA NextLegacyInv ==
    ASSUME Release = "gaian", StringFilters
    PROVE  LegacyInv /\ [Next]_<<node, handled>> => LegacyInv'
<1> SUFFICES ASSUME LegacyInv, [Next]_<<node, handled>> PROVE LegacyInv'
    OBVIOUS
<1>1. node' \in Nodes
    BY DEF LegacyInv, Next, LegacyInNodeInput, LegacyOutNodeInput, LegacySqlNodeInput, Handle
<1>2. CASE LegacyInNodeInput
    BY <1>1, <1>2, LegacyInStep DEF LegacyInv
<1>3. CASE LegacyOutNodeInput \/ LegacySqlNodeInput
    <2>1. node' = node /\ node.kind \in {"out", "sql"}
        BY <1>3 DEF LegacyOutNodeInput, LegacySqlNodeInput, Handle
    <2>2. QED
        BY <1>1, <2>1 DEF LegacyInv, IssuesSpecQuery, HandledNamesTable
<1>4. CASE UNCHANGED <<node, handled>>
    BY <1>4 DEF LegacyInv, IssuesSpecQuery, HandledNamesTable,
                SpecOutcome, HandledTable, HandledOperation
<1>5. QED
    BY <1>2, <1>3, <1>4 DEF Next

(* Spec 4.4, scenario A, for the legacy release: whenever a gaian in node *)
(* (gaian.js, the "input" handler of GaianInNode) has handled a message    *)
(* whose logical table renders to a name, it has submitted exactly the     *)
(* select or count the spec prescribes, or only warned -- although the     *)
(* handler never checks that the table is there.  Filters are strings, as *)
(* in run builder_legacy_query.                                            *)
THEOREM LegacyIssuesSpecQuery ==
    ASSUME Release = "gaian", StringFilters
    PROVE  Spec => []IssuesSpecQuery
<1>1. LegacyInv => IssuesSpecQuery
    BY DEF LegacyInv
<1>2. QED
    BY <1>1, InitLegacyInv, NextLegacyInv, PTL DEF Spec

=============================================================================
