--------------------------- MODULE RequestBuilder ---------------------------
(***************************************************************************)
(* How the flow nodes turn an inbound message into the SQL statement they  *)
(* hand to processSQLStatement: the constructors and "input" handlers of   *)
(* the in (select/count), out (insert/update/delete) and sql nodes, in     *)
(* node-red-node-gaiandb (gaiandb.js) and in the older node-red-node-gaian *)
(* (gaian.js).  A handler either submits one statement or only warns; one *)
(* node is deployed with a configuration, then handles messages, one step *)
(* per message.                                                            *)
(*                                                                         *)
(* JavaScript values are records carrying their type, so that truthiness, *)
(* the loose comparison msg.filter == "" and string concatenation are      *)
(* modelled by what they do.  SQL text is a sequence of tokens: the        *)
(* concatenation of words is \o, whitespace is dropped, and keywords are   *)
(* written in upper case since SQL reads them case-insensitively.          *)
(***************************************************************************)
EXTENDS Sequences

CONSTANTS
    Release,       \* "gaiandb" (gaiandb.js) or "gaian" (the legacy gaian.js)
    FilterValues   \* the values an inbound msg.filter may carry when present

(* JavaScript values. *)
Str(s)   == [type |-> "string", str |-> s]
Bool(b)  == [type |-> "boolean", str |-> IF b THEN "true" ELSE "false"]
Num(s)   == [type |-> "number", str |-> s]
Undefined == [type |-> "undefined", str |-> "undefined"]

ASSUME ReleaseAssumption ==
    /\ Release \in {"gaiandb", "gaian"}
    /\ FilterValues \subseteq {Str(""), Str("id=5"), Bool(FALSE), Num("0")}

(* The values JavaScript treats as false in a condition. *)
Falsy(v) == v \in {Undefined, Str(""), Bool(FALSE), Num("0")}

(* v == "": both sides are converted to numbers unless v is a string. *)
LooseEqualsEmpty(v) == v \in {Str(""), Bool(FALSE), Num("0")}

(* obj.f, undefined when obj has no own property f. *)
Get(obj, f) == IF f \in DOMAIN obj THEN obj[f] ELSE Undefined

(* a || b *)
Or(a, b) == IF Falsy(a) THEN b ELSE a

(* The words that "..." + v contributes to the SQL text. *)
Text(v) == IF v.str = "" THEN << >> ELSE << v.str >>

(* mustache.render(template, msg), for the templates the model uses: a     *)
(* fixed name, or the tag {{topic}}, which renders as msg.topic or as ""   *)
(* when the message has none.                                              *)
Render(template, msg) ==
    IF template = Str("{{topic}}")
    THEN IF Get(msg, "topic") = Undefined THEN Str("") ELSE Str(Get(msg, "topic").str)
    ELSE template

(* The objects whose own properties are some of DOMAIN fields, property f  *)
(* taking a value in fields[f].                                            *)
Objects(fields) ==
    UNION { { o \in [D -> UNION {fields[f] : f \in DOMAIN fields}] :
                 \A f \in D : o[f] \in fields[f] }
            : D \in SUBSET DOMAIN fields }

(* Inbound messages; every one carries a payload, as Node-RED messages do. *)
Messages ==
    { m \in Objects([filter |-> FilterValues, projection |-> {Str(""), Str("name")},
                     payload |-> {Str(""), Str("v")}, topic |-> {Str(""), Str("Logs")}]) :
         "payload" \in DOMAIN m }

TableTemplates == {Str(""), Str("Sensors"), Str("{{topic}}")}

InConfigs ==
    Objects([table |-> TableTemplates, logicaltable |-> {Str("LT0")},
             operation |-> {Str("select"), Str("count"), Str("avg")}])

OutConfigs ==
    Objects([table |-> TableTemplates, logicaltable |-> {Str("LT0")},
             operation |-> {Str("insert"), Str("update"), Str("delete"), Str("upsert")}])

(* The legacy nodes keep config.logicaltable, which the editor always sets. *)
LegacyConfigs(operations) ==
    { c \in Objects([logicaltable |-> TableTemplates, operation |-> operations]) :
         "logicaltable" \in DOMAIN c }

SqlConfigs == Objects([query |-> {Str(""), Str("select 1"), Str("{{topic}}")}])

(* What a handler does with one message. *)
Issue(type, sql) == [what |-> "issue", type |-> type, sql |-> sql]
Warn  == [what |-> "warn", type |-> "none", sql |-> << >>]

NoneYet == [msg |-> << >>, outcome |-> Warn]

VARIABLES
    node,     \* the deployed node: its kind ("in", "out", "sql") and its config
    handled   \* the last message the node handled, and what the handler did

-----------------------------------------------------------------------------
(***************************************************************************)
(* gaiandb.js                                                              *)
(***************************************************************************)

(* The table of an in or out node: config.table, else config.logicaltable. *)
TableOf(config) ==
    IF ~Falsy(Get(config, "table")) THEN Get(config, "table")
    ELSE IF ~Falsy(Get(config, "logicaltable")) THEN Get(config, "logicaltable")
    ELSE Undefined

(* The operation of an in node: config.operation, "select" by default. *)
InOperation(config) == Or(Get(config, "operation"), Str("select"))

(* The table named by a message: the node's table rendered, if it has one. *)
ResolvedTable(table, msg) == IF Falsy(table) THEN Undefined ELSE Render(table, msg)

(* Fault variant of InNodeSQL: the selector tests for the filter field    *)
(* instead of its truthiness, so filter "" leaves a dangling WHERE.        *)
InNodeSQLFieldTest(config, msg) ==
    LET table     == ResolvedTable(TableOf(config), msg)
        operation == InOperation(config)
        selector  == IF "filter" \notin DOMAIN msg THEN << >>
                     ELSE <<"WHERE">> \o Text(Get(msg, "filter"))
    IN  IF Falsy(table) THEN Warn
        ELSE CASE operation = Str("select") ->
                     Issue("Query", <<"SELECT">> \o Text(Or(Get(msg, "projection"), Str("*")))
                                    \o <<"FROM">> \o Text(table) \o selector)
               [] operation = Str("count") ->
                     Issue("Query", <<"SELECT", "count(*)", "FROM">> \o Text(table) \o selector)
               [] OTHER -> Warn

(* The "gaiandb in" node: select or count, filtered when msg.filter is truthy. *)
InNodeSQL(config, msg) ==
    LET table     == ResolvedTable(TableOf(config), msg)
        operation == InOperation(config)
        selector  == IF Falsy(Get(msg, "filter")) THEN << >>
                     ELSE <<"WHERE">> \o Text(Get(msg, "filter"))
    IN  IF Falsy(table) THEN Warn
        ELSE CASE operation = Str("select") ->
                     Issue("Query", <<"SELECT">> \o Text(Or(Get(msg, "projection"), Str("*")))
                                    \o <<"FROM">> \o Text(table) \o selector)
               [] operation = Str("count") ->
                     Issue("Query", <<"SELECT", "count(*)", "FROM">> \o Text(table) \o selector)
               [] OTHER -> Warn

(* Fault variant of OutNodeSQL: the presence test is !msg.filter, so a    *)
(* filter "" is rejected like an absent one.                               *)
OutNodeSQLTruthyFilter(config, msg) ==
    LET table     == ResolvedTable(TableOf(config), msg)
        operation == Get(config, "operation")
        payload   == Text(Get(msg, "payload"))
        hasFilter == ~Falsy(Get(msg, "filter"))
        selector  == <<"WHERE">> \o Text(Get(msg, "filter"))
    IN  IF Falsy(table) THEN Warn
        ELSE CASE operation = Str("insert") ->
                     Issue("Update", <<"INSERT", "INTO">> \o Text(table) \o <<"VALUES">> \o payload)
               [] hasFilter /\ operation = Str("update") ->
                     Issue("Update", <<"UPDATE">> \o Text(table) \o <<"SET">> \o payload \o selector)
               [] hasFilter /\ operation = Str("delete") ->
                     Issue("Update", <<"DELETE", "FROM">> \o Text(table) \o selector)
               [] OTHER -> Warn

(* The "gaiandb out" node: an absent msg.filter rejects update and delete, *)
(* a filter equal to "" gives no WHERE clause.                             *)
OutNodeSQL(config, msg) ==
    LET table     == ResolvedTable(TableOf(config), msg)
        operation == Get(config, "operation")
        payload   == Text(Get(msg, "payload"))
        hasFilter == "filter" \in DOMAIN msg
        selector  == IF LooseEqualsEmpty(Get(msg, "filter")) THEN << >>
                     ELSE <<"WHERE">> \o Text(Get(msg, "filter"))
    IN  IF Falsy(table) THEN Warn
        ELSE CASE operation = Str("insert") ->
                     Issue("Update", <<"INSERT", "INTO">> \o Text(table) \o <<"VALUES">> \o payload)
               [] hasFilter /\ operation = Str("update") ->
                     Issue("Update", <<"UPDATE">> \o Text(table) \o <<"SET">> \o payload \o selector)
               [] hasFilter /\ operation = Str("delete") ->
                     Issue("Update", <<"DELETE", "FROM">> \o Text(table) \o selector)
               [] OTHER -> Warn

(* The "gaiandb sql" node: config.query, else msg.payload, rendered. *)
SqlNodeSQL(config, msg) ==
    LET query == Or(Get(config, "query"), Get(msg, "payload"))
    IN  IF Falsy(query) THEN Warn ELSE Issue("Query", Text(Render(query, msg)))

-----------------------------------------------------------------------------
(***************************************************************************)
(* gaian.js                                                                *)
(***************************************************************************)

(* Fault variant of LegacyInNodeSQL: the selector tests that msg.filter is *)
(* present instead of truthy, so filter "" gives a bare WHERE.              *)
LegacyInNodeSQLPresentFilter(config, msg) ==
    LET table     == Render(Get(config, "logicaltable"), msg)
        operation == InOperation(config)
        selector  == IF "filter" \notin DOMAIN msg THEN << >>
                     ELSE <<"WHERE">> \o Text(Get(msg, "filter"))
    IN  CASE operation = Str("select") ->
                Issue("Query", <<"SELECT">> \o Text(Or(Get(msg, "projection"), Str("*")))
                               \o <<"FROM">> \o Text(table) \o selector)
          [] operation = Str("count") ->
                Issue("Query", <<"SELECT", "count(*)", "FROM">> \o Text(table) \o selector)
          [] OTHER -> Warn

(* The "gaian in" node: like "gaiandb in", without the check for a table. *)
LegacyInNodeSQL(config, msg) ==
    LET table     == Render(Get(config, "logicaltable"), msg)
        operation == InOperation(config)
        selector  == IF Falsy(Get(msg, "filter")) THEN << >>
                     ELSE <<"WHERE">> \o Text(Get(msg, "filter"))
    IN  CASE operation = Str("select") ->
                Issue("Query", <<"SELECT">> \o Text(Or(Get(msg, "projection"), Str("*")))
                               \o <<"FROM">> \o Text(table) \o selector)
          [] operation = Str("count") ->
                Issue("Query", <<"SELECT", "count(*)", "FROM">> \o Text(table) \o selector)
          [] OTHER -> Warn

(* The "gaian out" node: the selector is built from the truthiness of      *)
(* msg.filter alone, so an absent filter gives no WHERE clause either.     *)
LegacyOutNodeSQL(config, msg) ==
    LET table     == Render(Get(config, "logicaltable"), msg)
        operation == Get(config, "operation")
        payload   == Text(Get(msg, "payload"))
        selector  == IF Falsy(Get(msg, "filter")) THEN << >>
                     ELSE <<"WHERE">> \o Text(Get(msg, "filter"))
    IN  CASE operation = Str("insert") ->
                Issue("Update", <<"INSERT", "INTO">> \o Text(table) \o <<"VALUES">> \o payload)
          [] operation = Str("update") ->
                Issue("Update", <<"UPDATE">> \o Text(table) \o <<"SET">> \o payload \o selector)
          [] operation = Str("delete") ->
                Issue("Update", <<"DELETE", "FROM">> \o Text(table) \o selector)
          [] OTHER -> Warn

(* The "gaian sql" node is the same code as the "gaiandb sql" node. *)
LegacySqlNodeSQL(config, msg) == SqlNodeSQL(config, msg)

-----------------------------------------------------------------------------
(***************************************************************************)
(* The input handlers.  The node's config is fixed when it is deployed;   *)
(* each step hands it one inbound message.                                 *)
(***************************************************************************)

Deployed(kind, configs) == [kind : {kind}, config : configs]

Nodes ==
    IF Release = "gaiandb"
    THEN Deployed("in", InConfigs) \cup Deployed("out", OutConfigs)
         \cup Deployed("sql", SqlConfigs)
    ELSE Deployed("in", LegacyConfigs({Str("select"), Str("count"), Str("avg")}))
         \cup Deployed("out", LegacyConfigs({Str("insert"), Str("update"), Str("delete"), Str("upsert")}))
         \cup Deployed("sql", SqlConfigs)

(* A node of the given kind handles one inbound message; outcome[m] is    *)
(* what its input handler does with message m.                             *)
Handle(kind, outcome) ==
    /\ node.kind = kind
    /\ \E m \in Messages : handled' = [msg |-> m, outcome |-> outcome[m]]
    /\ UNCHANGED node

InNodeInput == Handle("in", [m \in Messages |-> InNodeSQL(node.config, m)])

OutNodeInput == Handle("out", [m \in Messages |-> OutNodeSQL(node.config, m)])

SqlNodeInput == Handle("sql", [m \in Messages |-> SqlNodeSQL(node.config, m)])

LegacyInNodeInput == Handle("in", [m \in Messages |-> LegacyInNodeSQL(node.config, m)])

LegacyOutNodeInput == Handle("out", [m \in Messages |-> LegacyOutNodeSQL(node.config, m)])

LegacySqlNodeInput == Handle("sql", [m \in Messages |-> LegacySqlNodeSQL(node.config, m)])

Init ==
    /\ node \in Nodes
    /\ handled = NoneYet

Next ==
    IF Release = "gaiandb"
    THEN InNodeInput \/ OutNodeInput \/ SqlNodeInput
    ELSE LegacyInNodeInput \/ LegacyOutNodeInput \/ LegacySqlNodeInput

Spec == Init /\ [][Next]_<<node, handled>>

-----------------------------------------------------------------------------
(***************************************************************************)
(* The statement spec section 4.4 prescribes for a message, given the      *)
(* resolved table name T and the node's operation.  A filter is "present"  *)
(* when the message has the field; the WHERE clause is omitted when it is  *)
(* absent or the empty string.                                             *)
(***************************************************************************)

SpecWhere(msg) ==
    IF "filter" \in DOMAIN msg /\ msg.filter # Str("")
    THEN <<"WHERE", msg.filter.str>> ELSE << >>

SpecProjection(msg) ==
    IF "projection" \in DOMAIN msg /\ msg.projection # Str("")
    THEN msg.projection.str ELSE "*"

SpecStatement(kind, operation, T, msg) ==
    CASE kind = "in" /\ operation = "select" ->
            Issue("Query", <<"SELECT", SpecProjection(msg), "FROM", T>> \o SpecWhere(msg))
      [] kind = "in" /\ operation = "count" ->
            Issue("Query", <<"SELECT", "count(*)", "FROM", T>> \o SpecWhere(msg))
      [] kind = "out" /\ operation = "insert" ->
            Issue("Update", <<"INSERT", "INTO", T, "VALUES">> \o Text(msg.payload))
      [] kind = "out" /\ operation = "update" /\ "filter" \in DOMAIN msg ->
            Issue("Update", <<"UPDATE", T, "SET">> \o Text(msg.payload) \o SpecWhere(msg))
      [] kind = "out" /\ operation = "delete" /\ "filter" \in DOMAIN msg ->
            Issue("Update", <<"DELETE", "FROM", T>> \o SpecWhere(msg))
      [] OTHER -> Warn

(* The operation of the node that handled the message. *)
HandledOperation ==
    IF node.kind = "in" THEN InOperation(node.config)
    ELSE Get(node.config, "operation")

(* The table a handled message names, as the spec's "resolved table name". *)
HandledTable ==
    LET t == IF Release = "gaiandb" THEN TableOf(node.config)
             ELSE Get(node.config, "logicaltable")
    IN  ResolvedTable(t, handled.msg)

(* The handled message names a table, and the node reads or writes it. *)
HandledNamesTable(kind) ==
    /\ handled # NoneYet
    /\ node.kind = kind
    /\ ~Falsy(HandledTable)

SpecOutcome ==
    SpecStatement(node.kind, HandledOperation.str, HandledTable.str, handled.msg)

(* Query construction (spec 4.4, scenario A): whenever an in node handles  *)
(* a message whose table resolves to a name, it submits exactly the select *)
(* or count the spec prescribes -- projection or "*", and a WHERE clause   *)
(* just when the message carries a filter other than "" -- or only warns   *)
(* for an operation the spec does not know.                                *)
IssuesSpecQuery ==
    HandledNamesTable("in") => handled.outcome = SpecOutcome

(* Mutation construction (spec 4.4, scenarios B and C): whenever an out    *)
(* node handles a message whose table resolves to a name, it submits       *)
(* exactly the insert, update or delete the spec prescribes.  An update or *)
(* delete whose message has no filter field never reaches the database,    *)
(* and one whose filter is anything but "" is scoped by a WHERE clause, so *)
(* a whole table is changed only when the message asks for it with "".     *)
IssuesSpecMutation ==
    HandledNamesTable("out") => handled.outcome = SpecOutcome

=============================================================================
