--------------------------- MODULE ResultProjector ---------------------------
(***************************************************************************)
(* What the result callbacks of gaiandb.js make of a statement's result:   *)
(* queryResultAction fans the rows out into messages, updateResultAction   *)
(* sends the affected-row count, and the two admin endpoints answer the    *)
(* editor with the table names their catalog query returned, less a       *)
(* denylist.  One consumer waits for a result; the driver answers (the     *)
(* rows from toObjArray, or its error, or an update count); the callback   *)
(* runs and its output is recorded; the consumer then waits again.         *)
(*                                                                         *)
(* The release of the connection and the exception that skips it are      *)
(* modelled in ProcessSQLStatement; this module is about the output.       *)
(***************************************************************************)
EXTENDS Naturals, Sequences, FiniteSets

CONSTANTS
    MaxRows,          \* the longest result set the model hands to a callback
    ToObjArrayFails   \* whether resultset.toObjArray may report an error

ASSUME ProjectorAssumption ==
    /\ MaxRows \in Nat
    /\ ToObjArrayFails \in BOOLEAN

(* The consumers of a result: a query node by its node.multi, an out node, *)
(* and the two admin endpoints.                                            *)
Consumers == {"individual", "batch", "update", "lts", "tables"}

(* Catalog names: one the lts denylist hides, one both denylists hide, and *)
(* a user table.                                                           *)
Names == {"GDB_LTLOG", "GDB_LOCAL_METRICS", "Orders"}

(* A row: an object with an LTNAME or a TABNAME column, or neither. *)
Rows == {[LTNAME |-> n] : n \in Names} \cup {[TABNAME |-> n] : n \in Names} \cup {<< >>}

ResultSets == UNION {[1 .. n -> Rows] : n \in 0 .. MaxRows}

(* What the driver hands to a callback. *)
RowsAnswer(rs)  == [kind |-> "rows", rows |-> rs, count |-> 0]
CountAnswer(n)  == [kind |-> "count", rows |-> << >>, count |-> n]
ErrorAnswer     == [kind |-> "error", rows |-> << >>, count |-> 0]
NoAnswer        == [kind |-> "none", rows |-> << >>, count |-> 0]

(* JavaScript's undefined, as a value distinct from every row. *)
Undefined == [undefined |-> TRUE]

(* What res.json answered the editor with, if anything. *)
Json(list) == [answered |-> TRUE, list |-> list]
NoResponse == [answered |-> FALSE, list |-> << >>]

VARIABLES
    consumer,  \* which callback consumes results
    answer,    \* the driver's answer to the pending statement, or NoAnswer
    calledBack,\* whether the callback has run on that answer
    sent,      \* the messages the callback sent with node.send
    response   \* what the admin callback answered with res.json

vars == <<consumer, answer, calledBack, sent, response>>

-----------------------------------------------------------------------------
(***************************************************************************)
(* The callbacks.                                                          *)
(***************************************************************************)

(* Fault variant of SendEachRow: the loop runs while index <= length, so   *)
(* one more message carries results[length], which is undefined.           *)
SendEachRowToLength(results) ==
    LET at(i) == IF i \in 1 .. Len(results) THEN results[i] ELSE Undefined
        sends[i \in 0 .. Len(results) + 1] ==
            IF i = 0 THEN << >> ELSE sends[i - 1] \o << [payload |-> at(i)] >>
    IN  sends[Len(results) + 1]

(* for (index = 0; index < results.length; index++)                         *)
(*     node.send({"payload": results[index]})                              *)
SendEachRow(results) ==
    LET sends[i \in 0 .. Len(results)] ==
            IF i = 0 THEN << >> ELSE sends[i - 1] \o << [payload |-> results[i]] >>
    IN  sends[Len(results)]

(* queryResultAction's toObjArray callback.  On an error results is        *)
(* undefined: in individual mode results.length throws and nothing is      *)
(* sent; in batch mode one message with an undefined payload is sent.      *)
QueryRowsCallback ==
    /\ consumer \in {"individual", "batch"}
    /\ answer.kind \in {"rows", "error"}
    /\ sent' = CASE answer.kind = "rows"  /\ consumer = "individual" -> SendEachRow(answer.rows)
                 [] answer.kind = "rows"  /\ consumer = "batch"      -> << [payload |-> answer.rows] >>
                 [] answer.kind = "error" /\ consumer = "individual" -> << >>
                 [] answer.kind = "error" /\ consumer = "batch"      -> << [payload |-> Undefined] >>
    /\ UNCHANGED response

(* updateResultAction: one message with the count. *)
UpdateResultAction ==
    /\ consumer = "update"
    /\ answer.kind = "count"
    /\ sent' = << [payload |-> [count |-> answer.count]] >>
    /\ UNCHANGED response

LTsNotToDisplay ==
    {"DERBY_TABLES", "GDB_LTLOG", "GDB_LTNULL", "GDB_LOCAL_METRICS",
     "GDB_LOCAL_QUERIES", "GDB_LOCAL_QUERY_FIELDS"}

TablesNotToDisplay == {"GDB_LOCAL_METRICS", "GDB_LOCAL_QUERIES", "GDB_LOCAL_QUERY_FIELDS"}

(* Fault variant of TableList: the hasOwnProperty test is dropped, so a    *)
(* row without the column pushes undefined.                                *)
TableListNoColumnCheck(results, column, denylist) ==
    LET name(r) == IF column \in DOMAIN r THEN r[column] ELSE "undefined"
        list[i \in 0 .. Len(results)] ==
            IF i = 0 THEN << >>
            ELSE IF name(results[i]) \notin denylist
                 THEN Append(list[i - 1], name(results[i]))
                 ELSE list[i - 1]
    IN  list[Len(results)]

(* The admin result actions' loop: a row's name is pushed when the row has *)
(* the column and the name is not on the denylist.                         *)
TableList(results, column, denylist) ==
    LET list[i \in 0 .. Len(results)] ==
            IF i = 0 THEN << >>
            ELSE IF column \in DOMAIN results[i] /\ results[i][column] \notin denylist
                 THEN Append(list[i - 1], results[i][column])
                 ELSE list[i - 1]
    IN  list[Len(results)]

(* The column and the denylist of each endpoint. *)
Column(c)   == IF c = "lts" THEN "LTNAME" ELSE "TABNAME"
Denylist(c) == IF c = "lts" THEN LTsNotToDisplay ELSE TablesNotToDisplay

(* The /gaiandb/lts and /gaiandb/tables toObjArray callbacks: on an error  *)
(* results.length throws before res.json, and the request gets no answer.  *)
AdminRowsCallback ==
    /\ consumer \in {"lts", "tables"}
    /\ answer.kind \in {"rows", "error"}
    /\ response' = IF answer.kind = "rows"
                   THEN Json(TableList(answer.rows, Column(consumer), Denylist(consumer)))
                   ELSE NoResponse
    /\ UNCHANGED sent

-----------------------------------------------------------------------------

(* The driver answers the pending statement: a query with its rows or, if *)
(* toObjArray fails, an error; an update with its count.                   *)
DriverAnswers ==
    /\ answer = NoAnswer
    /\ IF consumer = "update"
       THEN \E n \in 0 .. 2 : answer' = CountAnswer(n)
       ELSE \/ \E rs \in ResultSets : answer' = RowsAnswer(rs)
            \/ ToObjArrayFails /\ answer' = ErrorAnswer
    /\ UNCHANGED <<consumer, calledBack, sent, response>>

(* The callback runs on the answer. *)
Callback ==
    /\ answer # NoAnswer
    /\ ~calledBack
    /\ QueryRowsCallback \/ UpdateResultAction \/ AdminRowsCallback
    /\ calledBack' = TRUE
    /\ UNCHANGED <<consumer, answer>>

(* The consumer submits its next statement. *)
NextStatement ==
    /\ calledBack
    /\ answer' = NoAnswer
    /\ calledBack' = FALSE
    /\ sent' = << >>
    /\ response' = NoResponse
    /\ UNCHANGED consumer

Init ==
    /\ consumer \in Consumers
    /\ answer = NoAnswer
    /\ calledBack = FALSE
    /\ sent = << >>
    /\ response = NoResponse

Next == DriverAnswers \/ Callback \/ NextStatement

Spec == Init /\ [][Next]_vars

-----------------------------------------------------------------------------
(***************************************************************************)
(* The reference: spec sections 4.3, 6 and 8.                              *)
(***************************************************************************)

(* The messages spec 4.3 prescribes for an answer. *)
SpecMessages(c, a) ==
    IF c = "update" THEN {<< [payload |-> [count |-> a.count]] >>}
    ELSE IF c = "batch" THEN {<< [payload |-> a.rows] >>}
    ELSE {s \in [1 .. Len(a.rows) -> [payload : Rows]] :
             \A i \in 1 .. Len(a.rows) : s[i].payload = a.rows[i]}

(* The positions of the rows that name a table the endpoint shows. *)
Shown(rows, column, denylist) ==
    {i \in 1 .. Len(rows) : column \in DOMAIN rows[i] /\ rows[i][column] \notin denylist}

(* Scenario E: the shown names, in the relative order of their rows: the   *)
(* k-th entry comes from the shown row with exactly k shown rows up to it. *)
SpecTableList(rows, column, denylist) ==
    LET S == Shown(rows, column, denylist)
        kth(k) == CHOOSE i \in S : Cardinality({j \in S : j <= i}) = k
    IN  [k \in 1 .. Cardinality(S) |-> rows[kth(k)][column]]

(* Fan-out (spec 4.3, first three properties of section 8): once a query   *)
(* or update callback has run on rows it was given, it has sent one        *)
(* message per row carrying that row, in order (individual), exactly one   *)
(* message carrying the whole ordered rows, empty ones included (batch),   *)
(* or exactly one message with the count (update).                         *)
ProjectsSpecMessages ==
    (calledBack /\ consumer \in {"individual", "batch", "update"} /\ answer.kind # "error")
        => sent \in SpecMessages(consumer, answer)

(* Admin listing (spec 6, section 7, scenario E): once an admin callback   *)
(* has run, the editor has been answered, with the catalog's names less    *)
(* the endpoint's denylist in catalog order, or with [] after a failure.   *)
AnswersSpecTableList ==
    (calledBack /\ consumer \in {"lts", "tables"}) =>
        response = Json(IF answer.kind = "error" THEN << >>
                        ELSE SpecTableList(answer.rows, Column(consumer), Denylist(consumer)))

=============================================================================
