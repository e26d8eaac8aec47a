# Verification of node-red-node-gaiandb

This directory models in TLA+ the Node-RED nodes that run SQL against a Gaian
(Derby) database through a pooled JDBC client
(`src/node-red-node-gaiandb/src/gaiandb.js`, and its older copy
`src/node-red-node-gaian/src/gaian.js`). TLC model-checks the models and
TLAPS proves theorems about them.

## 1. Inventory

### Components and their state

| Component | Code | State it keeps | Operations |
|---|---|---|---|
| Connection pool (node-jdbc, external) | `jdbc` object created at `gaiandb.js:363` | idle connections, reserved connections, bounded by `maxpoolsize` (100) | `reserve`, `release`, `purge` |
| Execution orchestrator | `processSQLStatement`, `gaiandb.js:34-78` | per call: the `connObj` its closures capture | the reserve, createStatement, execute (`queryHandler`) and toObjArray callbacks |
| Config-node orchestrator | `processConfigSQLStatement`, `gaiandb.js:83-130` | the same, with an `errorAction` | the same callbacks |
| Connectivity probe | `testConfigConnection`, `gaiandb.js:159-184` | `configNode.connected` | the reserve and createStatement callbacks |
| Result projector | `queryResultAction` / `updateResultAction`, `gaiandb.js:198-215` | none | send the rows (per row or as one batch) or the count, then release |
| Request construction | the input handlers of the `gaiandb in/out/sql` nodes, `gaiandb.js:413-445, 475-514, 537-555` | node config (`table`, `operation`, `multi`, `query`) | build the SQL text from the message, or warn |
| Admin endpoints | `/gaiandb/lts`, `/gaiandb/tables`, `gaiandb.js:239-306` | none | query the catalog, filter a denylist, answer with JSON |
| Config node | `GaianNode`, `gaiandb.js:309-371` | URL, credentials, `jdbc`, `connected` | create the pool, start the probe |
| Status reporter | `node.status` / `node.error` | the status shown in the editor | set by every callback |

Dead code: `testConnection`, `setInitialConnectionStatus`, `listlts` and
`listderbytables` are never called.

### How the parts interact

Node-RED runs everything on one event loop. An input message (or an admin HTTP
request, or the config node's constructor) calls `jdbc.reserve`. Every later
step is a callback that the pool or the JDBC driver schedules:
reserve, then `createStatement`, then `executeQuery`/`executeUpdate`, then
`toObjArray`. A callback runs to completion before any other starts.
Callbacks of different messages interleave freely, and all of them share the
one pool of the config node. A failed `createStatement` is taken as a sign
that the database is down: the run releases its connection and purges the
whole pool.

### What is hard

* Interleaving: many runs are in flight at once, at different stages, on
  connections of one bounded pool. Purges happen while other runs hold
  connections.
* Failure: the database can go away and come back. Connections opened before
  the outage are dead, yet they sit in the pool and are handed out again.
* Partial failure: several callbacks throw (a TypeError or a ReferenceError)
  in the middle, after the reserve and before the release.
* Resource bound: a connection that is never released is lost for good. Once
  `maxpoolsize` are lost, no run gets a connection.
* Timeouts: there are none. A hung remote call holds its connection for ever.

### What makes each component correct

* Pool use (spec section 8): every successful reserve is followed by exactly
  one release, on every path. No connection is used by two runs at once.
  Every run that starts eventually finishes.
* Failure classification (spec section 4.2): a createStatement failure
  releases and purges; an execute failure releases only.
* Result projector (spec section 4.3): in individual mode one message per row,
  in order; in batch mode exactly one message; for an update one message
  with the count.
* Request construction (spec section 4.4): the exact SQL of each operation.
  For update/delete, an absent filter is rejected and an empty one gives no
  WHERE clause.
* Admin endpoints (spec section 6): the denylisted names are removed, order is
  kept, and any failure gives an empty list.

The hazards, each at its line and with the properties that cover it, are
listed in `PROJECT.json` under `hazards`.

## 2. Modules

| Module | Models | Kind |
|---|---|---|
| `ProcessSQLStatement` | the callback chains of the three callers (flow nodes, config node and probe, admin endpoints), interleaved over one pool, with database outages | state machine (section 3) |
| `PoolUse` | what a caller of the pool must do: ask, get an unshared connection or an error, give it back | abstract specification (section 4) |
| `ResultProjector` | `queryResultAction`, `updateResultAction` and the admin result actions: the messages sent and the JSON answered | callbacks, with a reference (section 5) |
| `RequestBuilder` | the SQL built by the in, out and sql nodes of both gaiandb.js and gaian.js | input handlers, with a reference (section 6) |
| `MCProcessSQLStatement`, `MCResultProjector`, `MCRequestBuilder` | the constants of the runs | TLC instances |
| `ProcessSQLStatementProofs`, `PoolUseRefinement`, `FlowNoLeakProofs`, `RequestBuilderProofs`, `ResultProjectorProofs` | theorems | TLAPS (section 8) |

Still open: the node status, and a recovery property (after the database
is back up, a later run succeeds).

## 3. The model `ProcessSQLStatement`

State (one entry per run `r` in `Runs`):

* `pc[r]` is the callback `r` waits for (`reserve`, `create`, `execute`,
  `convert`), or `idle`, `done`, or `threw` (a callback threw an exception).
* `req[r]` is the caller (`flow`, `config`, `probe`), the statement type and
  the node's `multi` mode.
* `held[r]` is the `connObj` the callbacks' closure captured.
* The pool: `pooled` (idle), `lent` (reserved), `broken` (open, but the
  session died in an outage), `doomed` (lent when a purge happened, closed
  on release).
* The environment: `dbUp` and `outages`.

Actions: each callback in the code is one action, with its branches as
disjuncts.

* `FlowOnReserve`, `ConfigOnReserve`, `ProbeOnReserve` model the reserve
  callbacks.
* `FlowOnCreateStatement` models release then purge on failure.
  `ConfigOnCreateStatement` and `ProbeOnCreateStatement` model throwing
  before the release.
* `FlowOnExecute` models `queryHandler` together with `updateResultAction`.
  `ConfigOnExecute` models the config node's version.
* `FlowOnRows` models `queryResultAction`'s toObjArray callback.
  `AdminOnRows` models the admin endpoints' result action.

Runs start with `QueryNodeInput`, `OutNodeInput`, `AdminListInput` and
`ConfigNodeCreated`. Building the SQL text is abstracted away. A message for
which no SQL is built starts no run.

The pool belongs to node-jdbc, not to this repository, so it is modelled
from the spec (`PoolReserve`, `PoolRelease`, `PoolReleaseThenPurge`;
`spec_modelled` in the map).

* `reserve` reuses an idle connection, or opens one if the database is up
  and fewer than `Conns` are lent.
* When it can do neither, `reserve` waits (spec section 5). It errors only
  when the database is down and nothing is idle.
* `createStatement` fails exactly on a broken connection.
* `execute` may fail on any connection, for example on bad SQL.

A thrown exception ends the callback where it is thrown: nothing after it
happens. Under Node-RED's default handler the process then exits; if a host
catches it, the connection stays leaked. Both outcomes violate the spec's
release guarantee, and the model shows the second.

### Fairness

`Fairness == \A r : WF_vars(Callback(r))`: once the pool or the driver can
answer a run, the event loop eventually runs its callback. Incoming messages,
outages and recoveries are not fair. A message may never arrive, and the
database may stay down. That the driver answers at all is an assumption. The
code has no timeout (spec section 5), and a hung call is outside what
`RunsComplete` claims.

## 4. The pool protocol `PoolUse` and the refinement

`PoolUse` is what spec sections 4.2 and 5 ask of any caller of the pool,
independent of its callbacks. A run is `idle`, `waiting`, `holding` or
`finished`, and it takes these steps:

* `Request`: the run asks for a connection.
* `Acquire(r, c)`: the run gets a connection `c` that no run has taken.
* `Deny`: the pool answers with an error.
* `Release`: the run gives back the connection it got.
* `Abandon`: the run ends while still holding its connection.

`Spec` allows abandonment. `LeakFreeSpec` is the protocol of spec 4.2 item 4.
It forbids abandonment, and its weak fairness on settling and releasing says
that no run waits or holds for ever.

`ProcessSQLStatement` implements it through
`PU == INSTANCE PoolUse WITH stage <- PoolStage, conn <- held, taken <- lent`:

* `reserve` maps to `waiting`;
* `create`, `execute` and `convert` map to `holding`;
* `done` and `threw` map to `finished`.

Purges, outages and a holding run's steps between two callbacks are
stuttering steps.

* `ImplementsPoolUse == PU!Spec` is checked for all callers in
  `exclusive_all`, and proved in `PoolUseRefinement`.
* `ImplementsLeakFreePoolUse == PU!LeakFreeSpec` is checked for the flow
  nodes in `flow_noleak`. It is false for the other callers (findings 1-3).
  Its fairness is what `RunsComplete` says and more, so the passing run
  checks it in place of `RunsComplete`.

## 5. The result projector `ResultProjector`

The driver answers the pending statement with rows (up to `MaxRows`), with
an error when `toObjArray` may fail, or with a count. The consumer's
callback then runs once, and the consumer submits its next statement.

* `SendEachRow` is the `for` loop of `queryResultAction`, as a recursive
  function.
* `TableList` is the admin actions' loop: push the column's value when the
  row has the column and the value is not denylisted.

Both are compared with references written from the spec:

* `SpecMessages`: one message per row, in order; or one message; or one
  count.
* `SpecTableList`: the k-th shown name is the one whose row has exactly k
  shown rows up to it. It is defined by counting, not by a loop.

## 6. The request builder `RequestBuilder`

JavaScript values are records with their type, so that truthiness (`Falsy`),
`||` (`Or`), an own property or `undefined` (`Get`) and the loose comparison
`msg.filter == ""` (`LooseEqualsEmpty`) are modelled by what they do.

* SQL is a sequence of tokens. `"..." + v` contributes the word `v`, and
  nothing when `v` is empty.
* `mustache.render` is modelled for the templates used: a fixed name, or
  `{{topic}}`.
* One node is deployed with any configuration the editor can produce. Each
  step hands it any message: filter absent, `""`, `"id=5"` or (in
  `builder_falsy_filter`) `false`; projection and topic absent, empty or
  set.
* `SpecStatement` is spec 4.4's statement for the resolved table name.
* The properties compare the handler's outcome with it whenever the
  message resolves to a table name.

## 7. Runs

`MCProcessSQLStatement` runs use at most one outage (`MaxOutages = 1`).
`CHECK_DEADLOCK FALSE` is set because the model has a finite set of
messages: when all are handled, the node rightly sits idle. Waiting for ever
in the middle of a run is what `RunsComplete` and the fairness of
`LeakFreeSpec` catch.

| Run | Bounds | Checks | Result |
|---|---|---|---|
| `exclusive_all` | 3 runs, 2 connections, all callers, toObjArray may fail | `TypeOK`, `ExclusiveUse`, `ImplementsPoolUse` | passes (371,162 states) |
| `flow_noleak` | 3 runs, 2 connections, flow nodes only, toObjArray reliable | `NoLeak`, `ImplementsLeakFreePoolUse` | passes (96,396 states) |
| `admin_leak` | 2 runs, 1 connection, admin requests | `NoLeak` | violated |
| `rows_error_leak` | 2 runs, 1 connection, flow nodes, toObjArray may fail | `NoLeak` | violated |
| `probe_leak` | 2 runs, 1 connection, probe | `NoLeak` | violated |
| `pool_starvation` | 2 runs, 1 connection, flow nodes and admin requests | `RunsComplete` | violated |
| `projector` | result sets of up to 3 rows of 7 kinds, toObjArray reliable | `ProjectsSpecMessages`, `AnswersSpecTableList` | passes (3,211 states) |
| `admin_unanswered` | up to 2 rows, toObjArray may fail | `AnswersSpecTableList` | violated |
| `builder_gaiandb` | gaiandb.js nodes, filters `""` and `"id=5"` | `IssuesSpecQuery`, `IssuesSpecMutation` | passes (4,180 states) |
| `builder_legacy_query` | gaian.js nodes, the same messages | `IssuesSpecQuery` | passes (1,705 states) |
| `builder_legacy` | gaian.js nodes | `IssuesSpecMutation` | violated |
| `builder_falsy_filter` | gaiandb.js nodes, filter `false` added | `IssuesSpecMutation` | violated |

The bounds are chosen to reach the interesting cases:

* Three runs on two connections make one run find every connection lent and
  wait.
* Two connections let a purge happen while another run holds a connection.
* One outage puts dead connections into the pool and into running callback
  chains.
* Three rows, drawn from names on one denylist, on both denylists and on
  neither, or rows without the column, put a hidden name between two shown
  ones. The denylist filter must then keep order.
* The builder's messages cover every combination of present, empty and
  non-empty filter, projection and topic. The table templates cover empty,
  fixed and `{{topic}}`.

No run uses symmetry: every `MCProcessSQLStatement` run checks a temporal
property (a refinement or liveness), and symmetry is unsound for those.

Every property of a passing run has a mutant: a plausible bug that TLC finds.

* `ReserveCallbackReleaseOnError` also releases in the reserve-error branch,
  putting an undefined `connObj` into the pool (breaks `TypeOK`).
* `FlowOnExecuteEarlyRelease` releases before the rows are read (breaks
  `ExclusiveUse`).
* `ReserveCallbackDropsConnection` skips the `else if (connObj)` branch, so
  the run ends with a connection it never used (breaks `ImplementsPoolUse`).
* `FlowOnCreateStatementNoRelease` purges without releasing (breaks
  `NoLeak`).
* `FlowOnCreateStatementQueryOnly` dispatches only `"Query"`, stranding
  updates (breaks `ImplementsLeakFreePoolUse`).
* `SendEachRowToLength` loops to `index <= length` (breaks
  `ProjectsSpecMessages`).
* `TableListNoColumnCheck` drops the `hasOwnProperty` test (breaks
  `AnswersSpecTableList`).
* `InNodeSQLFieldTest` and `LegacyInNodeSQLPresentFilter` add a WHERE clause
  for an empty filter (break `IssuesSpecQuery`).
* `OutNodeSQLTruthyFilter` (breaks `IssuesSpecMutation`).

### Findings

1. **Admin endpoints leak a connection on every request**
   (`gaiandb.js:247-261`). The success path answers and never releases. The
   error paths call `releaseConnection(configNode, ...)`, which reads
   `configNode.gaianConfig.jdbc`; a config node has no `gaianConfig`, so the
   call throws before the release and the purge.
2. **toObjArray errors leak a connection** (`gaiandb.js:201`). In individual
   mode `results.length` throws on `undefined` before the release.
3. **A failed startup probe leaks its connection** (`gaiandb.js:173`).
   `node.error` refers to a `node` that is not in scope, so a ReferenceError
   is thrown before the release at line 180.
4. **Consequence: pool starvation.** The leaked connections stay lent for
   ever. With a pool of one connection, `pool_starvation` shows that a single
   admin request makes every later flow run wait. With 100 connections, 100
   list requests (each opening of the table chooser in the editor) have the
   same effect.
5. **The legacy out node updates or deletes every row when the message has
   no filter** (`gaian.js:318`, run `builder_legacy`). Spec 4.4 says an
   absent filter is rejected with a warning, and gaiandb.js does so.
6. **A filter of `false` or `0` is taken as `""`** (`gaiandb.js:484`, run
   `builder_falsy_filter`). The loose comparison `msg.filter == ""` lets
   `msg.filter = id && ("id=" + id)` with a missing id reach the database
   as an unscoped UPDATE.
7. **An admin lookup whose toObjArray fails never answers**
   (`gaiandb.js:251`, run `admin_unanswered`). `results.length` throws
   before `res.json`, and the editor's request hangs. Spec sections 6 and 7
   ask for an empty list.

## 8. Proofs

`ProcessSQLStatementProofs.tla` proves, for all values of the constants:

* `TypeCorrect == Spec => []TypeOK`.
* `ExclusiveUseHolds == Spec => []ExclusiveUse`.

Neither invariant is inductive alone. The inductive invariant is
`IInv == TypeOK /\ ExclusiveUse /\ PoolConsistent`, where
`PoolConsistent` says three things:

* idle and lent connections are disjoint;
* broken connections are idle or lent;
* doomed connections are lent.

A reserve hands out a connection that is idle or not open. That no holding
run has it follows only from idle and lent being disjoint. `TypeOK` needs
`ExclusiveUse` because a release puts `held[r]` into the pool, and only
`ExclusiveUse` says that `held[r]` is a connection and not `NoConn`.

The proof of the step has one case per action, and each case rests on one of
four lemmas:

* `LeaveWithRelease`: a run gives its connection back and leaves the holding
  stages;
* `LeaveWithoutRelease`: a run throws, and its connection stays lent;
* `StageOnly`: only the run's stage changes;
* `QuietStep`: an outage or a recovery.

`IInv` was checked with TLC (as an invariant of `exclusive_all`'s
configuration) before it was proved.

`PoolUseRefinement.tla` proves `RefinesPoolUse == Spec => ImplementsPoolUse`
for every number of runs and connections:

* The initial state maps to `PU!Init`.
* Under `IInv`, every step maps to a `PoolUse` step or a stutter. There are
  lemmas `ToRequest`, `ToAcquire`, `ToDeny`, `ToRelease`, `ToAbandon` and
  `Hidden`, one per kind of stage change.
* The one step that needs the invariant is the grant in reserve's callback.
  It is an `Acquire` only because the connection handed out is not lent,
  and that comes from `PoolConsistent`.

`FlowNoLeakProofs.tla` proves `NoLeak` for the configuration of run
`flow_noleak`, for every number of runs, connections and outages. The
hypotheses are that only flow nodes call (`Callers \subseteq {"flow"}`) and
that toObjArray does not fail (`~ToObjArrayFails`). Both are needed: runs
`admin_leak` and `rows_error_leak` show a leak when either is dropped.

* `FlowCallersNoLeak == Spec => []NoLeak`.
* `FlowCallersFollowLeakFreeProtocol == Spec => PU!Init /\
  [][PU!LeakFreeNext]_PU!vars`. This is the safety half of
  `ImplementsLeakFreePoolUse`: every step is a step of the pool protocol in
  which no run abandons its connection.

The inductive invariant is `LInv == IInv /\ NoLeak /\ RequestsFromCallers`.
`NoLeak` alone is not inductive: a run that starts must be a flow-node run,
and only `RequestsFromCallers` (every run's request comes from a caller of
`Callers`) says so. `LInv` was checked with TLC on `flow_noleak`'s instance
before it was proved. One lemma per kind of step shows that it keeps
`NoLeak`: `NoLeakStageOnly`, `NoLeakAcquire`, `NoLeakRelease`, and
`CallbackNoLeak` for the callbacks.

`RequestBuilderProofs.tla` proves the builder's agreement with spec 4.4.
The theorems are about the model's behaviours: the configurations of
`Nodes` and the messages of `Messages`, for every choice of `FilterValues`
among the string filters. The handler lemmas they rest on are general.
They hold for every string table name, operation, filter, projection and
payload, not only for the values the model's sets contain:

* `GaiandbIssuesSpecQuery == Spec => []IssuesSpecQuery` and
  `GaiandbIssuesSpecMutation == Spec => []IssuesSpecMutation`, for
  `Release = "gaiandb"`.
* `LegacyIssuesSpecQuery == Spec => []IssuesSpecQuery`, for
  `Release = "gaian"`.

All three assume `StringFilters`: every filter a message carries is a
JavaScript string, as in runs `builder_gaiandb` and `builder_legacy_query`.
A filter of `false` or `0` is where the code parts from the spec (run
`builder_falsy_filter`). So the hypothesis marks the boundary of the result;
it does not hide a case.

The argument has two layers:

* `InNodeMeetsSpec`, `OutNodeMeetsSpec` and `LegacyInNodeMeetsSpec` show that
  a handler's statement equals `SpecStatement`. The argument is about any
  message and configuration whose fields are strings.
* The lemmas `AppendToken1`–`3` give literal token tuples under `\o`.
* `SelectorMeetsSpec` shows that both the truthiness test and the `== ""` test
  of a string filter give `SpecWhere`.
* `ProjectionMeetsSpec` does the same for `msg.projection || "*"`.
* The inductive invariants are `BInv == node \in Nodes /\ IssuesSpecQuery
  /\ IssuesSpecMutation` and `LegacyInv == node \in Nodes /\
  IssuesSpecQuery`. `node \in Nodes` is needed because the step lemmas read
  the configuration's types from it (`ConfigFields`, `LegacyConfigFields`).
  A JavaScript string is a value `v` with `v = Str(v.str)` (`IsStr`). The
  provers cannot show that a string literal belongs to `STRING`, and the
  argument never needs it to.

`ResultProjectorProofs.tla` proves the projector's agreement with its
reference for every bound `MaxRows` and both values of `ToObjArrayFails`:

* `CallbacksProjectSpecMessages == Spec => []ProjectsSpecMessages`.
* `AdminAnswersOnRows == Spec => []AnswersOnRows`: an admin callback that
  ran on rows has answered with `SpecTableList` of those rows. This holds
  with or without toObjArray errors.
* `AdminAnswersSpecTableList`: if `~ToObjArrayFails`, then
  `Spec => []AnswersSpecTableList`. The hypothesis is needed. After an
  error the code answers nothing, and run `admin_unanswered` shows the
  violation.

The proof rests on two lemmas about the loops, for result sets of every
length:

* `SendEachRowClosed`: the recursive function `sends` equals
  `[i \in 1 .. Len(rs) |-> [payload |-> rs[i]]]`.
* `TableListMeetsSpec`: the admin loop `list` equals `SpecTableList`. Its
  loop invariant, for the first `k` rows, is as follows:
  * `list[k]` is as long as the set of rows shown so far;
  * a shown row `i` sits at position `Rank(Sh, i)`, the number of shown
    rows up to `i`;
  * every position is the rank of some shown row.

  `RankAddLast` shows that a new shown row takes the next rank and leaves
  the other ranks as they were.

Both lemmas hold for sequences over any set, not only the model's `Rows`.
The recursive functions are unfolded with `FiniteNatInductiveDef` of
`NaturalsInduction`. The induction over `k` is `SetInduction`, proved from
the well-foundedness of `<` on `Nat` (`WFMin`). It avoids the library's
induction rules, whose operator parameter the provers cannot instantiate.

The inductive invariants are `MInv` and `TInv`. `ProjectsSpecMessages`
alone is not inductive, and two extra facts are needed:

* a callback runs only on an answer (`calledBack => answer # NoAnswer`), so
  a driver answer never lands on a consumer that has already been called
  back;
* rows are sequences of rows (`RowsTyped`), which the loop lemmas need.

`TInv` adds that without a failing toObjArray there is no error answer.
Both invariants were checked with TLC, with `MaxRows = 3` and both values
of `ToObjArrayFails`, before they were proved.

The proof exposed a flaw in the model. `QueryRowsCallback` was written as a
CASE with overlapping guards (rows and individual; rows). TLA+ gives such a
CASE the value of any arm whose guard holds, not the first. TLC evaluates
the first, so the runs could not show it. The arms now follow the code's
`node.multi == "individual"` branches exactly and are disjoint.
`RequestBuilder`'s `CASE Falsy(table) -> Warn [] ...` had the same overlap
and is now `IF Falsy(table) THEN Warn ELSE CASE ...`, as in the code's
`if (!table)`. All runs and proofs were re-checked after the change.

What stays with TLC:

* Liveness under fairness: `RunsComplete`, and the fairness conditions of
  `ImplementsLeakFreePoolUse`. TLAPS does not reason about `ENABLED` here.
* `NoLeak` for the admin and probe callers, which does not hold of the code
  (the violation runs).
* The builder on non-string filters, where it does not meet the spec.

## 9. Not modelled

* URL, TLS and credential handling, and the jar-file check: string
  formatting and I/O.
* Status and log texts: a UI sink.
* Mustache beyond the `{{topic}}` tag: other templates render as
  themselves.
* `testConnection`, `setInitialConnectionStatus`, `listlts` and
  `listderbytables`: never called.
* gaian.js's orchestrator: it duplicates the one modelled here. Its request
  construction is modelled in `RequestBuilder`.
* Timeouts: the code has none. The fairness assumes that the driver
  eventually answers, and a hung call is outside every liveness claim.
