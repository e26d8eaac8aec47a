------------------------- MODULE ProcessSQLStatement -------------------------
(***************************************************************************)
(* The connection-pooled statement execution of node-red-node-gaiandb      *)
(* (src/node-red-node-gaiandb/src/gaiandb.js).  Every SQL statement runs   *)
(* as a chain of asynchronous callbacks on Node's single event loop:       *)
(*   reserve -> createStatement -> executeQuery/Update -> toObjArray       *)
(* and must give its connection back with jdbc.release.  Three callers    *)
(* drive that chain against one shared pool:                               *)
(*   "flow"   processSQLStatement, used by the gaiandb in/out/sql nodes;   *)
(*   "config" processConfigSQLStatement, used by the admin table lists;    *)
(*   "probe"  testConfigConnection, run when the config node is created.   *)
(* A run r is one call of one of them.  Each callback runs to completion   *)
(* before the next one starts, so each is one atomic action; an exception  *)
(* thrown inside a callback ends it early (pc = "threw").                  *)
(*                                                                         *)
(* The pool (node-jdbc, not part of this repository) is modelled from the  *)
(* spec: bounded by Conns, reserve blocks when every connection is lent,   *)
(* and purge discards the idle connections and marks the lent ones to be   *)
(* discarded when they come back.  The database may go down, which breaks  *)
(* every open connection, and come back up.                                *)
(***************************************************************************)
EXTENDS Naturals

CONSTANTS
    Runs,            \* the calls of the three callers that the model lets happen
    Conns,           \* the connection slots of the pool (maxpoolsize)
    NoConn,          \* a run that holds no connection
    Callers,         \* which callers may start runs in this model
    MaxOutages,      \* bound on database outages
    ToObjArrayFails  \* whether resultset.toObjArray may report an error

ASSUME ConstantsAssumption ==
    /\ NoConn \notin Conns
    /\ Callers \subseteq {"flow", "config", "probe"}
    /\ MaxOutages \in Nat
    /\ ToObjArrayFails \in BOOLEAN

VARIABLES
    pc,       \* pc[r]: the callback run r waits for, or how it ended
    req,      \* req[r]: the caller of r and the statement kind it submits
    held,     \* held[r]: the connObj captured by r's callbacks
    pooled,   \* the idle connections of the pool
    lent,     \* the connections the pool has handed out and not got back
    broken,   \* open connections whose database session has died
    doomed,   \* lent connections that a purge condemned
    dbUp,     \* whether the Gaian database is reachable
    outages   \* the number of outages so far

poolVars == <<pooled, lent, broken, doomed>>
envVars  == <<dbUp, outages>>
vars     == <<pc, req, held, pooled, lent, broken, doomed, dbUp, outages>>

(* The stages in which a run has a connection from the pool. *)
Holding == {"create", "execute", "convert"}

(* How a run may end: every callback finished, or one of them threw. *)
Ended == {"done", "threw"}

Stages == {"idle", "reserve"} \cup Holding \cup Ended

NoReq == [caller |-> "none", type |-> "none", multi |-> "none"]

Requests ==
    [caller : {"flow", "config", "probe"}, type : {"Query", "Update"},
     multi : {"individual", "batch"}] \cup {NoReq}

-----------------------------------------------------------------------------
(***************************************************************************)
(* The pool and the database (spec sections 2, 3 and 5).                   *)
(***************************************************************************)

(* reserve() hands out an idle connection, or opens a new one when the     *)
(* pool is below maxpoolsize and the database answers.                     *)
PoolReserve(c) ==
    /\ \/ c \in pooled
       \/ dbUp /\ c \notin pooled \cup lent
    /\ pooled' = pooled \ {c}
    /\ lent' = lent \cup {c}
    /\ UNCHANGED <<broken, doomed>>

(* reserve() reports an error when it can neither reuse nor open one. *)
PoolReserveFails ==
    /\ pooled = {}
    /\ ~dbUp

(* release(c): a condemned connection is closed, any other becomes idle. *)
PoolRelease(c) ==
    /\ lent' = lent \ {c}
    /\ pooled' = IF c \in doomed THEN pooled ELSE pooled \cup {c}
    /\ broken' = IF c \in doomed THEN broken \ {c} ELSE broken
    /\ doomed' = doomed \ {c}

(* release(c) followed by purge(): every idle connection is closed and the *)
(* ones still lent are condemned.                                          *)
PoolReleaseThenPurge(c) ==
    /\ lent' = lent \ {c}
    /\ pooled' = {}
    /\ broken' = broken \cap (lent \ {c})
    /\ doomed' = lent \ {c}

(* The database goes down: every open connection is now unusable. *)
DBDown ==
    /\ dbUp
    /\ outages < MaxOutages
    /\ dbUp' = FALSE
    /\ outages' = outages + 1
    /\ broken' = pooled \cup lent
    /\ UNCHANGED <<pc, req, held, pooled, lent, doomed>>

DBUp ==
    /\ ~dbUp
    /\ dbUp' = TRUE
    /\ UNCHANGED <<pc, req, held, pooled, lent, broken, doomed, outages>>

-----------------------------------------------------------------------------
(***************************************************************************)
(* Starting a run: an input message or an admin request reaches the code   *)
(* that calls jdbc.reserve.  Building the SQL text is abstracted away; a   *)
(* message for which no SQL is built starts no run.                        *)
(***************************************************************************)

Start(r, q) ==
    /\ q.caller \in Callers
    /\ pc[r] = "idle"
    /\ pc' = [pc EXCEPT ![r] = "reserve"]
    /\ req' = [req EXCEPT ![r] = q]
    /\ UNCHANGED <<held, pooled, lent, broken, doomed, dbUp, outages>>

(* "gaiandb in" and "gaiandb sql" nodes: a query, fanned out per node.multi. *)
QueryNodeInput(r) ==
    \E m \in {"individual", "batch"} :
        Start(r, [caller |-> "flow", type |-> "Query", multi |-> m])

(* "gaiandb out" node: an insert, update or delete. *)
OutNodeInput(r) ==
    Start(r, [caller |-> "flow", type |-> "Update", multi |-> "batch"])

(* GET /gaiandb/lts or /gaiandb/tables with a known config node id. *)
AdminListInput(r) ==
    Start(r, [caller |-> "config", type |-> "Query", multi |-> "batch"])

(* The config node's constructor probes the database once. *)
ConfigNodeCreated(r) ==
    /\ \A s \in Runs : req[s].caller # "probe"
    /\ Start(r, [caller |-> "probe", type |-> "Query", multi |-> "batch"])

-----------------------------------------------------------------------------
(***************************************************************************)
(* The callbacks.                                                          *)
(***************************************************************************)

(* Fault variant of ReserveCallback: the error branch also calls         *)
(* releaseConnection, on a connObj the pool never handed out.             *)
ReserveCallbackReleaseOnError(r) ==
    /\ pc[r] = "reserve"
    /\ \/ /\ PoolReserveFails
          /\ PoolRelease(held[r])
          /\ pc' = [pc EXCEPT ![r] = "done"]
          /\ UNCHANGED held
       \/ \E c \in Conns :
             /\ PoolReserve(c)
             /\ held' = [held EXCEPT ![r] = c]
             /\ pc' = [pc EXCEPT ![r] = "create"]
    /\ UNCHANGED <<req, dbUp, outages>>

(* Fault variant of ReserveCallback: a connection is handed out but the    *)
(* else-if (connObj) branch is not taken, so the run ends without using or *)
(* releasing it.                                                           *)
ReserveCallbackDropsConnection(r) ==
    /\ pc[r] = "reserve"
    /\ \/ /\ PoolReserveFails
          /\ pc' = [pc EXCEPT ![r] = "done"]
          /\ UNCHANGED <<held, pooled, lent, broken, doomed>>
       \/ \E c \in Conns :
             /\ PoolReserve(c)
             /\ held' = [held EXCEPT ![r] = c]
             /\ pc' = [pc EXCEPT ![r] = "done"]
    /\ UNCHANGED <<req, dbUp, outages>>

(* The reserve callback, common to the three callers: on an error only a   *)
(* status is reported; with a connection, createStatement is called.      *)
ReserveCallback(r) ==
    /\ pc[r] = "reserve"
    /\ \/ /\ PoolReserveFails
          /\ pc' = [pc EXCEPT ![r] = "done"]
          /\ UNCHANGED <<held, pooled, lent, broken, doomed>>
       \/ \E c \in Conns :
             /\ PoolReserve(c)
             /\ held' = [held EXCEPT ![r] = c]
             /\ pc' = [pc EXCEPT ![r] = "create"]
    /\ UNCHANGED <<req, dbUp, outages>>

FlowOnReserve(r) == req[r].caller = "flow" /\ ReserveCallback(r)

ConfigOnReserve(r) == req[r].caller = "config" /\ ReserveCallback(r)

ProbeOnReserve(r) == req[r].caller = "probe" /\ ReserveCallback(r)

(* createStatement fails exactly on a connection whose session is dead. *)
StatementFails(r) == held[r] \in broken

(* Fault variant of FlowOnCreateStatement: the failure branch purges but  *)
(* forgets releaseConnection.                                             *)
FlowOnCreateStatementNoRelease(r) ==
    /\ pc[r] = "create"
    /\ req[r].caller = "flow"
    /\ \/ /\ StatementFails(r)
          /\ pooled' = {}
          /\ broken' = broken \cap lent
          /\ doomed' = lent
          /\ pc' = [pc EXCEPT ![r] = "done"]
          /\ UNCHANGED lent
       \/ /\ ~StatementFails(r)
          /\ pc' = [pc EXCEPT ![r] = "execute"]
          /\ UNCHANGED poolVars
    /\ UNCHANGED <<req, held, dbUp, outages>>

(* Fault variant of FlowOnCreateStatement: the type dispatch recognises  *)
(* only "Query", so an update statement is never executed and its run     *)
(* waits for a callback that never comes.                                 *)
FlowOnCreateStatementQueryOnly(r) ==
    /\ pc[r] = "create"
    /\ req[r].caller = "flow"
    /\ \/ /\ StatementFails(r)
          /\ PoolReleaseThenPurge(held[r])
          /\ pc' = [pc EXCEPT ![r] = "done"]
       \/ /\ ~StatementFails(r)
          /\ req[r].type = "Query"
          /\ pc' = [pc EXCEPT ![r] = "execute"]
          /\ UNCHANGED poolVars
    /\ UNCHANGED <<req, held, dbUp, outages>>

(* processSQLStatement: on failure report "disconnected", release, purge. *)
FlowOnCreateStatement(r) ==
    /\ pc[r] = "create"
    /\ req[r].caller = "flow"
    /\ \/ /\ StatementFails(r)
          /\ PoolReleaseThenPurge(held[r])
          /\ pc' = [pc EXCEPT ![r] = "done"]
       \/ /\ ~StatementFails(r)
          /\ pc' = [pc EXCEPT ![r] = "execute"]
          /\ UNCHANGED poolVars
    /\ UNCHANGED <<req, held, dbUp, outages>>

(* processConfigSQLStatement: on failure errorAction answers the request,  *)
(* then releaseConnection(configNode, ...) reads configNode.gaianConfig,   *)
(* which a config node does not have, and throws before release or purge. *)
ConfigOnCreateStatement(r) ==
    /\ pc[r] = "create"
    /\ req[r].caller = "config"
    /\ \/ /\ StatementFails(r)
          /\ pc' = [pc EXCEPT ![r] = "threw"]
       \/ /\ ~StatementFails(r)
          /\ pc' = [pc EXCEPT ![r] = "execute"]
    /\ UNCHANGED <<req, held, pooled, lent, broken, doomed, dbUp, outages>>

(* testConfigConnection: on success set connected and release; on failure *)
(* the call node.error(...) names no variable in scope and throws before   *)
(* the release.                                                           *)
ProbeOnCreateStatement(r) ==
    /\ pc[r] = "create"
    /\ req[r].caller = "probe"
    /\ \/ /\ StatementFails(r)
          /\ pc' = [pc EXCEPT ![r] = "threw"]
          /\ UNCHANGED poolVars
       \/ /\ ~StatementFails(r)
          /\ PoolRelease(held[r])
          /\ pc' = [pc EXCEPT ![r] = "done"]
    /\ UNCHANGED <<req, held, dbUp, outages>>

(* updateResultAction: the affected-row count is sent and the connection *)
(* released.                                                              *)
UpdateResultAction(r) ==
    /\ PoolRelease(held[r])
    /\ pc' = [pc EXCEPT ![r] = "done"]

(* Fault variant of FlowOnExecute: the connection is released as soon as *)
(* the query returns, before toObjArray has read the rows.                *)
FlowOnExecuteEarlyRelease(r) ==
    /\ pc[r] = "execute"
    /\ req[r].caller = "flow"
    /\ \/ /\ PoolRelease(held[r])
          /\ pc' = [pc EXCEPT ![r] = "done"]
       \/ /\ held[r] \notin broken
          /\ req[r].type = "Update"
          /\ UpdateResultAction(r)
       \/ /\ held[r] \notin broken
          /\ req[r].type = "Query"
          /\ PoolRelease(held[r])
          /\ pc' = [pc EXCEPT ![r] = "convert"]
    /\ UNCHANGED <<req, held, dbUp, outages>>

(* queryHandler of processSQLStatement: an error reports "failed" and      *)
(* releases; a result reports "connected" and runs the result action,     *)
(* which for an update sends the count and releases, and for a query asks  *)
(* for the rows with toObjArray.                                           *)
FlowOnExecute(r) ==
    /\ pc[r] = "execute"
    /\ req[r].caller = "flow"
    /\ \/ /\ PoolRelease(held[r])
          /\ pc' = [pc EXCEPT ![r] = "done"]
       \/ /\ held[r] \notin broken
          /\ req[r].type = "Update"
          /\ UpdateResultAction(r)
       \/ /\ held[r] \notin broken
          /\ req[r].type = "Query"
          /\ pc' = [pc EXCEPT ![r] = "convert"]
          /\ UNCHANGED poolVars
    /\ UNCHANGED <<req, held, dbUp, outages>>

(* queryHandler of processConfigSQLStatement: an error calls errorAction   *)
(* and then throws in releaseConnection; a result asks for the rows.       *)
ConfigOnExecute(r) ==
    /\ pc[r] = "execute"
    /\ req[r].caller = "config"
    /\ \/ pc' = [pc EXCEPT ![r] = "threw"]
       \/ /\ held[r] \notin broken
          /\ pc' = [pc EXCEPT ![r] = "convert"]
    /\ UNCHANGED <<req, held, pooled, lent, broken, doomed, dbUp, outages>>

(* queryResultAction's toObjArray callback: the rows are sent and the      *)
(* connection released.  On an error results is undefined: in individual  *)
(* mode results.length throws before the release, in batch mode an        *)
(* undefined payload is sent and the connection released.                 *)
FlowOnRows(r) ==
    /\ pc[r] = "convert"
    /\ req[r].caller = "flow"
    /\ \/ /\ PoolRelease(held[r])
          /\ pc' = [pc EXCEPT ![r] = "done"]
       \/ /\ ToObjArrayFails
          /\ req[r].multi = "individual"
          /\ pc' = [pc EXCEPT ![r] = "threw"]
          /\ UNCHANGED poolVars
    /\ UNCHANGED <<req, held, dbUp, outages>>

(* The admin endpoints' result action: the filtered table list is sent    *)
(* with res.json and the callback ends without releasing the connection.  *)
(* On an error results.length throws and the request is never answered.   *)
AdminOnRows(r) ==
    /\ pc[r] = "convert"
    /\ req[r].caller = "config"
    /\ \/ pc' = [pc EXCEPT ![r] = "done"]
       \/ /\ ToObjArrayFails
          /\ pc' = [pc EXCEPT ![r] = "threw"]
    /\ UNCHANGED <<req, held, pooled, lent, broken, doomed, dbUp, outages>>

-----------------------------------------------------------------------------

Init ==
    /\ pc = [r \in Runs |-> "idle"]
    /\ req = [r \in Runs |-> NoReq]
    /\ held = [r \in Runs |-> NoConn]
    /\ pooled = {}
    /\ lent = {}
    /\ broken = {}
    /\ doomed = {}
    /\ dbUp = TRUE
    /\ outages = 0

Input(r) ==
    \/ QueryNodeInput(r)
    \/ OutNodeInput(r)
    \/ AdminListInput(r)
    \/ ConfigNodeCreated(r)

(* The callbacks the event loop runs for run r once the pool or the driver *)
(* has answered.                                                           *)
Callback(r) ==
    \/ FlowOnReserve(r)
    \/ ConfigOnReserve(r)
    \/ ProbeOnReserve(r)
    \/ FlowOnCreateStatement(r)
    \/ ConfigOnCreateStatement(r)
    \/ ProbeOnCreateStatement(r)
    \/ FlowOnExecute(r)
    \/ ConfigOnExecute(r)
    \/ FlowOnRows(r)
    \/ AdminOnRows(r)

Next ==
    \/ \E r \in Runs : Input(r) \/ Callback(r)
    \/ DBDown
    \/ DBUp

(* Messages need not arrive and the database need not fail or recover, but *)
(* a pending callback of a run is eventually run.                          *)
Fairness == \A r \in Runs : WF_vars(Callback(r))

Spec == Init /\ [][Next]_vars /\ Fairness

-----------------------------------------------------------------------------
(***************************************************************************)
(* Properties.                                                             *)
(***************************************************************************)

TypeOK ==
    /\ pc \in [Runs -> Stages]
    /\ req \in [Runs -> Requests]
    /\ held \in [Runs -> Conns \cup {NoConn}]
    /\ pooled \subseteq Conns
    /\ lent \subseteq Conns
    /\ broken \subseteq Conns
    /\ doomed \subseteq Conns
    /\ dbUp \in BOOLEAN
    /\ outages \in 0..MaxOutages

(* Exclusive use, across interleaved runs of every caller: a run that is   *)
(* between its reserve callback and its last callback holds a connection  *)
(* that the pool counts as lent, and no two such runs hold the same one.   *)
(* A release that happens too early or twice breaks it.                    *)
ExclusiveUse ==
    /\ \A r \in Runs : pc[r] \in Holding => held[r] \in lent
    /\ \A r, s \in Runs :
          (r # s /\ pc[r] \in Holding /\ pc[s] \in Holding) => held[r] # held[s]

(* The pool's own bookkeeping stays consistent under every interleaving:  *)
(* an idle connection is not also lent, only open connections can be      *)
(* broken, and only lent ones are condemned.                              *)
PoolConsistent ==
    /\ pooled \cap lent = {}
    /\ broken \subseteq pooled \cup lent
    /\ doomed \subseteq lent

(* No leak (spec section 8: every run that reserves a connection releases  *)
(* it): every connection the pool counts as lent is held by a run that is  *)
(* still waiting for one of its callbacks.                                 *)
NoLeak ==
    \A c \in lent : \E r \in Runs : pc[r] \in Holding /\ held[r] = c

(* Every run that has called reserve eventually finishes its callback     *)
(* chain: no run waits for ever on a pool whose connections were leaked.   *)
RunsComplete ==
    \A r \in Runs : (pc[r] = "reserve") ~> (pc[r] \in Ended)

-----------------------------------------------------------------------------
(***************************************************************************)
(* Refinement: the callback chains seen as uses of the pool.  A run waits  *)
(* while reserve is pending, holds its connection through createStatement, *)
(* execute and toObjArray, and is finished once it has ended; the pool's   *)
(* lent set is what PoolUse calls taken.  Purges, outages and the steps    *)
(* between two callbacks of a holding run are stuttering steps.            *)
(***************************************************************************)

PoolStage ==
    [r \in Runs |-> CASE pc[r] = "idle"    -> "idle"
                    [] pc[r] = "reserve" -> "waiting"
                    [] pc[r] \in Holding -> "holding"
                    [] OTHER             -> "finished"]

PU == INSTANCE PoolUse WITH stage <- PoolStage, conn <- held, taken <- lent

(* Every caller of the pool -- flow nodes, admin endpoints and the probe,  *)
(* interleaved, with purges and outages -- follows the pool protocol: a    *)
(* connection is handed only to a waiting run and only when no run holds   *)
(* it, and a run gives back exactly the connection it got, at most once.   *)
ImplementsPoolUse == PU!Spec

(* The flow nodes follow the leak-free protocol of spec 4.2 item 4: no run *)
(* ends holding its connection, every reserve is settled, and every held   *)
(* connection is given back, under fair callbacks.                         *)
ImplementsLeakFreePoolUse == PU!LeakFreeSpec

=============================================================================
