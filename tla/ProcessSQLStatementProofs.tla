---------------------- MODULE ProcessSQLStatementProofs ----------------------
(***************************************************************************)
(* Proofs about ProcessSQLStatement for every value of the constants:      *)
(* the type invariant, and exclusive use of pooled connections by the      *)
(* interleaved callback chains of all three callers.                       *)
(***************************************************************************)
EXTENDS ProcessSQLStatement, TLAPS

-----------------------------------------------------------------------------
(* Type correctness. *)

LEMMA InitTypeOK == Init => TypeOK
BY ConstantsAssumption DEF Init, TypeOK, Stages, Requests, NoReq

LEMMA InputTypeOK ==
    ASSUME TypeOK, NEW r \in Runs, Input(r)
    PROVE  TypeOK'
<1>1. ASSUME NEW q \in Requests, Start(r, q) PROVE TypeOK'
    BY <1>1 DEF Start, TypeOK, Stages
<1>2. QED
    BY <1>1 DEF Input, QueryNodeInput, OutNodeInput, AdminListInput,
                ConfigNodeCreated, Requests

LEMMA CallbackTypeOK ==
    ASSUME TypeOK, ExclusiveUse, NEW r \in Runs, Callback(r)
    PROVE  TypeOK'
<1> USE DEF TypeOK, Stages, Holding, Ended
<1>0. pc[r] \in Holding => held[r] \in Conns
    BY DEF ExclusiveUse
<1>1. CASE ReserveCallback(r)
    BY <1>1 DEF ReserveCallback, PoolReserve
<1>2. CASE FlowOnCreateStatement(r)
    BY <1>2 DEF FlowOnCreateStatement, PoolReleaseThenPurge, poolVars
<1>3. CASE ConfigOnCreateStatement(r)
    BY <1>3 DEF ConfigOnCreateStatement
<1>4. CASE ProbeOnCreateStatement(r)
    BY <1>0, <1>4 DEF ProbeOnCreateStatement, PoolRelease, poolVars
<1>5. CASE FlowOnExecute(r)
    BY <1>0, <1>5 DEF FlowOnExecute, UpdateResultAction, PoolRelease, poolVars
<1>6. CASE ConfigOnExecute(r)
    BY <1>6 DEF ConfigOnExecute
<1>7. CASE FlowOnRows(r)
    BY <1>0, <1>7 DEF FlowOnRows, PoolRelease, poolVars
<1>8. CASE AdminOnRows(r)
    BY <1>8 DEF AdminOnRows
<1>9. QED
    BY <1>1, <1>2, <1>3, <1>4, <1>5, <1>6, <1>7, <1>8
    DEF Callback, FlowOnReserve, ConfigOnReserve, ProbeOnReserve

(* TypeOK alone is not inductive: a release puts held[r] into the pool,   *)
(* and that it is a connection and not NoConn follows from ExclusiveUse.   *)
LEMMA NextTypeOK == TypeOK /\ ExclusiveUse /\ [Next]_vars => TypeOK'
<1> SUFFICES ASSUME TypeOK, ExclusiveUse, [Next]_vars PROVE TypeOK'
    OBVIOUS
<1>1. CASE \E r \in Runs : Input(r) \/ Callback(r)
    BY <1>1, InputTypeOK, CallbackTypeOK
<1>2. CASE DBDown
    <2>1. outages' \in 0..MaxOutages
        BY <1>2, ConstantsAssumption DEF DBDown, TypeOK
    <2>2. broken' \subseteq Conns
        BY <1>2 DEF DBDown, TypeOK
    <2>3. QED
        BY <1>2, <2>1, <2>2 DEF DBDown, TypeOK
<1>3. CASE DBUp
    BY <1>3 DEF DBUp, TypeOK
<1>4. CASE UNCHANGED vars
    BY <1>4 DEF vars, TypeOK
<1>5. QED
    BY <1>1, <1>2, <1>3, <1>4 DEF Next

-----------------------------------------------------------------------------
(***************************************************************************)
(* Exclusive use.  ExclusiveUse alone is not inductive: a reserve hands    *)
(* out a connection that is idle or not open, and that such a connection   *)
(* is not held by a run follows only from the pool's bookkeeping, idle and *)
(* lent being disjoint (PoolConsistent).  A release returns the connection *)
(* of the releasing run only, and that run leaves the holding stages in    *)
(* the same step.                                                          *)
(***************************************************************************)

IInv == TypeOK /\ ExclusiveUse /\ PoolConsistent

LEMMA InitIInv == Init => IInv
BY InitTypeOK DEF Init, IInv, ExclusiveUse, PoolConsistent, Holding

(* A step that leaves the pool and every run's stage and connection as     *)
(* they were keeps IInv apart from the type.                              *)
LEMMA QuietStep ==
    ASSUME IInv, TypeOK',
           UNCHANGED <<pc, held, pooled, lent, doomed>>,
           broken' \subseteq pooled \cup lent
    PROVE  IInv'
BY DEF IInv, ExclusiveUse, PoolConsistent

(* A run r in a holding stage that gives its connection back and leaves   *)
(* the holding stages keeps IInv, whatever the pool does with the         *)
(* connection.                                                            *)
LEMMA LeaveWithRelease ==
    ASSUME IInv, TypeOK', NEW r \in Runs, pc[r] \in Holding,
           pc' = [pc EXCEPT ![r] = pc'[r]], pc'[r] \notin Holding,
           UNCHANGED held,
           lent' = lent \ {held[r]},
           PoolConsistent'
    PROVE  IInv'
<1> USE DEF IInv, ExclusiveUse, TypeOK
<1>1. ASSUME NEW s \in Runs, pc'[s] \in Holding PROVE held'[s] \in lent'
    <2>1. s # r /\ pc[s] \in Holding
        BY <1>1
    <2>2. held[s] # held[r]
        BY <2>1
    <2>3. QED
        BY <2>1, <2>2
<1>2. QED
    BY <1>1

(* A run r that leaves the holding stages without a release keeps IInv:   *)
(* its connection stays lent, and leaked.                                 *)
LEMMA LeaveWithoutRelease ==
    ASSUME IInv, TypeOK', NEW r \in Runs,
           pc' = [pc EXCEPT ![r] = pc'[r]], pc'[r] \notin Holding,
           UNCHANGED <<held, pooled, lent, broken, doomed>>
    PROVE  IInv'
BY DEF IInv, ExclusiveUse, PoolConsistent, TypeOK

(* A run moving between two holding stages, or out of "reserve" into an  *)
(* ended stage, with the pool untouched keeps IInv.                       *)
LEMMA StageOnly ==
    ASSUME IInv, TypeOK', NEW r \in Runs,
           pc' = [pc EXCEPT ![r] = pc'[r]],
           pc[r] \in Holding <=> pc'[r] \in Holding,
           UNCHANGED <<held, pooled, lent, broken, doomed>>
    PROVE  IInv'
BY DEF IInv, ExclusiveUse, PoolConsistent, TypeOK

LEMMA ReserveIInv ==
    ASSUME IInv, TypeOK', NEW r \in Runs, ReserveCallback(r)
    PROVE  IInv'
<1> USE DEF IInv, TypeOK
<1>1. pc[r] = "reserve" /\ pc[r] \notin Holding
    BY DEF ReserveCallback, Holding
<1>2. CASE PoolReserveFails /\ pc' = [pc EXCEPT ![r] = "done"]
           /\ UNCHANGED <<held, pooled, lent, broken, doomed>>
    BY <1>1, <1>2, StageOnly DEF Holding
<1>3. ASSUME NEW c \in Conns, PoolReserve(c),
             held' = [held EXCEPT ![r] = c],
             pc' = [pc EXCEPT ![r] = "create"]
      PROVE  IInv'
    <2>1. c \notin lent
        BY <1>3 DEF PoolReserve, PoolConsistent
    <2>2. \A s \in Runs : pc[s] \in Holding => held[s] # c
        BY <2>1 DEF ExclusiveUse
    <2>3. ExclusiveUse'
        BY <1>1, <1>3, <2>2 DEF ExclusiveUse, PoolReserve, Holding
    <2>4. PoolConsistent'
        BY <1>3 DEF PoolReserve, PoolConsistent
    <2>5. QED
        BY <2>3, <2>4
<1>4. QED
    BY <1>2, <1>3 DEF ReserveCallback

LEMMA CallbackIInv ==
    ASSUME IInv, TypeOK', NEW r \in Runs, Callback(r)
    PROVE  IInv'
<1> USE DEF IInv, TypeOK
<1>1. CASE ReserveCallback(r)
    BY <1>1, ReserveIInv
<1>2. CASE FlowOnCreateStatement(r)
    <2>1. CASE StatementFails(r) /\ PoolReleaseThenPurge(held[r])
               /\ pc' = [pc EXCEPT ![r] = "done"]
        <3>1. PoolConsistent'
            BY <2>1 DEF PoolReleaseThenPurge, PoolConsistent
        <3>2. QED
            BY <1>2, <2>1, <3>1, LeaveWithRelease
            DEF FlowOnCreateStatement, PoolReleaseThenPurge, Holding
    <2>4. CASE ~StatementFails(r) /\ pc' = [pc EXCEPT ![r] = "execute"]
               /\ UNCHANGED poolVars
        BY <1>2, <2>4, StageOnly DEF FlowOnCreateStatement, poolVars, Holding
    <2>5. QED
        BY <1>2, <2>1, <2>4 DEF FlowOnCreateStatement
<1>3. CASE ConfigOnCreateStatement(r)
    <2>1. CASE pc' = [pc EXCEPT ![r] = "threw"]
        BY <1>3, <2>1, LeaveWithoutRelease DEF ConfigOnCreateStatement, Holding
    <2>2. CASE pc' = [pc EXCEPT ![r] = "execute"]
        BY <1>3, <2>2, StageOnly DEF ConfigOnCreateStatement, Holding
    <2>3. QED
        BY <1>3, <2>1, <2>2 DEF ConfigOnCreateStatement
<1>4. CASE ProbeOnCreateStatement(r)
    <2>1. CASE pc' = [pc EXCEPT ![r] = "threw"] /\ UNCHANGED poolVars
        BY <1>4, <2>1, LeaveWithoutRelease
        DEF ProbeOnCreateStatement, Holding, poolVars
    <2>2. CASE PoolRelease(held[r]) /\ pc' = [pc EXCEPT ![r] = "done"]
        <3>1. PoolConsistent'
            BY <2>2 DEF PoolRelease, PoolConsistent
        <3>2. QED
            BY <1>4, <2>2, <3>1, LeaveWithRelease
            DEF ProbeOnCreateStatement, PoolRelease, Holding
    <2>5. QED
        BY <1>4, <2>1, <2>2 DEF ProbeOnCreateStatement
<1>5. CASE FlowOnExecute(r)
    <2>1. CASE PoolRelease(held[r]) /\ pc' = [pc EXCEPT ![r] = "done"]
        <3>1. PoolConsistent'
            BY <2>1 DEF PoolRelease, PoolConsistent
        <3>2. QED
            BY <1>5, <2>1, <3>1, LeaveWithRelease
            DEF FlowOnExecute, PoolRelease, Holding
    <2>4. CASE pc' = [pc EXCEPT ![r] = "convert"] /\ UNCHANGED poolVars
        BY <1>5, <2>4, StageOnly DEF FlowOnExecute, poolVars, Holding
    <2>5. QED
        BY <1>5, <2>1, <2>4 DEF FlowOnExecute, UpdateResultAction
<1>6. CASE ConfigOnExecute(r)
    <2>1. CASE pc' = [pc EXCEPT ![r] = "threw"]
        BY <1>6, <2>1, LeaveWithoutRelease DEF ConfigOnExecute, Holding
    <2>2. CASE pc' = [pc EXCEPT ![r] = "convert"]
        BY <1>6, <2>2, StageOnly DEF ConfigOnExecute, Holding
    <2>3. QED
        BY <1>6, <2>1, <2>2 DEF ConfigOnExecute
<1>7. CASE FlowOnRows(r)
    <2>1. CASE PoolRelease(held[r]) /\ pc' = [pc EXCEPT ![r] = "done"]
        <3>1. PoolConsistent'
            BY <2>1 DEF PoolRelease, PoolConsistent
        <3>2. QED
            BY <1>7, <2>1, <3>1, LeaveWithRelease
            DEF FlowOnRows, PoolRelease, Holding
    <2>4. CASE pc' = [pc EXCEPT ![r] = "threw"] /\ UNCHANGED poolVars
        BY <1>7, <2>4, LeaveWithoutRelease DEF FlowOnRows, poolVars, Holding
    <2>5. QED
        BY <1>7, <2>1, <2>4 DEF FlowOnRows
<1>8. CASE AdminOnRows(r)
    BY <1>8, LeaveWithoutRelease DEF AdminOnRows, Holding
<1>9. QED
    BY <1>1, <1>2, <1>3, <1>4, <1>5, <1>6, <1>7, <1>8
    DEF Callback, FlowOnReserve, ConfigOnReserve, ProbeOnReserve

LEMMA NextIInv == IInv /\ [Next]_vars => IInv'
<1> SUFFICES ASSUME IInv, [Next]_vars PROVE IInv'
    OBVIOUS
<1>1. TypeOK'
    BY NextTypeOK DEF IInv
<1>2. CASE \E r \in Runs : Callback(r)
    BY <1>1, <1>2, CallbackIInv
<1>3. ASSUME NEW r \in Runs, Input(r) PROVE IInv'
    <2>1. pc[r] = "idle" /\ pc' = [pc EXCEPT ![r] = "reserve"]
          /\ UNCHANGED <<held, pooled, lent, broken, doomed>>
        BY <1>3 DEF Input, QueryNodeInput, OutNodeInput, AdminListInput,
                    ConfigNodeCreated, Start
    <2>2. QED
        BY <1>1, <2>1, StageOnly DEF Holding, IInv, TypeOK
<1>4. CASE DBDown
    BY <1>1, <1>4, QuietStep DEF DBDown
<1>5. CASE DBUp
    BY <1>1, <1>5, QuietStep DEF DBUp, IInv, PoolConsistent
<1>6. CASE UNCHANGED vars
    BY <1>6 DEF vars, IInv, TypeOK, ExclusiveUse, PoolConsistent
<1>7. QED
    BY <1>2, <1>3, <1>4, <1>5, <1>6 DEF Next

(* Connections are used exclusively: in every reachable state each run    *)
(* that waits on a callback holds a connection the pool counts as lent,   *)
(* and no two such runs hold the same connection.                         *)
THEOREM ExclusiveUseHolds == Spec => []ExclusiveUse
<1>1. IInv => ExclusiveUse
    BY DEF IInv
<1>2. QED
    BY InitIInv, NextIInv, <1>1, PTL DEF Spec

(* Every reachable state is well typed. *)
THEOREM TypeCorrect == Spec => []TypeOK
<1>1. IInv => TypeOK
    BY DEF IInv
<1>2. QED
    BY InitIInv, NextIInv, <1>1, PTL DEF Spec

=============================================================================
