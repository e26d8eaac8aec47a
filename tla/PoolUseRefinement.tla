-------------------------- MODULE PoolUseRefinement --------------------------
(***************************************************************************)
(* Proof that the callback chains of ProcessSQLStatement implement the     *)
(* pool protocol PoolUse under the mapping PoolStage, held, lent.  Each    *)
(* concrete step is one protocol step of one run or a stutter; the only    *)
(* step that needs more than the step's own text is the grant in reserve's *)
(* callback, which is an Acquire only because the connection handed out is *)
(* not lent -- a fact of PoolConsistent, part of the inductive invariant   *)
(* IInv proved in ProcessSQLStatementProofs.                               *)
(***************************************************************************)
EXTENDS ProcessSQLStatementProofs

-----------------------------------------------------------------------------
(* How one run's stage change maps to a step of PoolUse. *)

LEMMA ToRequest ==
    ASSUME TypeOK, NEW r \in Runs, pc[r] = "idle",
           pc' = [pc EXCEPT ![r] = "reserve"], UNCHANGED <<held, lent>>
    PROVE  PU!Request(r)
BY DEF PU!Request, PoolStage, TypeOK, Stages, Holding

LEMMA ToDeny ==
    ASSUME TypeOK, NEW r \in Runs, pc[r] = "reserve",
           pc' = [pc EXCEPT ![r] = "done"], UNCHANGED <<held, lent>>
    PROVE  PU!Deny(r)
BY DEF PU!Deny, PoolStage, TypeOK, Stages, Holding

LEMMA ToAcquire ==
    ASSUME TypeOK, NEW r \in Runs, pc[r] = "reserve",
           NEW c \in Conns \ lent,
           pc' = [pc EXCEPT ![r] = "create"],
           held' = [held EXCEPT ![r] = c], lent' = lent \cup {c}
    PROVE  PU!Acquire(r, c)
BY DEF PU!Acquire, PoolStage, TypeOK, Stages, Holding

LEMMA ToRelease ==
    ASSUME TypeOK, NEW r \in Runs, pc[r] \in Holding,
           NEW e \in Ended, pc' = [pc EXCEPT ![r] = e],
           UNCHANGED held, lent' = lent \ {held[r]}
    PROVE  PU!Release(r)
BY DEF PU!Release, PoolStage, TypeOK, Stages, Holding, Ended

LEMMA ToAbandon ==
    ASSUME TypeOK, NEW r \in Runs, pc[r] \in Holding,
           NEW e \in Ended, pc' = [pc EXCEPT ![r] = e],
           UNCHANGED <<held, lent>>
    PROVE  PU!Abandon(r)
BY DEF PU!Abandon, PoolStage, TypeOK, Stages, Holding, Ended

(* A holding run moving to another holding stage is invisible to PoolUse. *)
LEMMA Hidden ==
    ASSUME TypeOK, NEW r \in Runs, pc[r] \in Holding,
           NEW h \in Holding, pc' = [pc EXCEPT ![r] = h],
           UNCHANGED <<held, lent>>
    PROVE  UNCHANGED PU!vars
BY DEF PU!vars, PoolStage, TypeOK, Stages, Holding

(* Each protocol step of one run is a step of PoolUse's Next. *)
LEMMA RunStep ==
    ASSUME NEW r \in Runs,
           \/ PU!Request(r) \/ PU!Deny(r) \/ PU!Release(r) \/ PU!Abandon(r)
           \/ \E c \in Conns : PU!Acquire(r, c)
    PROVE  PU!Next
BY DEF PU!Next, PU!Settle

-----------------------------------------------------------------------------

LEMMA ReserveRefines ==
    ASSUME IInv, NEW r \in Runs, ReserveCallback(r)
    PROVE  [PU!Next]_PU!vars
<1> USE DEF IInv
<1>1. CASE PoolReserveFails /\ pc' = [pc EXCEPT ![r] = "done"]
           /\ UNCHANGED <<held, pooled, lent, broken, doomed>>
    BY <1>1, ToDeny, RunStep DEF ReserveCallback
<1>2. ASSUME NEW c \in Conns, PoolReserve(c),
             held' = [held EXCEPT ![r] = c],
             pc' = [pc EXCEPT ![r] = "create"]
      PROVE  [PU!Next]_PU!vars
    <2>1. c \in Conns \ lent /\ lent' = lent \cup {c}
        BY <1>2 DEF PoolReserve, PoolConsistent
    <2>2. QED
        BY <1>2, <2>1, ToAcquire, RunStep DEF ReserveCallback
<1>3. QED
    BY <1>1, <1>2 DEF ReserveCallback

LEMMA CallbackRefines ==
    ASSUME IInv, NEW r \in Runs, Callback(r)
    PROVE  [PU!Next]_PU!vars
<1> USE DEF IInv
<1>1. CASE ReserveCallback(r)
    BY <1>1, ReserveRefines
<1>2. CASE FlowOnCreateStatement(r)
    <2>1. CASE StatementFails(r) /\ PoolReleaseThenPurge(held[r])
               /\ pc' = [pc EXCEPT ![r] = "done"]
        BY <1>2, <2>1, ToRelease, RunStep
        DEF FlowOnCreateStatement, PoolReleaseThenPurge, Holding, Ended
    <2>2. CASE ~StatementFails(r) /\ pc' = [pc EXCEPT ![r] = "execute"]
               /\ UNCHANGED poolVars
        BY <1>2, <2>2, Hidden DEF FlowOnCreateStatement, poolVars, Holding
    <2>3. QED
        BY <1>2, <2>1, <2>2 DEF FlowOnCreateStatement
<1>3. CASE ConfigOnCreateStatement(r)
    <2>1. CASE pc' = [pc EXCEPT ![r] = "threw"]
        BY <1>3, <2>1, ToAbandon, RunStep DEF ConfigOnCreateStatement, Holding, Ended
    <2>2. CASE pc' = [pc EXCEPT ![r] = "execute"]
        BY <1>3, <2>2, Hidden DEF ConfigOnCreateStatement, Holding
    <2>3. QED
        BY <1>3, <2>1, <2>2 DEF ConfigOnCreateStatement
<1>4. CASE ProbeOnCreateStatement(r)
    <2>1. CASE pc' = [pc EXCEPT ![r] = "threw"] /\ UNCHANGED poolVars
        BY <1>4, <2>1, ToAbandon, RunStep
        DEF ProbeOnCreateStatement, Holding, Ended, poolVars
    <2>2. CASE PoolRelease(held[r]) /\ pc' = [pc EXCEPT ![r] = "done"]
        BY <1>4, <2>2, ToRelease, RunStep
        DEF ProbeOnCreateStatement, PoolRelease, Holding, Ended
    <2>3. QED
        BY <1>4, <2>1, <2>2 DEF ProbeOnCreateStatement
<1>5. CASE FlowOnExecute(r)
    <2>1. CASE PoolRelease(held[r]) /\ pc' = [pc EXCEPT ![r] = "done"]
        BY <1>5, <2>1, ToRelease, RunStep
        DEF FlowOnExecute, PoolRelease, Holding, Ended
    <2>2. CASE pc' = [pc EXCEPT ![r] = "convert"] /\ UNCHANGED poolVars
        BY <1>5, <2>2, Hidden DEF FlowOnExecute, poolVars, Holding
    <2>3. QED
        BY <1>5, <2>1, <2>2 DEF FlowOnExecute, UpdateResultAction
<1>6. CASE ConfigOnExecute(r)
    <2>1. CASE pc' = [pc EXCEPT ![r] = "threw"]
        BY <1>6, <2>1, ToAbandon, RunStep DEF ConfigOnExecute, Holding, Ended
    <2>2. CASE pc' = [pc EXCEPT ![r] = "convert"]
        BY <1>6, <2>2, Hidden DEF ConfigOnExecute, Holding
    <2>3. QED
        BY <1>6, <2>1, <2>2 DEF ConfigOnExecute
<1>7. CASE FlowOnRows(r)
    <2>1. CASE PoolRelease(held[r]) /\ pc' = [pc EXCEPT ![r] = "done"]
        BY <1>7, <2>1, ToRelease, RunStep
        DEF FlowOnRows, PoolRelease, Holding, Ended
    <2>2. CASE pc' = [pc EXCEPT ![r] = "threw"] /\ UNCHANGED poolVars
        BY <1>7, <2>2, ToAbandon, RunStep DEF FlowOnRows, poolVars, Holding, Ended
    <2>3. QED
        BY <1>7, <2>1, <2>2 DEF FlowOnRows
<1>8. CASE AdminOnRows(r)
    BY <1>8, ToAbandon, RunStep DEF AdminOnRows, Holding, Ended
<1>9. QED
    BY <1>1, <1>2, <1>3, <1>4, <1>5, <1>6, <1>7, <1>8
    DEF Callback, FlowOnReserve, ConfigOnReserve, ProbeOnReserve

LEMMA StepRefines == IInv /\ [Next]_vars => [PU!Next]_PU!vars
<1> SUFFICES ASSUME IInv, [Next]_vars PROVE [PU!Next]_PU!vars
    OBVIOUS
<1>1. CASE \E r \in Runs : Callback(r)
    BY <1>1, CallbackRefines
<1>2. ASSUME NEW r \in Runs, Input(r) PROVE [PU!Next]_PU!vars
    <2>1. pc[r] = "idle" /\ pc' = [pc EXCEPT ![r] = "reserve"]
          /\ UNCHANGED <<held, lent>>
        BY <1>2 DEF Input, QueryNodeInput, OutNodeInput, AdminListInput,
                    ConfigNodeCreated, Start
    <2>2. QED
        BY <2>1, ToRequest, RunStep DEF IInv
<1>3. CASE DBDown \/ DBUp \/ UNCHANGED vars
    BY <1>3 DEF DBDown, DBUp, vars, PU!vars, PoolStage
<1>4. QED
    BY <1>1, <1>2, <1>3 DEF Next

(* Every caller of the pool, for every number of runs and connections,    *)
(* follows the pool protocol (the property ImplementsPoolUse): reserve's   *)
(* callback hands a run only a connection no other run holds, and every    *)
(* release gives back the connection the run was handed.                   *)
THEOREM RefinesPoolUse == Spec => ImplementsPoolUse
<1>1. Init => PU!Init
    BY DEF Init, PU!Init, PoolStage, Holding
<1>2. QED
    BY <1>1, InitIInv, NextIInv, StepRefines, PTL
    DEF Spec, ImplementsPoolUse, PU!Spec
=============================================================================
