--------------------------- MODULE FlowNoLeakProofs ---------------------------
(***************************************************************************)
(* Proof that the flow nodes never leak a connection when toObjArray does  *)
(* not fail: every connection the pool counts as lent is held by a run     *)
(* still waiting for one of its callbacks.  Three violation runs show that *)
(* NoLeak fails for the admin endpoints, for the probe and for a failing   *)
(* toObjArray; this is the case in which the code keeps the promise of     *)
(* spec 4.2 item 4.                                                        *)
(*                                                                         *)
(* NoLeak is not inductive alone: a release drops held[r] from lent, and   *)
(* that no other holding run counted on the same connection is             *)
(* ExclusiveUse; a callback of another caller would end a run without a   *)
(* release, and that no run has such a caller is RequestsFromCallers.      *)
(***************************************************************************)
EXTENDS PoolUseRefinement

(* Every run was started by one of the callers the model deploys. *)
RequestsFromCallers == \A r \in Runs : req[r].caller \in Callers \cup {"none"}

LInv == IInv /\ NoLeak /\ RequestsFromCallers

LEMMA InitLInv == Init => LInv
BY InitIInv DEF Init, LInv, NoLeak, RequestsFromCallers, NoReq

-----------------------------------------------------------------------------
(* How one run's step keeps NoLeak. *)

(* A run that stays in, or stays out of, the holding stages, with the     *)
(* pool's lent set and the connections untouched.                          *)
LEMMA NoLeakStageOnly ==
    ASSUME NoLeak, TypeOK, NEW r \in Runs,
           pc' = [pc EXCEPT ![r] = pc'[r]],
           pc[r] \in Holding <=> pc'[r] \in Holding,
           UNCHANGED <<held, lent>>
    PROVE  NoLeak'
BY DEF NoLeak, TypeOK

(* reserve hands r the connection c, which the pool now counts as lent. *)
LEMMA NoLeakAcquire ==
    ASSUME NoLeak, TypeOK, NEW r \in Runs, NEW c \in Conns,
           pc' = [pc EXCEPT ![r] = "create"],
           held' = [held EXCEPT ![r] = c], lent' = lent \cup {c},
           pc[r] \notin Holding
    PROVE  NoLeak'
BY DEF NoLeak, TypeOK, Holding

(* r gives its connection back and leaves the holding stages: a connection *)
(* still lent is not held[r], so the run holding it is another one.        *)
LEMMA NoLeakRelease ==
    ASSUME NoLeak, TypeOK, NEW r \in Runs, pc[r] \in Holding,
           pc' = [pc EXCEPT ![r] = pc'[r]], pc'[r] \notin Holding,
           UNCHANGED held, lent' = lent \ {held[r]}
    PROVE  NoLeak'
<1> SUFFICES ASSUME NEW c \in lent' PROVE \E s \in Runs : pc'[s] \in Holding /\ held'[s] = c
    BY DEF NoLeak
<1>1. PICK s \in Runs : pc[s] \in Holding /\ held[s] = c
    BY DEF NoLeak
<1>2. s # r
    BY <1>1
<1>3. QED
    BY <1>1, <1>2 DEF TypeOK

-----------------------------------------------------------------------------

(* With only flow callers and a reliable toObjArray, every callback that   *)
(* can fire either keeps r's stage class or ends r with a release.         *)
LEMMA CallbackNoLeak ==
    ASSUME Callers \subseteq {"flow"}, ~ToObjArrayFails,
           LInv, NEW r \in Runs, Callback(r)
    PROVE  NoLeak'
<1> USE DEF LInv, IInv, TypeOK
<1>0. req[r].caller \in {"flow", "none"}
    BY DEF RequestsFromCallers
<1>1. CASE ReserveCallback(r)
    <2>1. pc[r] \notin Holding
        BY <1>1 DEF ReserveCallback, Holding
    <2>2. CASE PoolReserveFails /\ pc' = [pc EXCEPT ![r] = "done"]
               /\ UNCHANGED <<held, pooled, lent, broken, doomed>>
        BY <2>1, <2>2, NoLeakStageOnly DEF Holding
    <2>3. ASSUME NEW c \in Conns, PoolReserve(c),
                 held' = [held EXCEPT ![r] = c],
                 pc' = [pc EXCEPT ![r] = "create"]
          PROVE  NoLeak'
        BY <2>1, <2>3, NoLeakAcquire DEF PoolReserve
    <2>4. QED
        BY <1>1, <2>2, <2>3 DEF ReserveCallback
<1>2. CASE FlowOnCreateStatement(r)
    <2>1. CASE StatementFails(r) /\ PoolReleaseThenPurge(held[r])
               /\ pc' = [pc EXCEPT ![r] = "done"]
        BY <1>2, <2>1, NoLeakRelease
        DEF FlowOnCreateStatement, PoolReleaseThenPurge, Holding
    <2>2. CASE ~StatementFails(r) /\ pc' = [pc EXCEPT ![r] = "execute"]
               /\ UNCHANGED poolVars
        BY <1>2, <2>2, NoLeakStageOnly DEF FlowOnCreateStatement, poolVars, Holding
    <2>3. QED
        BY <1>2, <2>1, <2>2 DEF FlowOnCreateStatement
<1>3. CASE FlowOnExecute(r)
    <2>1. CASE PoolRelease(held[r]) /\ pc' = [pc EXCEPT ![r] = "done"]
        BY <1>3, <2>1, NoLeakRelease DEF FlowOnExecute, PoolRelease, Holding
    <2>2. CASE pc' = [pc EXCEPT ![r] = "convert"] /\ UNCHANGED poolVars
        BY <1>3, <2>2, NoLeakStageOnly DEF FlowOnExecute, poolVars, Holding
    <2>3. QED
        BY <1>3, <2>1, <2>2 DEF FlowOnExecute, UpdateResultAction
<1>4. CASE FlowOnRows(r)
    <2>1. PoolRelease(held[r]) /\ pc' = [pc EXCEPT ![r] = "done"]
        BY <1>4 DEF FlowOnRows
    <2>2. QED
        BY <1>4, <2>1, NoLeakRelease DEF FlowOnRows, PoolRelease, Holding
<1>5. ~ConfigOnReserve(r) /\ ~ProbeOnReserve(r) /\ ~ConfigOnCreateStatement(r)
      /\ ~ProbeOnCreateStatement(r) /\ ~ConfigOnExecute(r) /\ ~AdminOnRows(r)
    BY <1>0 DEF ConfigOnReserve, ProbeOnReserve, ConfigOnCreateStatement,
                ProbeOnCreateStatement, ConfigOnExecute, AdminOnRows
<1>6. QED
    BY <1>1, <1>2, <1>3, <1>4, <1>5 DEF Callback, FlowOnReserve

LEMMA NextLInv ==
    ASSUME Callers \subseteq {"flow"}, ~ToObjArrayFails
    PROVE  LInv /\ [Next]_vars => LInv'
<1> SUFFICES ASSUME LInv, [Next]_vars PROVE LInv'
    OBVIOUS
<1>1. IInv'
    BY NextIInv DEF LInv
<1>2. RequestsFromCallers'
    <2>1. CASE \E r \in Runs : Input(r)
        BY <2>1 DEF Input, QueryNodeInput, OutNodeInput, AdminListInput,
                    ConfigNodeCreated, Start, RequestsFromCallers, LInv, IInv, TypeOK
    <2>2. CASE UNCHANGED req
        BY <2>2 DEF RequestsFromCallers, LInv
    <2>3. QED
        BY <2>1, <2>2 DEF Next, Callback, FlowOnReserve, ConfigOnReserve,
           ProbeOnReserve, ReserveCallback, FlowOnCreateStatement,
           ConfigOnCreateStatement, ProbeOnCreateStatement, FlowOnExecute,
           ConfigOnExecute, FlowOnRows, AdminOnRows, DBDown, DBUp, vars
<1>3. NoLeak'
    <2>1. CASE \E r \in Runs : Callback(r)
        BY <2>1, CallbackNoLeak
    <2>2. ASSUME NEW r \in Runs, Input(r) PROVE NoLeak'
        <3>1. pc[r] = "idle" /\ pc' = [pc EXCEPT ![r] = "reserve"]
              /\ UNCHANGED <<held, lent>>
            BY <2>2 DEF Input, QueryNodeInput, OutNodeInput, AdminListInput,
                        ConfigNodeCreated, Start
        <3>2. QED
            BY <3>1, NoLeakStageOnly DEF Holding, LInv, IInv, TypeOK
    <2>3. CASE DBDown \/ DBUp \/ UNCHANGED vars
        BY <2>3 DEF DBDown, DBUp, vars, NoLeak, LInv
    <2>4. QED
        BY <2>1, <2>2, <2>3 DEF Next
<1>4. QED
    BY <1>1, <1>2, <1>3 DEF LInv

(* Flow nodes never leak (the property NoLeak of run flow_noleak), for     *)
(* every number of runs, connections and outages: with only "gaiandb in",  *)
(* "out" and "sql" nodes as callers and a toObjArray that does not fail,   *)
(* every connection reserve handed out is held by a run whose callback     *)
(* chain is still under way, so each one is released when the chain ends. *)
THEOREM FlowCallersNoLeak ==
    ASSUME Callers \subseteq {"flow"}, ~ToObjArrayFails
    PROVE  Spec => []NoLeak
<1>1. LInv => NoLeak
    BY DEF LInv
<1>2. QED
    BY <1>1, InitLInv, NextLInv, PTL DEF Spec


-----------------------------------------------------------------------------
(***************************************************************************)
(* The same callers follow the leak-free pool protocol of spec 4.2 item 4, *)
(* as far as safety goes: every step is a request, a grant, a denial, a    *)
(* release or a stutter of PoolUse, and never an abandonment.  (Its        *)
(* fairness, that every reserve is settled and every connection given      *)
(* back, is liveness and is checked by TLC in flow_noleak.)                *)
(***************************************************************************)

(* Each protocol step of one run other than abandonment is a LeakFreeNext step. *)
LEMMA LeakFreeRunStep ==
    ASSUME NEW r \in Runs,
           \/ PU!Request(r) \/ PU!Deny(r) \/ PU!Release(r)
           \/ \E c \in Conns : PU!Acquire(r, c)
    PROVE  PU!LeakFreeNext
BY DEF PU!LeakFreeNext, PU!Settle

LEMMA FlowCallbackLeakFree ==
    ASSUME Callers \subseteq {"flow"}, ~ToObjArrayFails,
           LInv, NEW r \in Runs, Callback(r)
    PROVE  [PU!LeakFreeNext]_PU!vars
<1> USE DEF LInv, IInv
<1>0. req[r].caller \in {"flow", "none"}
    BY DEF RequestsFromCallers
<1>1. CASE ReserveCallback(r)
    <2>1. CASE PoolReserveFails /\ pc' = [pc EXCEPT ![r] = "done"]
               /\ UNCHANGED <<held, pooled, lent, broken, doomed>>
        BY <1>1, <2>1, ToDeny, LeakFreeRunStep DEF ReserveCallback
    <2>2. ASSUME NEW c \in Conns, PoolReserve(c),
                 held' = [held EXCEPT ![r] = c],
                 pc' = [pc EXCEPT ![r] = "create"]
          PROVE  [PU!LeakFreeNext]_PU!vars
        <3>1. c \in Conns \ lent /\ lent' = lent \cup {c}
            BY <2>2 DEF PoolReserve, PoolConsistent
        <3>2. QED
            BY <1>1, <2>2, <3>1, ToAcquire, LeakFreeRunStep DEF ReserveCallback
    <2>3. QED
        BY <1>1, <2>1, <2>2 DEF ReserveCallback
<1>2. CASE FlowOnCreateStatement(r)
    <2>1. CASE StatementFails(r) /\ PoolReleaseThenPurge(held[r])
               /\ pc' = [pc EXCEPT ![r] = "done"]
        BY <1>2, <2>1, ToRelease, LeakFreeRunStep
        DEF FlowOnCreateStatement, PoolReleaseThenPurge, Holding, Ended
    <2>2. CASE ~StatementFails(r) /\ pc' = [pc EXCEPT ![r] = "execute"]
               /\ UNCHANGED poolVars
        BY <1>2, <2>2, Hidden DEF FlowOnCreateStatement, poolVars, Holding
    <2>3. QED
        BY <1>2, <2>1, <2>2 DEF FlowOnCreateStatement
<1>3. CASE FlowOnExecute(r)
    <2>1. CASE PoolRelease(held[r]) /\ pc' = [pc EXCEPT ![r] = "done"]
        BY <1>3, <2>1, ToRelease, LeakFreeRunStep
        DEF FlowOnExecute, PoolRelease, Holding, Ended
    <2>2. CASE pc' = [pc EXCEPT ![r] = "convert"] /\ UNCHANGED poolVars
        BY <1>3, <2>2, Hidden DEF FlowOnExecute, poolVars, Holding
    <2>3. QED
        BY <1>3, <2>1, <2>2 DEF FlowOnExecute, UpdateResultAction
<1>4. CASE FlowOnRows(r)
    <2>1. PoolRelease(held[r]) /\ pc' = [pc EXCEPT ![r] = "done"]
        BY <1>4 DEF FlowOnRows
    <2>2. QED
        BY <1>4, <2>1, ToRelease, LeakFreeRunStep
        DEF FlowOnRows, PoolRelease, Holding, Ended
<1>5. ~ConfigOnReserve(r) /\ ~ProbeOnReserve(r) /\ ~ConfigOnCreateStatement(r)
      /\ ~ProbeOnCreateStatement(r) /\ ~ConfigOnExecute(r) /\ ~AdminOnRows(r)
    BY <1>0 DEF ConfigOnReserve, ProbeOnReserve, ConfigOnCreateStatement,
                ProbeOnCreateStatement, ConfigOnExecute, AdminOnRows
<1>6. QED
    BY <1>1, <1>2, <1>3, <1>4, <1>5 DEF Callback, FlowOnReserve

LEMMA FlowStepLeakFree ==
    ASSUME Callers \subseteq {"flow"}, ~ToObjArrayFails
    PROVE  LInv /\ [Next]_vars => [PU!LeakFreeNext]_PU!vars
<1> SUFFICES ASSUME LInv, [Next]_vars PROVE [PU!LeakFreeNext]_PU!vars
    OBVIOUS
<1>1. CASE \E r \in Runs : Callback(r)
    BY <1>1, FlowCallbackLeakFree
<1>2. ASSUME NEW r \in Runs, Input(r) PROVE [PU!LeakFreeNext]_PU!vars
    <2>1. pc[r] = "idle" /\ pc' = [pc EXCEPT ![r] = "reserve"]
          /\ UNCHANGED <<held, lent>>
        BY <1>2 DEF Input, QueryNodeInput, OutNodeInput, AdminListInput,
                    ConfigNodeCreated, Start
    <2>2. QED
        BY <2>1, ToRequest, LeakFreeRunStep DEF LInv, IInv
<1>3. CASE DBDown \/ DBUp \/ UNCHANGED vars
    BY <1>3 DEF DBDown, DBUp, vars, PU!vars, PoolStage
<1>4. QED
    BY <1>1, <1>2, <1>3 DEF Next

(* Flow nodes never abandon a connection: with only flow callers and a     *)
(* toObjArray that does not fail, every step of the interleaved callback   *)
(* chains, purges and outages is a step of the leak-free pool protocol:    *)
(* no run ends while it still holds the connection reserve gave it.        *)
THEOREM FlowCallersFollowLeakFreeProtocol ==
    ASSUME Callers \subseteq {"flow"}, ~ToObjArrayFails
    PROVE  Spec => PU!Init /\ [][PU!LeakFreeNext]_PU!vars
<1>1. Init => PU!Init
    BY DEF Init, PU!Init, PoolStage, Holding
<1>2. QED
    BY <1>1, InitLInv, NextLInv, FlowStepLeakFree, PTL DEF Spec

=============================================================================
