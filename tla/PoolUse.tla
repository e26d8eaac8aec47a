------------------------------ MODULE PoolUse ------------------------------
(***************************************************************************)
(* What a caller of the pool promises, whatever its callbacks look like    *)
(* (spec sections 4.2 and 5): a run asks for a connection; it is either    *)
(* refused, or it gets a connection no other run holds; it gives that      *)
(* connection back once.  Abandon is a run that ends while still holding  *)
(* its connection, which the pool then counts as taken for ever.           *)
(*                                                                         *)
(* Spec is the protocol with abandonment allowed, which every caller of    *)
(* gaiandb.js follows.  LeakFreeSpec is the protocol of spec 4.2 item 4:   *)
(* no abandonment, and every request and every held connection is settled. *)
(***************************************************************************)
CONSTANTS
    Runs,     \* the runs that use the pool
    Conns,    \* the pool's connections
    NoConn    \* what a run holds before it gets a connection

VARIABLES
    stage,    \* stage[r]: "idle", "waiting", "holding" or "finished"
    conn,     \* conn[r]: the connection r got
    taken     \* the connections handed out and not given back

vars == <<stage, conn, taken>>

Init ==
    /\ stage = [r \in Runs |-> "idle"]
    /\ conn = [r \in Runs |-> NoConn]
    /\ taken = {}

Request(r) ==
    /\ stage[r] = "idle"
    /\ stage' = [stage EXCEPT ![r] = "waiting"]
    /\ UNCHANGED <<conn, taken>>

Acquire(r, c) ==
    /\ stage[r] = "waiting"
    /\ c \in Conns \ taken
    /\ stage' = [stage EXCEPT ![r] = "holding"]
    /\ conn' = [conn EXCEPT ![r] = c]
    /\ taken' = taken \cup {c}

Deny(r) ==
    /\ stage[r] = "waiting"
    /\ stage' = [stage EXCEPT ![r] = "finished"]
    /\ UNCHANGED <<conn, taken>>

Release(r) ==
    /\ stage[r] = "holding"
    /\ stage' = [stage EXCEPT ![r] = "finished"]
    /\ taken' = taken \ {conn[r]}
    /\ UNCHANGED conn

Abandon(r) ==
    /\ stage[r] = "holding"
    /\ stage' = [stage EXCEPT ![r] = "finished"]
    /\ UNCHANGED <<conn, taken>>

Settle(r) == (\E c \in Conns : Acquire(r, c)) \/ Deny(r)

Next == \E r \in Runs : Request(r) \/ Settle(r) \/ Release(r) \/ Abandon(r)

Spec == Init /\ [][Next]_vars

LeakFreeNext == \E r \in Runs : Request(r) \/ Settle(r) \/ Release(r)

LeakFreeSpec ==
    /\ Init
    /\ [][LeakFreeNext]_vars
    /\ \A r \in Runs : WF_vars(Settle(r)) /\ WF_vars(Release(r))

=============================================================================
