------------------------ MODULE MCProcessSQLStatement ------------------------
(* Small instances of ProcessSQLStatement for TLC. *)
EXTENDS ProcessSQLStatement, TLC

CONSTANTS r1, r2, r3, c1, c2

(* Three runs share a pool of two connections, so one run can find every  *)
(* connection lent and must wait.                                         *)
MCRuns == {r1, r2, r3}
MCConns == {c1, c2}

(* A pool of one connection: the smallest pool a single leak exhausts. *)
MCRunsSmall == {r1, r2}
MCConnsOne == {c1}

MCAllCallers == {"flow", "config", "probe"}
MCFlowCallers == {"flow"}
MCAdminCallers == {"config"}
MCProbeCallers == {"probe"}
MCFlowAdminCallers == {"flow", "config"}

Symmetry == Permutations(MCRuns) \cup Permutations(MCConns)
=============================================================================
