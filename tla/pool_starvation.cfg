CONSTANTS
    r1 = r1
    r2 = r2
    r3 = r3
    c1 = c1
    c2 = c2
    NoConn = NoConn
    Runs <- MCRunsSmall
    Conns <- MCConnsOne
    Callers <- MCFlowAdminCallers
    MaxOutages = 1
    ToObjArrayFails = FALSE
SPECIFICATION Spec
PROPERTY RunsComplete
CHECK_DEADLOCK FALSE
