SPECIFICATION Spec
CONSTANTS
    UINT16_RANGE = 50
    Junk = Junk
    Calls <- MCCalls
    Decls <- MCDecls
    ServerFuncs <- MCServerFuncs
    Refs = {"c"}
    Node = 7
    RMC_MAX_PAYLOAD = 49
    MaxCalls = 4
    MaxDispatches = 3
INVARIANTS
    TypeOK
    RunsWhatWasSent
    EachRunOnce
    PayloadsFreedAfterUse
    OvertakesOnlyFromWithin
PROPERTIES
    EveryCallRuns
\* The sender makes a bounded number of calls.
CHECK_DEADLOCK FALSE
