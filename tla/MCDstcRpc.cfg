SPECIFICATION Spec
CONSTANTS
    c1 = c1
    c2 = c2
    s1 = s1
    s2 = s2
    Clients <- MCClients
    Servers <- MCServers
    Addresses = {a1, a2}
    a1 = a1
    Placements <- MCPlacements
    NullRef = NullRef
    MaxCalls <- MCMaxCalls
    Connected <- MCConnected
    MaxChanges = 1
INVARIANTS
    TypeOK
    RunsAsActivated
PROPERTIES
    AnsweredUnlessLost
\* The clients make a bounded number of calls.
CHECK_DEADLOCK FALSE
