SPECIFICATION Spec
CONSTANTS
    Millisecond = 2
    Ahead = {3}
    MaxAhead = 3
    MaxSlack = 1
    Limit = 1
INVARIANTS
    TypeOK
    WaitsForTheTimeout
    ReturnsInTime
PROPERTY
    DueServed
