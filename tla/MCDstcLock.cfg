SPECIFICATION Spec
CONSTANTS
    Threads = {t1, t2, t3}
    Nobody = Nobody
    MaxFrames = 2
SYMMETRY Symmetry
INVARIANTS
    TypeOK
    LockBalanced
    ExclusiveButForExpiry
    
\* The process may exit.
CHECK_DEADLOCK FALSE
