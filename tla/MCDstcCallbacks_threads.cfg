SPECIFICATION Spec
CONSTANTS
    Threads = {t1, t2}
    Funcs = {f, g}
    Slots = 3
    MaxActivations = 2
    Nil = Nil
INVARIANTS
    NothingLost
CHECK_DEADLOCK FALSE
