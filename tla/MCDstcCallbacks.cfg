SPECIFICATION Spec
CONSTANTS
    Threads = {t1}
    Funcs = {f, g}
    Slots = 3
    MaxActivations = 4
    Nil = Nil
SYMMETRY Symmetry
INVARIANTS
    TypeOK
    NothingLost
    Tidy
    IndexInTable
    ExitOnlyWhenFull
\* The process may exit, and a behaviour may use up its activations.
CHECK_DEADLOCK FALSE
