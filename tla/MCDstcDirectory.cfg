SPECIFICATION Spec
CONSTANTS
    Nodes = {n1, n2}
    Self = Self
    Funcs = {f, g}
    TableSize = 3
    Nil = Nil
INVARIANTS
    TypeOK
    SubscribedKnown
    ExitOnlyWhenFull
PROPERTIES
    BecomesKnown
\* The client's process may exit.
CHECK_DEADLOCK FALSE
