SPECIFICATION Spec
CONSTANTS
    Nodes = {n1, n2}
    Self = Self
    Funcs = {f, g}
    TableSize = 3
    Nil = Nil
INVARIANTS
    AvailableIsServed
CHECK_DEADLOCK FALSE
