\* Three calls, two under way at a time, with Bash commands, crashes and
\* colliding names.  A call that has ended has no locals (SeenState).
SPECIFICATION Spec
CONSTANTS
    Calls = {a, b, c}
    Names = {n1, n2}
    Original = Original
    Foreign = Foreign
    NoFile = NoFile
    Torn = Torn
    Litter = Litter
    MaxActive = 2
SYMMETRY Symmetry
INVARIANTS
    WholeOrNothing
    TmpsAreOwned
CONSTRAINT Uncrossed
VIEW SeenState
PROPERTIES
    NoBlindMutation
    ImplementsAtomicFile
CHECK_DEADLOCK FALSE
