\* Two calls race to build while files and a directory change; a queue of two.
SPECIFICATION MCSpec
CONSTANTS
    fa = fa  gb = gb  one = one  broken = broken  t1 = t1  t2 = t2
    Calls = {c1, c2}
    Files = {fa, gb}
    SubFiles = {gb}
    Texts = {one, broken}
    UnitsOf <- MCUnitsOf
    Tokens = {t1, t2}
    Absent = Absent
    None = None
    Failed = Failed
    MaxQueue = 2
    MaxChanges = 3
INVARIANTS
    StaleIsPending
    CountsAreExact
PROPERTIES
    CatchesUp
CHECK_DEADLOCK FALSE
