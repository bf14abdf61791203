\* Two snapshot calls beside a changing workspace.
SPECIFICATION MCSpec
CONSTANTS
    gi = gi  a = a  log = log  v1 = v1  v2 = v2
    Paths <- MCPaths
    Contents <- MCContents
    IgnoreFile = gi
    Hides <- MCHides
    Quoted <- MCQuoted
    Absent = Absent
    NoTree = NoTree
    NoName = NoName
    Names = {n}
    Calls = {c1, c2}
    MaxWrites = 1
    Litter = Litter
SYMMETRY Symmetry
INVARIANTS
    TypeOK
    CleanCaptureIsExact
    IndexFilesAreOwned
PROPERTIES
    CleanRestoreIsExact
    ImplementsStore
CHECK_DEADLOCK FALSE
