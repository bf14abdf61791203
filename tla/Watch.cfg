\* A log of two events that overflows while the agent polls; the process may hang, talk or end.
SPECIFICATION FairSpec
CONSTANTS
    EventCap = 2
    IdleTimeout = 1
    LineKinds = {"match", "plain", "long"}
    PipeCap = 2
    MaxLines = 2
INVARIANTS
    NoSilentMiss
    CompletedHasExit
PROPERTIES
    WatchEnds
CHECK_DEADLOCK FALSE
