\* Two requests, duplicate answers, a server that may die or stall, and a Shutdown.
SPECIFICATION FairSpec
CONSTANTS
    Requests = {r1, r2}
    Callers = {k1}
    NoRequest = NoRequest
    MaxReplies = 2
INVARIANTS
    LoopNeverBlocks
    OpenedOnce
PROPERTIES
    NothingOutlivesServer
CHECK_DEADLOCK FALSE
