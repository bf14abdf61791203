\* Two tool calls, two clients, crashes, stalls and the sweeper.
SPECIFICATION FairRegistrySpec
CONSTANTS
    Clients = {c1, c2}
    Tools = {t1, t2}
    NoClient = NoClient
    IdleTimeout = 2
INVARIANTS
    HandedOutIsReady
PROPERTIES
    UselessServerIsReplaced
CHECK_DEADLOCK FALSE
