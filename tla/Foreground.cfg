\* All four callers, every race of command, children, context and timers.
SPECIFICATION FairCommandSpec
INVARIANTS
    SuccessHasWholeOutput
    KilledIsNotAnExit
PROPERTIES
    AlwaysReturns
CHECK_DEADLOCK FALSE
