\* The linter dies of a signal and its findings are taken for complete.
SPECIFICATION CommandSpec
INVARIANTS
    FindingsAreComplete
CHECK_DEADLOCK FALSE
