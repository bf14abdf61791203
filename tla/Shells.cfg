\* Two shells, two pids, a KillShell call and writes that cross the output cap.
SPECIFICATION FairSpec
CONSTANTS
    Shells = {s1, s2}
    Streams = {stdout}
    Pids = {1, 2}
    Callers = {k1}
    NoShell = NoShell
    OutputCap = 1
    MaxWritten = 2
INVARIANTS
    NoUntrackedProcess
    NothingLostWhileRunning
PROPERTIES
    EndedShellIsFinished
CHECK_DEADLOCK FALSE
