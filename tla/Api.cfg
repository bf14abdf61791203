\* Two listeners, and one exec session, SSH session, port forward or event stream.
SPECIFICATION Spec
CONSTANTS
    Servers <- MCServers
    MaxOutput = 2
    MaxInput = 2
    TtyRoom = 1
    ReadsInput = TRUE
    MaxSshOutput = 1
    MaxUp = 1
    MaxDown = 2
    MaxEvQueue = 2
    MaxEvChanges = 2
INVARIANTS
    TypeOK
    ExitFollowsOutput
    StatusFollowsOutput
    AnswerArrivesWhole
    CleanReturn
    NoBlindDirectory
    ToldIsCurrent
    CutStreamIsAnError
PROPERTIES
    
    RunReturns
CHECK_DEADLOCK FALSE
