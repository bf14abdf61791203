------------------------------ MODULE ApiServer ------------------------------
(***************************************************************************)
(* The listeners and one connection, of any kind. Shutdown knows nothing   *)
(* of a hijacked connection, so an exec session or a port forward shares   *)
(* no state with the lifecycle and is followed alone; an SSH session is    *)
(* closed by the API's closer and ends with the process; an event stream   *)
(* is a busy connection that Shutdown waits for and does not end.          *)
(***************************************************************************)
EXTENDS ServerLifecycle, ExecSession, SshSession, Tunnel, EventStream

VARIABLE connection   \* "exec", "forward", "ssh" or "events"

apiVars == <<connection, runVars, execVars, sshVars, tunVars, evVars>>

Kinds == {"exec", "forward", "ssh", "events"}

Init ==
    /\ connection \in Kinds
    /\ RunInit /\ ExecInit /\ SshInit /\ TunInit /\ EvInit
    /\ connection # "ssh" => sshKind = "pty" /\ ~ignoresHup
    /\ connection # "events" => evDir

\* sshServer.Close closes the listener and every connection, then waits for
\* Serve, five seconds at most.
SshClose ==
    /\ CloserReturns
    /\ sshPeer' = "gone"
    /\ UNCHANGED <<sshKind, sshBash, ignoresHup, child, sshPrinted, sshOut, sshShown, master,
                   stdinCopy, outCopy, session, status>>

\* A step of one part; the process goes when Run returns, and with it the
\* handlers of SSH sessions and event streams.
ExecDoes(A) == connection = "exec" /\ A /\ UNCHANGED <<connection, runVars, sshVars, tunVars, evVars>>
ForwardDoes(A) == connection = "forward" /\ A /\ UNCHANGED <<connection, runVars, execVars, sshVars, evVars>>
SshDoes(A) == connection = "ssh" /\ ~Ended /\ A /\ UNCHANGED <<connection, runVars, execVars, tunVars, evVars>>
EventsDo(A) == connection = "events" /\ ~Ended /\ A /\ UNCHANGED <<connection, runVars, execVars, sshVars, tunVars>>
RunDoes(A) ==
    connection \in {"ssh", "events"} /\ A /\ UNCHANGED <<connection, execVars, sshVars, tunVars, evVars>>

CloserDoes ==
    IF connection = "ssh" THEN SshClose /\ UNCHANGED <<connection, execVars, tunVars, evVars>>
    ELSE RunDoes(CloserReturns)

\* Shutdown of the API's server waits for a stream it does not end.
IdleDoes ==
    /\ RunDoes(ShutdownIdle)
    /\ (connection = "events" /\ Servers[k] = "api") => evLoop = "returned"

Next ==
    \/ ExecDoes(ExecNext) \/ ForwardDoes(TunNext) \/ SshDoes(SshNext) \/ EventsDo(EvNext)
    \/ RunDoes(RunNext) \/ CloserDoes \/ IdleDoes

\* Every goroutine runs. A client that is neither reading nor gone does one
\* or the other in the end, and a write to it then completes; what bash runs
\* in its terminal reads the input if ReadsInput says so.
ExecFairness ==
    /\ WF_apiVars(ExecDoes(OutPumpReads \/ OutPumpLocks))
    /\ SF_apiVars(ExecDoes(OutPumpSends))
    /\ WF_apiVars(ExecDoes(InPumpEnds \/ applyClientFrame))
    /\ WF_apiVars(ExecDoes(HandlerSteps))
    /\ WF_apiVars(ExecDoes(PeerResumes \/ PeerLeaves))
    /\ ReadsInput => WF_apiVars(ExecDoes(tty /\ ShellReads))

ForwardFairness ==
    /\ WF_apiVars(ForwardDoes(InToWS)) /\ WF_apiVars(ForwardDoes(WSToOut))
    /\ WF_apiVars(ForwardDoes(WSToTCP)) /\ WF_apiVars(ForwardDoes(TCPToWS))

SshFairness ==
    /\ WF_apiVars(SshDoes(StdinEnds))
    /\ WF_apiVars(SshDoes(OutCopies \/ SessionReturns))

\* A select with several cases ready picks any of them; a write completes at
\* the latest, with an error, when the client has gone.
EventsFairness ==
    /\ WF_apiVars(EventsDo(EvSetup))
    /\ SF_apiVars(EventsDo(EvContextDone))
    /\ SF_apiVars(EventsDo(evPeer = "gone" /\ EvSends))

\* Run, the goroutine of each listener, and the grace window's timer.
RunFairness ==
    /\ WF_apiVars(RunDoes(RunSteps) \/ CloserDoes)
    /\ \A s \in Indices : WF_apiVars(RunDoes(ListenerCloses(s)))
    /\ WF_apiVars(RunDoes(GraceEnds))

Fairness == ExecFairness /\ ForwardFairness /\ SshFairness /\ EventsFairness /\ RunFairness

Spec == Init /\ [][Next]_apiVars /\ Fairness

-----------------------------------------------------------------------------
TypeOK ==
    /\ connection \in Kinds
    /\ RunTypeOK /\ ExecTypeOK /\ SshTypeOK /\ TunTypeOK /\ EvTypeOK

ExecOver == connection = "exec" /\ ((bash # "running" /\ ~job) \/ peer = "left")
ForwardOver == connection = "forward" /\ (app # "open" \/ (service = "closed" /\ ~outBroken))
ExecReturned == connection = "exec" /\ handler = "returned"
ExecJammed == connection = "exec" /\ inPump = "apply" /\ input = TtyRoom /\ job /\ ~tty
ForwardReturned == connection = "forward" /\ (AllPumpsDone \/ (outBroken /\ app = "open"))

SshOver ==
    /\ connection = "ssh"
    /\ \/ sshBash # "running" /\ child = "none"
       \/ sshPeer = "gone" /\ sshKind = "pty" /\ ~ignoresHup
StreamOver == connection = "events" /\ evPeer = "gone"
SshReturned == connection = "ssh" /\ session = "returned"
SshJammed == connection = "ssh" /\ stdinCopy = "blocked" /\ Writable
StreamReturned == connection = "events" /\ evLoop = "returned"

Over == ExecOver \/ ForwardOver \/ SshOver \/ StreamOver
Returned == ExecReturned \/ ForwardReturned \/ SshReturned \/ StreamReturned
Jammed == ExecJammed \/ SshJammed


\* A stream that is cut off by the end of the process is not passed off as a
\* clean stop: Run returns an error then (shutdownAll).
CutStreamIsAnError ==
    (connection = "events" /\ run = "done" /\ evLoop # "returned" /\ "api" \in {Servers[s] : s \in Indices})
    => firstErr
=============================================================================
