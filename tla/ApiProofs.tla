------------------------------ MODULE ApiProofs ------------------------------
(***************************************************************************)
(* The connections of the API server and Run's shutdown, for any bounds on *)
(* data, any terminal and inotify queue and any list of listeners.  The    *)
(* parts share little, so each has an invariant of its own that its own    *)
(* steps keep; ComponentSteps says what a step of the server is to each.   *)
(***************************************************************************)
EXTENDS ApiServer, TLAPS

-----------------------------------------------------------------------------
(* ExecSession *)

\* Chunks the output pump holds.
Held == IF outPump \in {"lock", "send"} THEN 1 ELSE 0

\* Every chunk is shown, held or still to be read, as long as the connection
\* carries it.
ExecCount ==
    /\ shown + Held + out <= printed
    /\ (ws = "open" /\ peer # "left") => shown + Held + out = printed

\* Why the handler stopped waiting: a WebSocket that is still open means the
\* output had run dry.
ExecOrder ==
    /\ handler = "await" => ptmx = "open"
    /\ (ptmx = "open" /\ wsDone # "none") => ws = "closed"
    /\ outPump = "done" <=> ptyDone # "none"
    /\ (ptmx = "open" /\ outPump = "done" /\ ws = "open") => out = 0 /\ ~Attached
    /\ (handler # "await" /\ ws = "open") => out = 0 /\ ~Attached /\ outPump = "done"
    /\ handler \notin {"await", "teardown"} => bash # "running" /\ ptmx = "closed"
    /\ handler = "exit" => code # "none" /\ (code = "own" <=> bash = "exited")
    /\ exitFrame # "none" =>
          /\ ws = "closed" /\ ptmx = "closed" /\ bash # "running" /\ shown = printed
          /\ exitFrame = "own" <=> bash = "exited"

ExecInv == ExecTypeOK /\ ExecCount /\ ExecOrder

\* The exec invariant holds initially.
LEMMA ExecStarts == ExecInit => ExecInv
<1>. SUFFICES ASSUME ExecInit PROVE ExecInv  OBVIOUS
<1>1. tty \in BOOLEAN /\ job \in BOOLEAN /\ clientClosed \in BOOLEAN  BY DEF ExecInit
<1>2. ExecTypeOK  BY <1>1, ExecAssumption DEF ExecInit, ExecTypeOK
<1>3. ExecCount /\ ExecOrder  BY <1>1 DEF ExecInit, ExecCount, Held, ExecOrder, Attached
<1>. QED  BY <1>2, <1>3 DEF ExecInv

\* Every step of an exec session keeps its invariant.
LEMMA ExecStep ==
    ASSUME ExecInv, [ExecNext]_execVars
    PROVE  ExecInv'
<1>. USE ExecAssumption DEF ExecInv, ExecTypeOK, ExecCount, Held, ExecOrder, Attached,
           shellVars, pumpVars, handlerVars
<1>1. CASE ShellPrints  BY <1>1 DEF ShellPrints
<1>2. CASE ShellReads  BY <1>2 DEF ShellReads
<1>3. CASE ShellExits
  <2>1. ~tty' /\ tty' \in BOOLEAN /\ job' = job  BY <1>3 DEF ShellExits
  <2>2. ExecTypeOK'  BY <1>3, <2>1 DEF ShellExits
  <2>3. ExecCount'  BY <1>3 DEF ShellExits
  <2>4. ExecOrder'  BY <1>3, <2>1 DEF ShellExits
  <2>. QED  BY <2>2, <2>3, <2>4
<1>4. CASE ShellDetaches
  <2>1. ~tty' /\ tty' \in BOOLEAN /\ job' = job  BY <1>4 DEF ShellDetaches
  <2>2. ExecTypeOK'  BY <1>4, <2>1 DEF ShellDetaches
  <2>3. ExecCount'  BY <1>4 DEF ShellDetaches
  <2>4. ExecOrder'  BY <1>4, <2>1 DEF ShellDetaches
  <2>. QED  BY <2>2, <2>3, <2>4
<1>5. CASE OutPumpReads  BY <1>5 DEF OutPumpReads
<1>6. CASE OutPumpLocks  BY <1>6 DEF OutPumpLocks
<1>7. CASE OutPumpSends  BY <1>7 DEF OutPumpSends
<1>8. CASE InPumpReads  BY <1>8 DEF InPumpReads
<1>9. CASE InPumpEnds  BY <1>9 DEF InPumpEnds
<1>10. CASE applyClientFrame  BY <1>10 DEF applyClientFrame
<1>11. CASE awaitTermination
  <2>1. clientClosed' \in BOOLEAN  BY <1>11 DEF awaitTermination
  <2>2. ExecTypeOK'  BY <1>11, <2>1 DEF awaitTermination
  <2>3. ExecCount' /\ ExecOrder'  BY <1>11 DEF awaitTermination
  <2>. QED  BY <2>2, <2>3
<1>12. CASE Teardown
  <2>1. ~tty' /\ tty' \in BOOLEAN /\ ~job' /\ job' \in BOOLEAN  BY <1>12 DEF Teardown
  <2>2. ExecTypeOK'  BY <1>12, <2>1 DEF Teardown
  <2>3. ExecCount'  BY <1>12 DEF Teardown
  <2>4. ExecOrder'  BY <1>12, <2>1 DEF Teardown
  <2>. QED  BY <2>2, <2>3, <2>4
<1>13. CASE waitExitCode  BY <1>13 DEF waitExitCode
<1>14. CASE writeExitAndClose  BY <1>14 DEF writeExitAndClose
<1>15. CASE HandlerReturns  BY <1>15 DEF HandlerReturns
<1>16. CASE PeerStalls  BY <1>16 DEF PeerStalls
<1>17. CASE PeerResumes  BY <1>17 DEF PeerResumes
<1>18. CASE PeerLeaves  BY <1>18 DEF PeerLeaves
<1>19. CASE UNCHANGED execVars  BY <1>19 DEF execVars
<1>20. CASE JobStarts
  <2>1. tty /\ tty' = tty /\ job' \in BOOLEAN  BY <1>20 DEF JobStarts
  <2>2. ExecTypeOK'  BY <1>20, <2>1 DEF JobStarts
  <2>3. ExecCount'  BY <1>20 DEF JobStarts
  <2>4. ExecOrder'  BY <1>20, <2>1 DEF JobStarts
  <2>. QED  BY <2>2, <2>3, <2>4
<1>21. CASE JobEnds
  <2>1. ~job' /\ tty' = tty /\ job' \in BOOLEAN  BY <1>21 DEF JobEnds
  <2>2. ExecTypeOK'  BY <1>21, <2>1 DEF JobEnds
  <2>3. ExecCount'  BY <1>21 DEF JobEnds
  <2>4. ExecOrder'  BY <1>21, <2>1 DEF JobEnds
  <2>. QED  BY <2>2, <2>3, <2>4
<1>. QED
  BY <1>1, <1>2, <1>3, <1>4, <1>5, <1>6, <1>7, <1>8, <1>9, <1>10, <1>11, <1>12, <1>13, <1>14,
     <1>15, <1>16, <1>17, <1>18, <1>19, <1>20, <1>21 DEF ExecNext, HandlerSteps

-----------------------------------------------------------------------------
(* SshSession *)

\* Chunks are shown or still to be copied; a copy that has ended by itself has
\* copied all; what ended with the session stays so.
SshInv ==
    /\ SshTypeOK
    /\ sshShown + sshOut = sshPrinted
    /\ (outCopy = "done" /\ master # "cut" /\ sshPeer # "gone") => sshOut = 0
    /\ session = "returned" => sshBash # "running" /\ child # "group" /\ outCopy = "done"
    /\ status # "none" => session = "returned"
    /\ (status # "none" /\ master # "cut") => sshOut = 0

\* sshServer.Close, or the client, takes the connection away.
SshHangsUp ==
    /\ sshPeer' = "gone"
    /\ UNCHANGED <<sshKind, sshBash, ignoresHup, child, sshPrinted, sshOut, sshShown, master,
                   stdinCopy, outCopy, session, status>>

\* The SSH invariant holds initially.
LEMMA SshStarts == SshInit => SshInv
<1>. SUFFICES ASSUME SshInit PROVE SshInv  OBVIOUS
<1>1. ignoresHup \in BOOLEAN  BY DEF SshInit
<1>2. SshTypeOK  BY <1>1, SshAssumption DEF SshInit, SshTypeOK
<1>. QED  BY <1>1, <1>2 DEF SshInit, SshInv

\* Every step of an SSH session keeps its invariant.
LEMMA SshStep ==
    ASSUME SshInv, SshNext \/ SshHangsUp \/ UNCHANGED sshVars
    PROVE  SshInv'
<1>. USE SshAssumption DEF SshInv, SshTypeOK, Writable
<1>1. CASE SshPrints  BY <1>1 DEF SshPrints
<1>2. CASE SshForks  BY <1>2 DEF SshForks
<1>3. CASE SshChildExits  BY <1>3 DEF SshChildExits
<1>4. CASE SshBashExits  BY <1>4 DEF SshBashExits
<1>5. CASE OutCopies  BY <1>5 DEF OutCopies
<1>6. CASE StdinEnds  BY <1>6 DEF StdinEnds
<1>7. CASE SessionReturns  BY <1>7 DEF SessionReturns
<1>8. CASE SshPeerEOF  BY <1>8 DEF SshPeerEOF
<1>9. CASE SshPeerGoes \/ SshHangsUp  BY <1>9 DEF SshPeerGoes, SshHangsUp
<1>10. CASE UNCHANGED sshVars  BY <1>10 DEF sshVars
<1>11. CASE StdinBlocks  BY <1>11 DEF StdinBlocks
<1>12. CASE StdinIsRead  BY <1>12 DEF StdinIsRead
<1>. QED  BY <1>1, <1>2, <1>3, <1>4, <1>5, <1>6, <1>7, <1>8, <1>9, <1>10, <1>11, <1>12 DEF SshNext

-----------------------------------------------------------------------------
(* Tunnel *)

\* Chunks a pump holds between reading and writing.
OutHolds == IF wsToOut = "write" THEN 1 ELSE 0
DownHolds == IF tcpToWS = "send" THEN 1 ELSE 0
InHolds == IF inToWS = "send" THEN 1 ELSE 0

\* No chunk is ever delivered twice, in either direction.
TunCount ==
    /\ appIn + InHolds + up <= appSent
    /\ appGot + OutHolds + down + DownHolds + svcOut <= svcSent

\* The application ends nothing itself, and no close on the way met a write.
Quiet == app = "open" /\ ~outBroken /\ ~lateWrite /\ ~reset

\* Then everything on the way down is kept, and the ends come in one order:
\* the service, the connection to it, the WebSocket, the application's side.
QuietEnd ==
    Quiet =>
       /\ appGot + OutHolds + down + DownHolds + svcOut = svcSent
       /\ tcpToWS \in {"read", "send"} =>
             wsServer = "open" /\ ~downClose /\ tcp = "open" /\ wsToOut # "done"
       /\ tcpToWS \in {"close", "done"} => service = "closed" /\ svcOut = 0
       /\ wsToOut # "done" => /\ wsClient = "open" /\ ~cancelled /\ ~inClosed /\ ~upClose
                              /\ inToWS \in {"read", "send"}
       /\ wsToOut = "done" => down = 0

TunInv == TunTypeOK /\ TunCount /\ QuietEnd

\* The tunnel's invariant holds initially.
LEMMA TunStarts == TunInit => TunInv
<1>. SUFFICES ASSUME TunInit PROVE TunInv  OBVIOUS
<1>1. {outBroken, inClosed, cancelled, upClose, downClose, lateWrite, reset} \subseteq BOOLEAN
  BY DEF TunInit
<1>2. ~outBroken /\ ~inClosed /\ ~cancelled /\ ~upClose /\ ~downClose /\ ~lateWrite /\ ~reset
  BY DEF TunInit
<1>3. TunTypeOK  BY <1>1, TunnelAssumption DEF TunInit, TunTypeOK
<1>4. TunCount /\ QuietEnd
  BY <1>2 DEF TunInit, TunCount, QuietEnd, Quiet, OutHolds, DownHolds, InHolds
<1>. QED  BY <1>3, <1>4 DEF TunInv

\* Every step of a tunnel keeps its invariant.
LEMMA TunStep ==
    ASSUME TunInv, [TunNext]_tunVars
    PROVE  TunInv'
<1>. USE TunnelAssumption DEF TunInv, TunTypeOK, TunCount, QuietEnd, Quiet, OutHolds, DownHolds,
           InHolds, appVars, clientVars, wireVars, serverVars, svcVars
<1>1. CASE AppSends  BY <1>1 DEF AppSends
<1>2. CASE AppEnds  BY <1>2 DEF AppEnds
<1>3. CASE OutBreaks  BY <1>3 DEF OutBreaks
<1>4. CASE ServiceSends  BY <1>4 DEF ServiceSends
<1>5. CASE ServiceCloses  BY <1>5 DEF ServiceCloses
<1>6. CASE InReads  BY <1>6 DEF InReads
<1>7. CASE InSends
  <2>0. reset' \in BOOLEAN /\ (~reset' => ~reset /\ wsServer = "open")  BY <1>7 DEF InSends
  <2>1. CASE up' = up + 1 /\ inToWS' = "read" /\ UNCHANGED <<cancelled, wsClient>>
    BY <1>7, <2>0, <2>1 DEF InSends
  <2>2. CASE inToWS' = "done"
    <3>1. cancelled' \in BOOLEAN /\ cancelled'  BY <1>7, <2>2 DEF InSends
    <3>2. TunTypeOK'  BY <1>7, <2>0, <2>2, <3>1 DEF InSends
    <3>3. TunCount'  BY <1>7, <2>2 DEF InSends
    <3>4. Quiet' => wsToOut = "done"  BY <1>7, <2>0, <2>2 DEF InSends
    <3>5. QuietEnd'  BY <1>7, <2>0, <2>2, <3>4 DEF InSends
    <3>. QED  BY <3>2, <3>3, <3>5
  <2>. QED  BY <1>7, <2>1, <2>2 DEF InSends
<1>8. CASE InCloses  BY <1>8 DEF InCloses
<1>9. CASE OutReads
  <2>1. CASE UNCHANGED <<inClosed, cancelled, wsClient, upClose>>  BY <1>9, <2>1 DEF OutReads
  <2>2. CASE wsToOut' = "done"
    <3>1. /\ cancelled' \in BOOLEAN /\ inClosed' \in BOOLEAN /\ upClose' \in BOOLEAN
          /\ cancelled' /\ inClosed'
      BY <1>9, <2>2 DEF OutReads
    <3>2. TunTypeOK'  BY <1>9, <2>2, <3>1 DEF OutReads
    <3>3. TunCount'  BY <1>9, <2>2 DEF OutReads
    <3>4. Quiet => down = 0 /\ tcpToWS \in {"close", "done"}  BY <1>9, <2>2 DEF OutReads
    <3>5. QuietEnd'  BY <1>9, <2>2, <3>4 DEF OutReads
    <3>. QED  BY <3>2, <3>3, <3>5
  <2>. QED  BY <1>9, <2>1, <2>2 DEF OutReads
<1>10. CASE OutWrites
  <2>1. CASE ~outBroken  BY <1>10, <2>1 DEF OutWrites
  <2>2. CASE outBroken
    <3>1. cancelled' \in BOOLEAN /\ cancelled'  BY <1>10, <2>2 DEF OutWrites
    <3>2. TunTypeOK'  BY <1>10, <2>2, <3>1 DEF OutWrites
    <3>3. TunCount' /\ QuietEnd'  BY <1>10, <2>2, <3>1 DEF OutWrites
    <3>. QED  BY <3>2, <3>3
  <2>. QED  BY <2>1, <2>2
<1>11. CASE UpReads
  <2>1. downClose' \in BOOLEAN  BY <1>11 DEF UpReads
  <2>2. TunTypeOK'  BY <1>11, <2>1 DEF UpReads
  <2>3. TunCount'  BY <1>11 DEF UpReads
  <2>4. QuietEnd'  BY <1>11, <2>1 DEF UpReads
  <2>. QED  BY <2>2, <2>3, <2>4
<1>12. CASE UpWrites  BY <1>12 DEF UpWrites
<1>13. CASE DownReads  BY <1>13 DEF DownReads
<1>14. CASE DownSends  BY <1>14 DEF DownSends
<1>15. CASE DownCloses
  <2>1. reset' \in BOOLEAN /\ (~reset' => ~reset)  BY <1>15 DEF DownCloses
  <2>2. TunTypeOK'  BY <1>15, <2>1 DEF DownCloses
  <2>3. TunCount'  BY <1>15 DEF DownCloses
  <2>4. QuietEnd'  BY <1>15, <2>1 DEF DownCloses
  <2>. QED  BY <2>2, <2>3, <2>4
<1>16. CASE UNCHANGED tunVars  BY <1>16 DEF tunVars
<1>. QED
  BY <1>1, <1>2, <1>3, <1>4, <1>5, <1>6, <1>7, <1>8, <1>9, <1>10, <1>11, <1>12, <1>13, <1>14,
     <1>15, <1>16 DEF TunNext, InToWS, WSToOut, WSToTCP, TCPToWS

-----------------------------------------------------------------------------
(* ServerLifecycle *)

\* A listener whose channel has been drained.
Drained(s) == listener[s] = "down" /\ taken[s] /\ (errCh[s] = "err" => firstErr)

\* Run is at the first server between its loops; a channel has a value when
\* its goroutine has ended, and nil only once that server was shut down.
RunInv ==
    /\ RunTypeOK
    /\ run \in {"wait", "closer", "tracer"} => k = 1
    /\ run = "wait" => \A s \in Indices : ~shutting[s]
    /\ \A s \in Indices : /\ errCh[s] # "empty" => listener[s] = "down"
                          /\ errCh[s] = "nil" => shutting[s]
    /\ run = "drain" => \A s \in Indices : s < k => Drained(s)
    /\ run = "done" => \A s \in Indices : Drained(s)

\* The listeners are numbered from one.
LEMMA IndexRange ==
    /\ Len(Servers) \in Nat \ {0} /\ Indices = 1..Len(Servers) /\ 1 \in Indices
BY ServersAssumption DEF Indices

\* The lifecycle's invariant holds initially.
LEMMA RunStarts == RunInit => RunInv
<1>. SUFFICES ASSUME RunInit PROVE RunInv  OBVIOUS
<1>1. signalled \in BOOLEAN /\ graceOver \in BOOLEAN /\ firstErr \in BOOLEAN  BY DEF RunInit
<1>2. RunTypeOK  BY <1>1, IndexRange DEF RunInit, RunTypeOK
<1>. QED  BY <1>2 DEF RunInit, RunInv

\* The loop over the servers goes on with the next or ends after the last.
LEMMA Loop ==
    ASSUME RunTypeOK, NEW then, NextServer(then)
    PROVE  /\ k' \in Indices
           /\ \/ k' = k + 1 /\ run' = run
              \/ k' = 1 /\ run' = then /\ \A s \in Indices : s <= k
<1>1. k \in Indices  BY DEF RunTypeOK
<1>. QED  BY <1>1, IndexRange DEF NextServer

\* Every step of Run and its listeners keeps the invariant.
LEMMA RunStep ==
    ASSUME RunInv, RunNext \/ CloserReturns \/ ShutdownIdle \/ UNCHANGED runVars
    PROVE  RunInv'
<1>. USE IndexRange DEF RunInv, RunTypeOK, Drained
<1>1. ASSUME NEW s \in Indices, ListenerCrashes(s) PROVE RunInv'
  BY <1>1 DEF ListenerCrashes
<1>2. ASSUME NEW s \in Indices, ListenerCloses(s) PROVE RunInv'
  BY <1>2 DEF ListenerCloses
<1>3. CASE Signal  BY <1>3 DEF Signal
<1>4. CASE SignalReceived  BY <1>4 DEF SignalReceived
<1>5. ASSUME NEW s \in Indices, ListenerReported(s) PROVE RunInv'
  BY <1>5 DEF ListenerReported
<1>6. CASE ShutdownBegins  BY <1>6 DEF ShutdownBegins
<1>7. CASE ShutdownIdle
  <2>1. /\ k' \in Indices /\ run = "shutdown"
        /\ run' = "shutdown" \/ (run' = "closer" /\ k' = 1)
    BY <1>7, Loop DEF ShutdownIdle
  <2>. QED  BY <1>7, <2>1 DEF ShutdownIdle
<1>8. CASE ShutdownTimesOut
  <2>1. /\ k' \in Indices /\ run = "shutdown"
        /\ run' = "shutdown" \/ (run' = "closer" /\ k' = 1)
    BY <1>8, Loop DEF ShutdownTimesOut
  <2>2. firstErr' \in BOOLEAN  BY <1>8 DEF ShutdownTimesOut
  <2>. QED  BY <1>8, <2>1, <2>2 DEF ShutdownTimesOut
<1>9. CASE GraceEnds
  <2>1. graceOver' \in BOOLEAN  BY <1>9 DEF GraceEnds
  <2>. QED  BY <1>9, <2>1 DEF GraceEnds
<1>10. CASE CloserReturns  BY <1>10 DEF CloserReturns
<1>11. CASE TracerReturns
  <2>1. firstErr' \in BOOLEAN  BY <1>11 DEF TracerReturns
  <2>. QED  BY <1>11, <2>1 DEF TracerReturns
<1>12. CASE DrainChannel
  <2>1. firstErr' \in BOOLEAN /\ (firstErr => firstErr') /\ (errCh[k] = "err" => firstErr')
    BY <1>12 DEF DrainChannel
  <2>2. /\ taken' \in [Indices -> BOOLEAN] /\ taken'[k]
        /\ \A s \in Indices : taken[s] => taken'[s]
    BY <1>12 DEF DrainChannel
  <2>3. \A s \in Indices : (s = k \/ Drained(s)) => Drained(s)'
    BY <1>12, <2>1, <2>2 DEF DrainChannel
  <2>4. /\ k' \in Indices /\ run = "drain"
        /\ \/ k' = k + 1 /\ run' = "drain"
           \/ k' = 1 /\ run' = "done" /\ \A s \in Indices : s <= k
    BY <1>12, Loop DEF DrainChannel
  <2>5. run' = "drain" => \A s \in Indices : s < k' => Drained(s)'
    <3>1. ASSUME run' = "drain", NEW s \in Indices, s < k' PROVE s = k \/ Drained(s)
      BY <2>4, <3>1
    <3>. QED  BY <2>3, <3>1
  <2>6. run' = "done" => \A s \in Indices : Drained(s)'
    <3>1. ASSUME run' = "done", NEW s \in Indices PROVE s = k \/ Drained(s)
      BY <2>4, <3>1
    <3>. QED  BY <2>3, <3>1
  <2>. QED  BY <1>12, <2>1, <2>2, <2>4, <2>5, <2>6 DEF DrainChannel
<1>13. CASE UNCHANGED runVars  BY <1>13 DEF runVars
<1>. QED
  BY <1>1, <1>2, <1>3, <1>4, <1>5, <1>6, <1>7, <1>8, <1>9, <1>10, <1>11, <1>12, <1>13
     DEF RunNext, RunSteps

-----------------------------------------------------------------------------
(* EventStream *)

\* What the news n says of the directory is so.
Right(n) == (n = "create") <=> evDir

Ready == evLoop \in {"select", "send"}

\* The latest news of the directory, wherever it has got to, is right: at the
\* end of the queue, in the handler's hand, or with the client.
LatestIsRight ==
    (Ready /\ ~evMissed) =>
       /\ evQueue # <<>> => Right(evQueue[Len(evQueue)])
       /\ (evQueue = <<>> /\ evHand \in {"create", "remove"}) => Right(evHand)
       /\ (evQueue = <<>> /\ evHand \in {"none", "ping"} /\ evPeer = "open" /\ told # "nothing")
             => Right(told)

EvInv ==
    /\ EvTypeOK
    /\ evLoop \in {"walk", "select", "send"} => rootWatched
    /\ evLoop # "send" => evHand = "none"
    /\ evLoop \in {"setup", "walk"} => told = "nothing"
    /\ evLoop = "setup" => evQueue = <<>> /\ ~rootWatched
    /\ (evLoop = "walk" /\ ~evMissed /\ evQueue # <<>>) => Right(evQueue[Len(evQueue)])
    /\ NoBlindDirectory
    /\ LatestIsRight

\* The stream's invariant holds initially.
LEMMA EvStarts == EvInit => EvInv
<1>. SUFFICES ASSUME EvInit PROVE EvInv  OBVIOUS
<1>1. /\ evDir \in BOOLEAN /\ rootWatched \in BOOLEAN /\ dirWatched \in BOOLEAN
      /\ evMissed \in BOOLEAN /\ ~rootWatched
  BY DEF EvInit
<1>2. evQueue \in Seq({"create", "remove"}) /\ Len(evQueue) = 0  BY DEF EvInit
<1>3. EvTypeOK  BY <1>1, <1>2, EventAssumption DEF EvInit, EvTypeOK
<1>. QED  BY <1>1, <1>3 DEF EvInit, EvInv, NoBlindDirectory, LatestIsRight, Ready

\* What Notify does to the queue.
LEMMA NotifyQueue ==
    ASSUME EvTypeOK, NEW w \in BOOLEAN, NEW e \in {"create", "remove"}, Notify(w, e)
    PROVE  /\ evQueue' \in Seq({"create", "remove"}) /\ Len(evQueue') <= MaxEvQueue
           /\ evMissed' \in BOOLEAN
           /\ \/ ~w /\ UNCHANGED <<evQueue, evMissed>>
              \/ w /\ evMissed'
              \/ w /\ evMissed' = evMissed /\ evQueue' # <<>> /\ evQueue'[Len(evQueue')] = e
<1>. USE EventAssumption DEF EvTypeOK, Notify
<1>1. CASE ~w  BY <1>1
<1>2. CASE w /\ Len(evQueue) < MaxEvQueue
  <2>1. evQueue' = Append(evQueue, e) /\ evMissed' = evMissed  BY <1>2
  <2>2. /\ evQueue' \in Seq({"create", "remove"}) /\ Len(evQueue') = Len(evQueue) + 1
        /\ evQueue'[Len(evQueue')] = e
    BY <2>1
  <2>. QED  BY <1>2, <2>1, <2>2
<1>3. CASE w /\ ~(Len(evQueue) < MaxEvQueue)
  <2>1. evMissed' = TRUE /\ evQueue' = evQueue  BY <1>3
  <2>. QED  BY <1>3, <2>1
<1>. QED  BY <1>1, <1>2, <1>3

\* The empty sequence has length zero.
LEMMA EmptyLen ==
    ASSUME NEW q, q = <<>>
    PROVE  Len(q) = 0
OBVIOUS

\* What taking the head does to the queue.
LEMMA TailQueue ==
    ASSUME EvTypeOK, evQueue # <<>>, evQueue' = Tail(evQueue)
    PROVE  /\ evQueue' \in Seq({"create", "remove"}) /\ Len(evQueue') <= MaxEvQueue
           /\ Head(evQueue) \in {"create", "remove"}
           /\ evQueue' # <<>> => evQueue'[Len(evQueue')] = evQueue[Len(evQueue)]
           /\ evQueue' = <<>> => Head(evQueue) = evQueue[Len(evQueue)]
           /\ (Head(evQueue) # "create" /\ Queued("create")) => Queued("create")'
<1>. USE EventAssumption DEF EvTypeOK
<1>1. /\ evQueue \in Seq({"create", "remove"}) /\ Len(evQueue) > 0 /\ Head(evQueue) = evQueue[1]
      /\ DOMAIN evQueue = 1..Len(evQueue)
  OBVIOUS
<1>2. /\ evQueue' \in Seq({"create", "remove"}) /\ Len(evQueue') = Len(evQueue) - 1
      /\ \A i \in 1..Len(evQueue') : evQueue'[i] = evQueue[i + 1]
      /\ DOMAIN evQueue' = 1..Len(evQueue')
  BY <1>1
<1>3. evQueue' # <<>> => evQueue'[Len(evQueue')] = evQueue[Len(evQueue)]
  <2>. SUFFICES ASSUME evQueue' # <<>> PROVE evQueue'[Len(evQueue')] = evQueue[Len(evQueue)]
    OBVIOUS
  <2>1. Len(evQueue') \in 1..Len(evQueue')  BY <1>2
  <2>. QED  BY <1>1, <1>2, <2>1
<1>4. evQueue' = <<>> => Len(evQueue) = 1
  <2>. SUFFICES ASSUME evQueue' = <<>> PROVE Len(evQueue) = 1  OBVIOUS
  <2>. DEFINE n == Len(evQueue)
              m == Len(evQueue')
  <2>1. m = 0  BY EmptyLen
  <2>2. m = n - 1  BY <1>2
  <2>3. n \in Nat  BY <1>1
  <2>. HIDE DEF n, m
  <2>4. n = 1  BY <2>1, <2>2, <2>3
  <2>. QED  BY <2>4 DEF n
<1>5. (Head(evQueue) # "create" /\ Queued("create")) => Queued("create")'
  <2>. SUFFICES ASSUME Head(evQueue) # "create", Queued("create") PROVE Queued("create")'  OBVIOUS
  <2>1. PICK i \in 1..Len(evQueue) : evQueue[i] = "create"  BY <1>1 DEF Queued
  <2>2. i # 1 /\ i - 1 \in 1..Len(evQueue') /\ evQueue'[i - 1] = "create"  BY <1>1, <1>2, <2>1
  <2>. QED  BY <1>2, <2>2 DEF Queued
<1>. QED  BY <1>1, <1>2, <1>3, <1>4, <1>5

\* What WatchDir does: a directory that is there is watched, or missed.
LEMMA WatchDirWatches ==
    ASSUME EvTypeOK, WatchDir
    PROVE  /\ dirWatched' \in BOOLEAN /\ evMissed' \in BOOLEAN
           /\ evDir => dirWatched' \/ evMissed'
           /\ dirWatched => dirWatched'
           /\ evMissed => evMissed'
<1>0. /\ evDir \in BOOLEAN /\ dirWatched \in BOOLEAN /\ evMissed \in BOOLEAN  BY DEF EvTypeOK
<1>1. CASE dirWatched' = (dirWatched \/ evDir) /\ UNCHANGED evMissed  BY <1>0, <1>1
<1>2. CASE evDir /\ ~dirWatched /\ evMissed' = TRUE /\ UNCHANGED dirWatched
  <2>1. evMissed' /\ evMissed' \in BOOLEAN  BY <1>2
  <2>. QED  BY <1>0, <1>2, <2>1
<1>. QED  BY <1>1, <1>2 DEF WatchDir

\* Every step of an event stream keeps its invariant.
LEMMA EvStep ==
    ASSUME EvInv, [EvNext]_evVars
    PROVE  EvInv'
<1>. USE EventAssumption
<1>t. EvTypeOK /\ rootWatched \in BOOLEAN /\ evDir \in BOOLEAN  BY DEF EvInv, EvTypeOK
<1>1. CASE EvDirChanges
  <2>. DEFINE e == IF evDir THEN "remove" ELSE "create"
  <2>1. /\ Notify(rootWatched, e) /\ evChanges' \in 0..MaxEvChanges
        /\ UNCHANGED <<rootWatched, evLoop, evHand, evPeer, told>>
    BY <1>1 DEF EvDirChanges, EvInv, EvTypeOK
  <2>2. evDir' \in BOOLEAN /\ (evDir' <=> ~evDir) /\ dirWatched' \in BOOLEAN /\ ~dirWatched'
    BY <1>1 DEF EvDirChanges
  <2>3. e \in {"create", "remove"} /\ (e = "create" <=> evDir')  BY <2>2
  <2>. HIDE DEF e
  <2>4. /\ evQueue' \in Seq({"create", "remove"}) /\ Len(evQueue') <= MaxEvQueue
        /\ evMissed' \in BOOLEAN
        /\ \/ ~rootWatched /\ UNCHANGED <<evQueue, evMissed>>
           \/ rootWatched /\ evMissed'
           \/ rootWatched /\ evMissed' = evMissed /\ evQueue' # <<>> /\ evQueue'[Len(evQueue')] = e
    BY <1>t, <2>1, <2>3, NotifyQueue
  <2>5. EvTypeOK'  BY <2>1, <2>2, <2>4 DEF EvInv, EvTypeOK
  <2>6. (rootWatched /\ ~evMissed') => evQueue' # <<>> /\ evQueue'[Len(evQueue')] = e
    BY <2>4
  <2>7. (rootWatched /\ ~evMissed' /\ evDir') => Queued("create")'
    <3>. SUFFICES ASSUME rootWatched, ~evMissed', evDir' PROVE Queued("create")'  OBVIOUS
    <3>1. Len(evQueue') \in DOMAIN evQueue'  BY <2>4, <2>6
    <3>. QED  BY <2>3, <2>6, <3>1 DEF Queued
  <2>8. NoBlindDirectory'  BY <2>1, <2>7 DEF EvInv, NoBlindDirectory
  <2>9. (rootWatched /\ ~evMissed') => evQueue' # <<>> /\ Right(evQueue[Len(evQueue)])'
    BY <2>3, <2>6 DEF Right
  <2>10. LatestIsRight'  BY <2>1, <2>9 DEF EvInv, LatestIsRight, Ready
  <2>. QED  BY <2>1, <2>4, <2>5, <2>8, <2>9, <2>10 DEF EvInv
<1>2. CASE EvWatchesRoot
  <2>1. rootWatched' \in BOOLEAN /\ rootWatched'  BY <1>2 DEF EvWatchesRoot
  <2>. QED  BY <1>2, <2>1 DEF EvWatchesRoot, EvInv, EvTypeOK, NoBlindDirectory, LatestIsRight, Ready
<1>3. CASE EvWatchesRest
  <2>1. /\ dirWatched' \in BOOLEAN /\ evMissed' \in BOOLEAN
        /\ evDir => dirWatched' \/ evMissed'
        /\ evMissed => evMissed'
    BY <1>3, <1>t, WatchDirWatches DEF EvWatchesRest
  <2>2. EvTypeOK'  BY <1>3, <2>1 DEF EvWatchesRest, EvInv, EvTypeOK
  <2>. QED
    BY <1>3, <2>1, <2>2 DEF EvWatchesRest, EvInv, NoBlindDirectory, LatestIsRight, Ready, Right
<1>4. CASE EvSetupFails
  BY <1>4 DEF EvSetupFails, EvInv, EvTypeOK, NoBlindDirectory, LatestIsRight, Ready
<1>r. ASSUME EvReturn PROVE EvInv'
  <2>1. rootWatched' \in BOOLEAN /\ dirWatched' \in BOOLEAN  BY <1>r DEF EvReturn
  <2>2. evQueue' \in Seq({"create", "remove"}) /\ Len(evQueue') = 0  BY <1>r DEF EvReturn
  <2>3. EvTypeOK'  BY <1>r, <2>1, <2>2 DEF EvReturn, EvInv, EvTypeOK
  <2>. QED  BY <1>r, <2>3 DEF EvReturn, EvInv, NoBlindDirectory, LatestIsRight, Ready
<1>5. CASE EvContextDone  BY <1>5, <1>r DEF EvContextDone
<1>6. CASE handleFSEvent
  <2>1. /\ evLoop = "select" /\ evLoop' = "send" /\ evHand' = Head(evQueue) /\ evQueue # <<>>
        /\ evQueue' = Tail(evQueue) /\ UNCHANGED <<evDir, evChanges, rootWatched, evPeer, told>>
    BY <1>6 DEF handleFSEvent
  <2>2. /\ evQueue' \in Seq({"create", "remove"}) /\ Len(evQueue') <= MaxEvQueue
        /\ Head(evQueue) \in {"create", "remove"}
        /\ evQueue' # <<>> => evQueue'[Len(evQueue')] = evQueue[Len(evQueue)]
        /\ evQueue' = <<>> => Head(evQueue) = evQueue[Len(evQueue)]
        /\ (Head(evQueue) # "create" /\ Queued("create")) => Queued("create")'
    BY <1>t, <2>1, TailQueue
  <2>3. /\ dirWatched' \in BOOLEAN /\ evMissed' \in BOOLEAN
        /\ (Head(evQueue) = "create" /\ evDir) => dirWatched' \/ evMissed'
        /\ dirWatched => dirWatched'
        /\ evMissed => evMissed'
    <3>1. CASE Head(evQueue) = "create"
      <4>1. WatchDir  BY <1>6, <3>1 DEF handleFSEvent
      <4>. QED  BY <4>1, <1>t, WatchDirWatches
    <3>2. CASE Head(evQueue) # "create"
      <4>1. UNCHANGED <<dirWatched, evMissed>>  BY <1>6, <3>2 DEF handleFSEvent
      <4>. QED  BY <3>2, <4>1 DEF EvInv, EvTypeOK
    <3>. QED  BY <3>1, <3>2
  <2>4. EvTypeOK'  BY <2>1, <2>2, <2>3 DEF EvInv, EvTypeOK
  <2>5. NoBlindDirectory'  BY <2>1, <2>2, <2>3 DEF EvInv, NoBlindDirectory
  <2>6. ~evMissed' => Right(evQueue[Len(evQueue)])  BY <2>1, <2>3 DEF EvInv, LatestIsRight, Ready
  <2>7. LatestIsRight'  BY <2>1, <2>2, <2>6 DEF LatestIsRight, Ready, Right
  <2>. QED  BY <2>1, <2>4, <2>5, <2>7 DEF EvInv
<1>7. CASE EvPings
  <2>1. EvTypeOK'  BY <1>7 DEF EvPings, EvInv, EvTypeOK
  <2>2. NoBlindDirectory'  BY <1>7 DEF EvPings, EvInv, NoBlindDirectory, Queued
  <2>3. LatestIsRight'  BY <1>7 DEF EvPings, EvInv, LatestIsRight, Ready, Right
  <2>. QED  BY <1>7, <2>1, <2>2, <2>3 DEF EvPings, EvInv
<1>8. CASE EvSends
  <2>1. CASE EvReturn  BY <2>1, <1>r
  <2>2. CASE ~EvReturn
    <3>1. /\ evLoop = "send" /\ evLoop' = "select" /\ evHand' = "none"
          /\ told' = IF evPeer = "open" /\ evHand \in {"create", "remove"} THEN evHand ELSE told
          /\ UNCHANGED <<evDir, evChanges, rootWatched, dirWatched, evQueue, evPeer, evMissed>>
      BY <1>8, <2>2 DEF EvSends
    <3>2. EvTypeOK'  BY <3>1 DEF EvInv, EvTypeOK
    <3>3. NoBlindDirectory'  BY <3>1 DEF EvInv, NoBlindDirectory, Queued
    <3>4. LatestIsRight'  BY <1>t, <3>1 DEF EvInv, EvTypeOK, LatestIsRight, Ready, Right
    <3>. QED  BY <3>1, <3>2, <3>3, <3>4 DEF EvInv
  <2>. QED  BY <2>1, <2>2
<1>9. CASE EvPeerGoes
  <2>1. EvTypeOK'  BY <1>9 DEF EvPeerGoes, EvInv, EvTypeOK
  <2>2. NoBlindDirectory'  BY <1>9 DEF EvPeerGoes, EvInv, NoBlindDirectory, Queued
  <2>3. LatestIsRight'  BY <1>9 DEF EvPeerGoes, EvInv, LatestIsRight, Ready, Right
  <2>. QED  BY <1>9, <2>1, <2>2, <2>3 DEF EvPeerGoes, EvInv, Right
<1>10. CASE UNCHANGED evVars
  BY <1>10 DEF evVars, EvInv, EvTypeOK, NoBlindDirectory, Queued, LatestIsRight, Ready, Right
<1>. QED
  BY <1>1, <1>2, <1>3, <1>4, <1>5, <1>6, <1>7, <1>8, <1>9, <1>10 DEF EvNext, EvSetup

-----------------------------------------------------------------------------
(* ApiServer *)

\* As long as a stream is there and Run has met no error, the API's server is
\* one that Run has not got past.
StreamHolds ==
    (connection = "events" /\ evLoop # "returned" /\ ~firstErr) =>
       /\ run = "shutdown" => \A s \in Indices : s < k => Servers[s] # "api"
       /\ run \in {"closer", "tracer", "drain", "done"} => \A s \in Indices : Servers[s] # "api"

ApiInv ==
    /\ connection \in Kinds
    /\ RunInv /\ ExecInv /\ SshInv /\ TunInv /\ EvInv
    /\ StreamHolds

\* The parts start in their invariants.
LEMMA ApiStarts == Init => ApiInv
BY RunStarts, ExecStarts, SshStarts, TunStarts, EvStarts DEF Init, ApiInv, StreamHolds, RunInit

\* What a step of the server is to each of its parts.
LEMMA ComponentSteps ==
    ASSUME [Next]_apiVars
    PROVE  /\ connection' = connection
           /\ RunNext \/ CloserReturns \/ ShutdownIdle \/ UNCHANGED runVars
           /\ [ExecNext]_execVars
           /\ SshNext \/ SshHangsUp \/ UNCHANGED sshVars
           /\ [TunNext]_tunVars
           /\ [EvNext]_evVars
<1>1. CASE ExecDoes(ExecNext)  BY <1>1 DEF ExecDoes
<1>2. CASE ForwardDoes(TunNext)  BY <1>2 DEF ForwardDoes
<1>3. CASE SshDoes(SshNext)  BY <1>3 DEF SshDoes
<1>4. CASE EventsDo(EvNext)  BY <1>4 DEF EventsDo
<1>5. CASE RunDoes(RunNext)  BY <1>5 DEF RunDoes
<1>6. CASE CloserDoes
  <2>1. CASE connection = "ssh"  BY <1>6, <2>1 DEF CloserDoes, SshClose, SshHangsUp
  <2>2. CASE connection # "ssh"  BY <1>6, <2>2 DEF CloserDoes, RunDoes
  <2>. QED  BY <2>1, <2>2
<1>7. CASE IdleDoes  BY <1>7 DEF IdleDoes, RunDoes
<1>8. CASE UNCHANGED apiVars  BY <1>8 DEF apiVars
<1>. QED  BY <1>1, <1>2, <1>3, <1>4, <1>5, <1>6, <1>7, <1>8 DEF Next

\* A stream that has returned stays so.
LEMMA ReturnedStays ==
    ASSUME [EvNext]_evVars, evLoop = "returned"
    PROVE  evLoop' = "returned"
BY DEF EvNext, EvSetup, EvDirChanges, EvWatchesRoot, EvWatchesRest, EvSetupFails, EvContextDone,
       handleFSEvent, EvPings, EvSends, EvPeerGoes, evVars

\* Run leaves the API's server behind with the stream ended or with an error.
LEMMA StreamStep ==
    ASSUME ApiInv, [Next]_apiVars
    PROVE  StreamHolds'
<1>. USE IndexRange
<1>0. RunInv /\ RunTypeOK /\ StreamHolds /\ k \in Indices /\ firstErr \in BOOLEAN
  BY DEF ApiInv, RunInv, RunTypeOK
<1>. SUFFICES ASSUME connection' = "events", evLoop' # "returned", ~firstErr'
              PROVE  /\ run' = "shutdown" => \A s \in Indices : s < k' => Servers[s] # "api"
                     /\ run' \in {"closer", "tracer", "drain", "done"} =>
                           \A s \in Indices : Servers[s] # "api"
  BY DEF StreamHolds
<1>1. connection = "events" /\ evLoop # "returned"  BY ComponentSteps, ReturnedStays
<1>2. CASE UNCHANGED <<run, k, firstErr>>  BY <1>0, <1>1, <1>2 DEF StreamHolds
<1>3. CASE IdleDoes
  <2>1. ShutdownIdle /\ Servers[k] # "api"  BY <1>1, <1>3 DEF IdleDoes, RunDoes
  <2>2. run = "shutdown" /\ ~firstErr  BY <2>1 DEF ShutdownIdle
  <2>3. \A s \in Indices : s <= k => Servers[s] # "api"  BY <1>0, <1>1, <2>1, <2>2 DEF StreamHolds
  <2>4. \/ k' = k + 1 /\ run' = "shutdown"
        \/ k' = 1 /\ run' = "closer" /\ \A s \in Indices : s <= k
    BY <1>0, <2>1, <2>2, Loop DEF ShutdownIdle
  <2>. QED  BY <1>0, <2>3, <2>4
<1>4. CASE CloserDoes
  <2>1. run = "closer" /\ run' = "tracer" /\ firstErr' = firstErr
    BY <1>1, <1>4 DEF CloserDoes, RunDoes, CloserReturns
  <2>. QED  BY <1>0, <1>1, <2>1 DEF StreamHolds
<1>5. CASE RunDoes(RunNext)
  <2>1. RunNext  BY <1>5 DEF RunDoes
  <2>2. CASE SignalReceived
    <3>1. run = "wait" /\ run' = "shutdown" /\ k' = k  BY <2>2 DEF SignalReceived
    <3>. QED  BY <1>0, <3>1 DEF RunInv
  <2>3. ASSUME NEW s \in Indices, ListenerReported(s)
        PROVE  /\ run' = "shutdown" => \A x \in Indices : x < k' => Servers[x] # "api"
               /\ run' \in {"closer", "tracer", "drain", "done"} =>
                     \A x \in Indices : Servers[x] # "api"
    <3>1. run = "wait" /\ k' = k /\ run' \in {"failed", "shutdown"}  BY <2>3 DEF ListenerReported
    <3>. QED  BY <1>0, <3>1 DEF RunInv
  <2>4. CASE ShutdownTimesOut
    <3>1. firstErr'  BY <2>4 DEF ShutdownTimesOut
    <3>. QED  BY <3>1
  <2>5. CASE TracerReturns
    <3>1. run = "tracer" /\ run' = "drain" /\ ~firstErr  BY <1>0, <2>5 DEF TracerReturns
    <3>. QED  BY <1>0, <1>1, <3>1 DEF StreamHolds
  <2>6. CASE DrainChannel
    <3>1. run = "drain" /\ run' \in {"drain", "done"} /\ ~firstErr
      BY <1>0, <2>6, Loop DEF DrainChannel
    <3>. QED  BY <1>0, <1>1, <3>1 DEF StreamHolds
  <2>7. CASE \/ ShutdownBegins \/ GraceEnds \/ Signal
             \/ \E s \in Indices : ListenerCrashes(s) \/ ListenerCloses(s)
    <3>1. UNCHANGED <<run, k, firstErr>>
      BY <2>7 DEF ShutdownBegins, GraceEnds, Signal, ListenerCrashes, ListenerCloses
    <3>. QED  BY <1>2, <3>1
  <2>. QED  BY <2>1, <2>2, <2>3, <2>4, <2>5, <2>6, <2>7 DEF RunNext, RunSteps
<1>6. CASE ExecDoes(ExecNext) \/ ForwardDoes(TunNext) \/ SshDoes(SshNext) \/ EventsDo(EvNext)
  BY <1>2, <1>6 DEF ExecDoes, ForwardDoes, SshDoes, EventsDo, runVars
<1>7. CASE UNCHANGED apiVars  BY <1>2, <1>7 DEF apiVars, runVars
<1>. QED  BY <1>3, <1>4, <1>5, <1>6, <1>7 DEF Next

\* Every step of the server keeps the invariant.
LEMMA ApiStep ==
    ASSUME ApiInv, [Next]_apiVars
    PROVE  ApiInv'
<1>1. RunInv' /\ ExecInv' /\ SshInv' /\ TunInv' /\ EvInv' /\ connection' = connection
  BY ComponentSteps, RunStep, ExecStep, SshStep, TunStep, EvStep DEF ApiInv
<1>. QED  BY <1>1, StreamStep DEF ApiInv

\* The invariant holds throughout.
LEMMA ApiInvariant == Spec => []ApiInv
<1>1. ApiInv /\ [Next]_apiVars => ApiInv'  BY ApiStep
<1>. QED  BY ApiStarts, <1>1, PTL DEF Spec

-----------------------------------------------------------------------------
\* Every counter stays within its bound and every program counter at a label.
THEOREM TypeCorrect == Spec => []TypeOK
<1>1. ApiInv => TypeOK
  BY DEF ApiInv, TypeOK, RunInv, ExecInv, SshInv, TunInv, EvInv
<1>. QED  BY ApiInvariant, <1>1, PTL

\* The exit frame of an exec session never overtakes its output and never
\* misreports how the shell ended.
THEOREM ExitIsLast == Spec => []ExitFollowsOutput
<1>1. ApiInv => ExitFollowsOutput
  BY DEF ApiInv, ExecInv, ExecOrder, ExitFollowsOutput
<1>. QED  BY ApiInvariant, <1>1, PTL

\* The exit status of an SSH session comes after all its output.
THEOREM StatusIsLast == Spec => []StatusFollowsOutput
<1>1. ApiInv => StatusFollowsOutput
  BY DEF ApiInv, SshInv, SshTypeOK, StatusFollowsOutput
<1>. QED  BY ApiInvariant, <1>1, PTL

\* Nobody of bash's own process group outlives an SSH session.
THEOREM GroupIsGone == Spec => []GroupDiesWithSession
<1>1. ApiInv => GroupDiesWithSession
  BY DEF ApiInv, SshInv, GroupDiesWithSession
<1>. QED  BY ApiInvariant, <1>1, PTL

\* An answer crosses four pumps and two closes whole, unless the application
\* sent into an end that was closed already.
THEOREM AnswerIsWhole == Spec => []AnswerArrivesWhole
<1>1. ApiInv => AnswerArrivesWhole
  <2>. SUFFICES ASSUME ApiInv PROVE AnswerArrivesWhole  OBVIOUS
  <2>1. TunTypeOK /\ QuietEnd  BY DEF ApiInv, TunInv
  <2>. QED  BY <2>1 DEF AnswerArrivesWhole, QuietEnd, Quiet, OutHolds, DownHolds, TunTypeOK
<1>. QED  BY ApiInvariant, <1>1, PTL

\* A shutdown loses no listener's goroutine and no listener's error.
THEOREM ReturnIsClean == Spec => []CleanReturn
<1>1. ApiInv => CleanReturn
  BY DEF ApiInv, RunInv, Drained, CleanReturn
<1>. QED  BY ApiInvariant, <1>1, PTL

\* No part of the workspace goes dark for an event stream.
THEOREM NothingIsDark == Spec => []NoBlindDirectory
<1>1. ApiInv => NoBlindDirectory  BY DEF ApiInv, EvInv
<1>. QED  BY ApiInvariant, <1>1, PTL

\* What a client was last told of a directory is so once the queue is dry.
THEOREM NewsIsRight == Spec => []ToldIsCurrent
<1>1. ApiInv => ToldIsCurrent
  <2>. SUFFICES ASSUME ApiInv, evLoop = "select", evPeer = "open", ~evMissed, told # "nothing",
                       ~Queued("create"), ~Queued("remove")
                PROVE  (told = "create") = evDir
    BY DEF ToldIsCurrent
  <2>1. EvTypeOK /\ LatestIsRight /\ evHand = "none" /\ evDir \in BOOLEAN
    BY DEF ApiInv, EvInv, EvTypeOK
  <2>2. evQueue = <<>>
    <3>1. ASSUME evQueue # <<>> PROVE FALSE
      <4>1. 1 \in DOMAIN evQueue /\ evQueue[1] \in {"create", "remove"}
        BY <2>1, <3>1 DEF EvTypeOK
      <4>. QED  BY <4>1 DEF Queued
    <3>. QED  BY <3>1
  <2>3. (told = "create") <=> evDir  BY <2>1, <2>2 DEF LatestIsRight, Ready, Right
  <2>. QED  BY <2>1, <2>3
<1>. QED  BY ApiInvariant, <1>1, PTL

\* Run does not call a shutdown clean that cut a stream off.
THEOREM CutIsReported == Spec => []CutStreamIsAnError
<1>1. ApiInv => CutStreamIsAnError
  BY DEF ApiInv, StreamHolds, CutStreamIsAnError
<1>. QED  BY ApiInvariant, <1>1, PTL
=============================================================================
