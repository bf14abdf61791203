----------------------------- MODULE ExecSession -----------------------------
(***************************************************************************)
(* One /api/exec session (internal/api/exec.go): bash on a PTY, a pump in  *)
(* each direction, and the handler, which waits for whichever pump ends    *)
(* first and then tears everything down.                                   *)
(*                                                                         *)
(* Terminal data is counted in chunks. The request's context is that of a  *)
(* hijacked connection and outlives the handler, so it never ends a wait.  *)
(***************************************************************************)
EXTENDS Naturals

CONSTANTS MaxOutput,    \* bound: chunks the shell prints
          MaxInput,     \* bound: stdin frames the client sends
          TtyRoom,      \* chunks the terminal's input queue holds
          ReadsInput    \* what runs in the terminal reads its input, sooner or later

ASSUME ExecAssumption ==
    /\ MaxOutput \in Nat /\ MaxInput \in Nat /\ TtyRoom \in Nat \ {0}
    /\ ReadsInput \in BOOLEAN

VARIABLES
    bash,                 \* "running", "exited" by itself, or "killed"
    tty, job,             \* bash, or a job of its own process group, has the terminal open
    printed, out,         \* chunks printed so far, and those not yet read
    input,                \* chunks written to the terminal, not yet read there
    ptmx,                 \* the PTY master: "open" or "closed"
    outPump, inPump,      \* pumpPTYToWS, pumpWSToPTY
    ptyDone, wsDone,      \* what each pump left in its channel
    handler, clientClosed, code,
    ws,                   \* the server's end of the WebSocket: "open" or "closed"
    peer,                 \* the client: "reading", "stalled" or "left"
    typed,                \* stdin frames read from the client
    shown, exitFrame      \* what the client has received

execVars == <<bash, tty, job, printed, out, input, ptmx, outPump, inPump, ptyDone, wsDone,
              handler, clientClosed, code, ws, peer, typed, shown, exitFrame>>

\* startExecSession has started bash and both pumps run.
ExecInit ==
    /\ bash = "running" /\ tty = TRUE /\ job = FALSE
    /\ printed = 0 /\ out = 0 /\ input = 0
    /\ ptmx = "open"
    /\ outPump = "read" /\ inPump = "read"
    /\ ptyDone = "none" /\ wsDone = "none"
    /\ handler = "await" /\ clientClosed = FALSE /\ code = "none"
    /\ ws = "open" /\ peer = "reading"
    /\ typed = 0 /\ shown = 0 /\ exitFrame = "none"

shellVars == <<bash, tty, job, printed, input>>
pumpVars == <<outPump, inPump, ptyDone, wsDone>>
handlerVars == <<handler, clientClosed, code, exitFrame>>

-----------------------------------------------------------------------------
\* The shell and what it runs.

\* The terminal's slave side is open somewhere.
Attached == tty \/ job

ShellPrints ==
    /\ Attached /\ ptmx = "open" /\ printed < MaxOutput
    /\ printed' = printed + 1 /\ out' = out + 1
    /\ UNCHANGED <<bash, tty, job, input, ptmx, pumpVars, handlerVars, ws, peer, typed, shown>>

ShellReads ==
    /\ Attached /\ input > 0
    /\ input' = input - 1
    /\ UNCHANGED <<bash, tty, job, printed, out, ptmx, pumpVars, handlerVars, ws, peer, typed, shown>>

\* A background job, say, in a group of its own; nothing hangs up on it when
\* bash exits.
JobStarts ==
    /\ tty /\ ~job
    /\ job' = TRUE
    /\ UNCHANGED <<bash, tty, printed, out, input, ptmx, pumpVars, handlerVars, ws, peer, typed, shown>>

JobEnds ==
    /\ job /\ job' = FALSE
    /\ UNCHANGED <<bash, tty, printed, out, input, ptmx, pumpVars, handlerVars, ws, peer, typed, shown>>

ShellExits ==
    /\ bash = "running"
    /\ bash' = "exited" /\ tty' = FALSE
    /\ UNCHANGED <<job, printed, out, input, ptmx, pumpVars, handlerVars, ws, peer, typed, shown>>

\* The shell redirects its streams away from the terminal and runs on.
ShellDetaches ==
    /\ bash = "running" /\ tty
    /\ tty' = FALSE
    /\ UNCHANGED <<bash, job, printed, out, input, ptmx, pumpVars, handlerVars, ws, peer, typed, shown>>

-----------------------------------------------------------------------------
\* pumpPTYToWS.

\* A terminal nobody has open gives EIO, but only after what was printed to it.
OutPumpReads ==
    /\ outPump = "read"
    /\ \/ /\ ptmx = "open" /\ out > 0
          /\ out' = out - 1 /\ outPump' = "lock" /\ UNCHANGED ptyDone
       \/ /\ ptmx = "closed" \/ (out = 0 /\ ~Attached)
          /\ outPump' = "done" /\ ptyDone' = "error" /\ UNCHANGED out
    /\ UNCHANGED <<shellVars, ptmx, inPump, wsDone, handlerVars, ws, peer, typed, shown>>

\* writeFrame takes writeMu, which nobody else holds for longer than a step.
OutPumpLocks ==
    /\ outPump = "lock"
    /\ outPump' = "send"
    /\ UNCHANGED <<shellVars, out, ptmx, inPump, ptyDone, wsDone, handlerVars, ws, peer, typed, shown>>

\* A stalled client holds the write, and with it writeMu. To one that has left
\* a write may still succeed, into the kernel's buffers.
OutPumpSends ==
    /\ outPump = "send"
    /\ \/ /\ ws = "open" /\ peer # "stalled"
          /\ shown' = IF peer = "reading" THEN shown + 1 ELSE shown
          /\ outPump' = "read" /\ UNCHANGED <<ptyDone, ws>>
       \/ /\ ws = "closed" \/ peer = "left"
          /\ outPump' = "done" /\ ptyDone' = "error" /\ ws' = "closed"
          /\ UNCHANGED shown
    /\ UNCHANGED <<shellVars, out, ptmx, inPump, wsDone, handlerVars, peer, typed>>

-----------------------------------------------------------------------------
\* pumpWSToPTY.

\* A stdin frame the client has sent. Other frames change nothing here.
InPumpReads ==
    /\ inPump = "read" /\ ws = "open" /\ typed < MaxInput
    /\ typed' = typed + 1 /\ inPump' = "apply"
    /\ UNCHANGED <<shellVars, out, ptmx, outPump, ptyDone, wsDone, handlerVars, ws, peer, shown>>

\* Read gives an error, a clean close or not, which closes the WebSocket.
InPumpEnds ==
    /\ inPump = "read" /\ (ws = "closed" \/ peer = "left")
    /\ inPump' = "done" /\ wsDone' \in {"clean", "error"} /\ ws' = "closed"
    /\ UNCHANGED <<shellVars, out, ptmx, outPump, ptyDone, handlerVars, peer, typed, shown>>

\* A write to the master waits for room in the terminal's queue, also of a
\* terminal nobody has open any more.
applyClientFrame ==
    /\ inPump = "apply"
    /\ \/ /\ ptmx = "open" /\ input < TtyRoom
          /\ input' = input + 1
          /\ inPump' = "read" /\ UNCHANGED wsDone
       \/ /\ ptmx = "closed"
          /\ inPump' = "done" /\ wsDone' = "error" /\ UNCHANGED input
    /\ UNCHANGED <<bash, tty, job, printed, out, ptmx, outPump, ptyDone, handlerVars, ws, peer, typed, shown>>

-----------------------------------------------------------------------------
\* runExecSession.

\* Seeded fault: the session ends with the shell, not with its output.
AwaitShell ==
    /\ handler = "await" /\ (bash = "exited" \/ ptyDone # "none" \/ wsDone # "none")
    /\ handler' = "teardown"
    /\ clientClosed' = (bash = "running" /\ ptyDone = "none" /\ wsDone = "clean")
    /\ UNCHANGED <<shellVars, out, ptmx, pumpVars, code, exitFrame, ws, peer, typed, shown>>

\* With both channels ready either may be taken.
awaitTermination ==
    /\ handler = "await"
    /\ \/ ptyDone # "none" /\ clientClosed' = FALSE
       \/ wsDone # "none" /\ clientClosed' = (wsDone = "clean")
    /\ handler' = "teardown"
    /\ UNCHANGED <<shellVars, out, ptmx, pumpVars, code, exitFrame, ws, peer, typed, shown>>


\* The master is closed, which takes the terminal from all who have it, and
\* bash's process group is killed. A job lives on, out of the session's reach.
Teardown ==
    /\ handler = "teardown"
    /\ ptmx' = "closed" /\ tty' = FALSE /\ job' = FALSE
    /\ bash' = IF bash = "running" THEN "killed" ELSE bash
    /\ handler' = "wait"
    /\ UNCHANGED <<printed, out, input, pumpVars, clientClosed, code, exitFrame, ws, peer, typed, shown>>

\* -1 for a signal, unless the client asked for it by leaving.
waitExitCode ==
    /\ handler = "wait" /\ bash # "running"
    /\ code' = IF bash = "exited" THEN "own" ELSE IF clientClosed THEN "zero" ELSE "signal"
    /\ handler' = "exit"
    /\ UNCHANGED <<shellVars, out, ptmx, pumpVars, clientClosed, exitFrame, ws, peer, typed, shown>>

\* The exit frame waits for writeMu without a limit, then two seconds for the
\* client; a write that times out closes the WebSocket. The close handshake
\* that follows ends, with an answer or after its own timeout.
writeExitAndClose ==
    /\ handler = "exit" /\ outPump # "send"
    /\ exitFrame' = IF ws = "open" /\ peer = "reading" THEN code ELSE "none"
    /\ ws' = "closed"
    /\ handler' = "drain"
    /\ UNCHANGED <<shellVars, out, ptmx, pumpVars, clientClosed, code, peer, typed, shown>>

\* pumpWG.Wait; the deferred kill finds nobody.
HandlerReturns ==
    /\ handler = "drain" /\ outPump = "done" /\ inPump = "done"
    /\ handler' = "returned"
    /\ UNCHANGED <<shellVars, out, ptmx, pumpVars, clientClosed, code, exitFrame, ws, peer, typed, shown>>

-----------------------------------------------------------------------------
\* The client.

PeerStalls ==
    /\ peer = "reading" /\ peer' = "stalled"
    /\ UNCHANGED <<shellVars, out, ptmx, pumpVars, handlerVars, ws, typed, shown>>

PeerResumes ==
    /\ peer = "stalled" /\ peer' = "reading"
    /\ UNCHANGED <<shellVars, out, ptmx, pumpVars, handlerVars, ws, typed, shown>>

PeerLeaves ==
    /\ peer # "left" /\ peer' = "left"
    /\ UNCHANGED <<shellVars, out, ptmx, pumpVars, handlerVars, ws, typed, shown>>

HandlerSteps ==
    awaitTermination \/ Teardown \/ waitExitCode \/ writeExitAndClose \/ HandlerReturns

ExecNext ==
    \/ ShellPrints \/ ShellReads \/ ShellExits \/ ShellDetaches \/ JobStarts \/ JobEnds
    \/ OutPumpReads \/ OutPumpLocks \/ OutPumpSends
    \/ InPumpReads \/ InPumpEnds \/ applyClientFrame
    \/ HandlerSteps
    \/ PeerStalls \/ PeerResumes \/ PeerLeaves

-----------------------------------------------------------------------------
ExecTypeOK ==
    /\ bash \in {"running", "exited", "killed"}
    /\ tty \in BOOLEAN /\ job \in BOOLEAN
    /\ printed \in 0..MaxOutput /\ out \in 0..MaxOutput /\ shown \in 0..MaxOutput
    /\ typed \in 0..MaxInput /\ input \in 0..TtyRoom
    /\ ptmx \in {"open", "closed"} /\ ws \in {"open", "closed"}
    /\ outPump \in {"read", "lock", "send", "done"} /\ inPump \in {"read", "apply", "done"}
    /\ ptyDone \in {"none", "error"} /\ wsDone \in {"none", "clean", "error"}
    /\ handler \in {"await", "teardown", "wait", "exit", "drain", "returned"}
    /\ clientClosed \in BOOLEAN
    /\ code \in {"none", "own", "zero", "signal"} /\ exitFrame \in {"none", "own", "zero", "signal"}
    /\ peer \in {"reading", "stalled", "left"}

\* A client that gets the exit frame has got everything that was printed to
\* the terminal, by jobs that outlive the shell too, and the code is the shell's own if it exited by itself: no
\* frame is overtaken or cut off by the teardown (pumpPTYToWS,
\* awaitTermination, writeExitAndClose).
ExitFollowsOutput ==
    exitFrame # "none" => shown = printed /\ (exitFrame = "own" <=> bash = "exited")
=============================================================================
