------------------------------ MODULE SshSession ------------------------------
(***************************************************************************)
(* One session of the embedded SSH server (internal/api/ssh.go): bash on a *)
(* PTY (runPTY) or on pipes (runExec), bound to the channel of a client.   *)
(* Nothing is killed before cmd.Wait has returned.                         *)
(*                                                                         *)
(* Output is counted in chunks; of what the client types it matters only   *)
(* that it may be more than bash takes, and that it ends. gliderlabs/ssh   *)
(* is external.                                                            *)
(***************************************************************************)
EXTENDS Naturals

CONSTANT MaxSshOutput   \* bound: chunks a session's processes print

ASSUME SshAssumption == MaxSshOutput \in Nat

VARIABLES
    sshKind,          \* "pty" or "exec"
    sshBash,          \* "running", "exited" by itself, or "killed"
    ignoresHup,       \* what bash runs ignores SIGHUP
    child,            \* a background process: "none", one of bash's process "group",
                      \* or a "job" in a group of its own
    sshPrinted, sshOut, sshShown,   \* chunks printed, not yet copied, received
    master,           \* the PTY master: "open", "cut" by the stdin copy, "closed"
    stdinCopy,        \* io.Copy to bash: "copy", "blocked" in a write, or "done"
    outCopy,          \* io.Copy to the client: "copy" or "done"
    session,          \* runPTY or runExec: "run" or "returned"
    sshPeer,          \* the client: "open", "eof" on its stdin, or "gone"
    status            \* the exit status the client received

sshVars == <<sshKind, sshBash, ignoresHup, child, sshPrinted, sshOut, sshShown, master,
             stdinCopy, outCopy, session, sshPeer, status>>

SshInit ==
    /\ sshKind \in {"pty", "exec"}
    /\ sshBash = "running" /\ ignoresHup \in BOOLEAN
    /\ sshKind = "exec" => ~ignoresHup   \* nobody hangs up on a pipe
    /\ child = "none"
    /\ sshPrinted = 0 /\ sshOut = 0 /\ sshShown = 0
    /\ master = "open"
    /\ stdinCopy = "copy" /\ outCopy = "copy"
    /\ session = "run" /\ sshPeer = "open" /\ status = "none"

\* Somebody can still write to what outCopy reads: a terminal or a pipe stays
\* open as long as one process has it. bash keeps its own while it runs.
Writable == sshBash = "running" \/ child # "none"

-----------------------------------------------------------------------------
\* bash and its children.

SshPrints ==
    /\ Writable /\ master = "open" /\ outCopy = "copy"
    /\ sshPrinted < MaxSshOutput
    /\ sshPrinted' = sshPrinted + 1 /\ sshOut' = sshOut + 1
    /\ UNCHANGED <<sshKind, sshBash, ignoresHup, child, sshShown, master, stdinCopy, outCopy, session, sshPeer, status>>

SshForks ==
    /\ sshBash = "running" /\ child = "none"
    /\ child' \in {"group", "job"}
    /\ UNCHANGED <<sshKind, sshBash, ignoresHup, sshPrinted, sshOut, sshShown, master, stdinCopy, outCopy, session, sshPeer, status>>

SshChildExits ==
    /\ child # "none" /\ child' = "none"
    /\ UNCHANGED <<sshKind, sshBash, ignoresHup, sshPrinted, sshOut, sshShown, master, stdinCopy, outCopy, session, sshPeer, status>>

SshBashExits ==
    /\ sshBash = "running" /\ sshBash' = "exited"
    /\ UNCHANGED <<sshKind, ignoresHup, child, sshPrinted, sshOut, sshShown, master, stdinCopy, outCopy, session, sshPeer, status>>

-----------------------------------------------------------------------------
\* The copies.

\* One chunk to the client; to one that is gone the write fails, which ends
\* the copy, and so does the end of the output.
OutCopies ==
    /\ outCopy = "copy"
    /\ \/ /\ sshOut > 0 /\ master # "cut" /\ sshPeer # "gone"
          /\ sshOut' = sshOut - 1 /\ sshShown' = sshShown + 1 /\ UNCHANGED outCopy
       \/ /\ \/ master = "cut"
             \/ sshOut > 0 /\ sshPeer = "gone"
             \/ sshOut = 0 /\ ~Writable
          /\ outCopy' = "done" /\ UNCHANGED <<sshOut, sshShown>>
    /\ UNCHANGED <<sshKind, sshBash, ignoresHup, child, sshPrinted, master, stdinCopy, session, sshPeer, status>>

\* The client types more than the terminal has room for. A pipe fills up, too,
\* but nothing waits for that copy.
StdinBlocks ==
    /\ sshKind = "pty" /\ stdinCopy = "copy" /\ sshPeer = "open" /\ session = "run"
    /\ stdinCopy' = "blocked"
    /\ UNCHANGED <<sshKind, sshBash, ignoresHup, child, sshPrinted, sshOut, sshShown, master, outCopy, session, sshPeer, status>>

\* bash, or what it runs, reads on.
StdinIsRead ==
    /\ stdinCopy = "blocked" /\ Writable /\ session = "run"
    /\ stdinCopy' = "copy"
    /\ UNCHANGED <<sshKind, sshBash, ignoresHup, child, sshPrinted, sshOut, sshShown, master, outCopy, session, sshPeer, status>>

\* The client's stdin ends, at the latest with the session; a terminal nobody
\* has open takes writes as long as there is room. A PTY's master is closed,
\* which hangs up on bash; a pipe is closed, which bash may or may not care
\* about.
StdinEnds ==
    /\ \/ stdinCopy = "copy" /\ sshPeer # "open"
       \/ stdinCopy # "done" /\ session = "returned"
    /\ stdinCopy' = "done"
    /\ IF sshKind = "pty" /\ session = "run"
       THEN /\ master' = "cut"
            /\ sshBash' = IF sshBash = "running" /\ ~ignoresHup THEN "killed" ELSE sshBash
       ELSE UNCHANGED <<master, sshBash>>
    /\ UNCHANGED <<sshKind, ignoresHup, child, sshPrinted, sshOut, sshShown, outCopy, session, sshPeer, status>>

-----------------------------------------------------------------------------
\* Seeded fault: runExec waits for the process alone, as with *os.File streams.
ReturnAtExit ==
    /\ session = "run" /\ sshBash # "running"
    /\ session' = "returned"
    /\ master' = IF master = "open" THEN "closed" ELSE master
    /\ child' = IF child = "group" THEN "none" ELSE child
    /\ status' = IF sshPeer = "gone" THEN "none" ELSE IF sshBash = "exited" THEN "own" ELSE "signal"
    /\ UNCHANGED <<sshKind, sshBash, ignoresHup, sshPrinted, sshOut, sshShown, stdinCopy, outCopy, sshPeer>>

\* The output copied and bash waited for, in this order (runPTY) or the other
\* (cmd.Wait in runExec), the deferred calls kill bash's group and close the
\* master, and the status goes out.
SessionReturns ==
    /\ session = "run" /\ outCopy = "done" /\ sshBash # "running"
    /\ session' = "returned"
    /\ master' = IF master = "open" THEN "closed" ELSE master
    /\ child' = IF child = "group" THEN "none" ELSE child
    /\ status' = IF sshPeer = "gone" THEN "none" ELSE IF sshBash = "exited" THEN "own" ELSE "signal"
    /\ UNCHANGED <<sshKind, sshBash, ignoresHup, sshPrinted, sshOut, sshShown, stdinCopy, outCopy, sshPeer>>

\* The client.
SshPeerEOF ==
    /\ sshPeer = "open" /\ sshPeer' = "eof"
    /\ UNCHANGED <<sshKind, sshBash, ignoresHup, child, sshPrinted, sshOut, sshShown, master, stdinCopy, outCopy, session, status>>

SshPeerGoes ==
    /\ sshPeer # "gone" /\ sshPeer' = "gone"
    /\ UNCHANGED <<sshKind, sshBash, ignoresHup, child, sshPrinted, sshOut, sshShown, master, stdinCopy, outCopy, session, status>>

SshNext ==
    \/ SshPrints \/ SshForks \/ SshChildExits \/ SshBashExits
    \/ OutCopies \/ StdinBlocks \/ StdinIsRead \/ StdinEnds \/ SessionReturns
    \/ SshPeerEOF \/ SshPeerGoes

-----------------------------------------------------------------------------
SshTypeOK ==
    /\ sshKind \in {"pty", "exec"}
    /\ sshBash \in {"running", "exited", "killed"}
    /\ ignoresHup \in BOOLEAN /\ child \in {"none", "group", "job"}
    /\ sshPrinted \in 0..MaxSshOutput /\ sshOut \in 0..MaxSshOutput /\ sshShown \in 0..MaxSshOutput
    /\ master \in {"open", "cut", "closed"}
    /\ stdinCopy \in {"copy", "blocked", "done"} /\ outCopy \in {"copy", "done"}
    /\ session \in {"run", "returned"}
    /\ sshPeer \in {"open", "eof", "gone"}
    /\ status \in {"none", "own", "signal"}

\* A client that gets an exit status has got everything that was printed, by
\* background processes on the same terminal or pipe too, unless it ended its own stdin
\* first on a terminal (runPTY, runExec, waitExit).
StatusFollowsOutput == status # "none" /\ master # "cut" => sshShown = sshPrinted

\* When a session has returned bash is gone, and with it all of its process
\* group, whichever way it ended; what is left can only be a job with a group
\* of its own (the deferred Kill of runPTY and runExec).
GroupDiesWithSession == session = "returned" => sshBash # "running" /\ child # "group"
=============================================================================
