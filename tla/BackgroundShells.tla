-------------------------- MODULE BackgroundShells --------------------------
(***************************************************************************)
(* Background shells: Bash(run_in_background=true), KillShell and          *)
(* BashOutput over the ShellRegistry (internal/tools/shell_registry.go,    *)
(* bash.go, bash_output.go, kill_shell.go).                                *)
(*                                                                         *)
(* Per shell the program runs a handler, one drain goroutine per output    *)
(* stream and a waiter goroutine; the operating system runs bash and the   *)
(* children bash leaves in its process group.  KillShell calls run         *)
(* concurrently with all of them.  Every lock-protected method of the      *)
(* registry or of a BackgroundShell is one step; what a handler does       *)
(* between two of them is interleaved.                                     *)
(*                                                                         *)
(* Output is abstracted to amounts: a stream is captured in order, so how  *)
(* much was written, is in the pipe and was captured tells all streams     *)
(* apart.  Exit codes are abstracted to whether one is recorded.           *)
(***************************************************************************)
EXTENDS Integers, FiniteSets

CONSTANTS Shells,      \* shell ids (NewShellID: fresh uuids)
          Streams,     \* the output streams, "stdout" and "stderr"
          Pids,        \* process ids the kernel hands out
          Callers,     \* concurrent KillShell calls
          NoShell,     \* what an idle KillShell call works on
          OutputCap,   \* shellOutputCapBytes
          MaxWritten   \* bound: amount a shell writes to one stream

ASSUME ConstantsAssumption ==
    /\ Pids \subseteq Nat \ {0}
    /\ NoShell \notin Shells
    /\ OutputCap \in Nat
    /\ MaxWritten \in Nat

NoPid == 0

VARIABLES
    registry,  \* ShellRegistry.shells: the ids registered
    hpc,       \* handleBashBackground, per shell
    pgid,      \* BackgroundShell.pgid, 0 until SetPgid
    exited,    \* BackgroundShell.exitCode # nil
    buf,       \* BackgroundShell.stdout / stderr: amount captured
    trunc,     \* stdoutTruncated / stderrTruncated
    drain,     \* the drainPipe goroutines
    wpc,       \* the waiter goroutine
    pipeOpen,  \* the parent's read ends of the pipes are open
    pipe,      \* amount in the kernel pipe
    written,   \* amount the process group has written
    pidOf,     \* kernel: pid of bash, also its group id
    bash,      \* kernel: state of the bash process
    kids,      \* kernel: the group has other live members
    kpc,       \* the KillShell calls
    target     \* the shell a KillShell call looked up

shellVars  == <<registry, hpc, pgid, exited>>
outputVars == <<buf, trunc, drain, pipeOpen, pipe, written>>
kernelVars == <<pidOf, bash, kids>>
killVars   == <<kpc, target>>
vars == <<shellVars, outputVars, wpc, kernelVars, killVars>>

Running(s) == bash[s] = "running"
Alive(s)   == Running(s) \/ kids[s]

\* The kernel reuses a pid once the process is reaped and no process is
\* left in the group it names.
PidFree(p) == \A s \in Shells : pidOf[s] = p => bash[s] = "reaped" /\ ~kids[s]

TypeOK ==
    /\ registry \subseteq Shells
    /\ hpc \in [Shells -> {"idle", "registered", "started", "tracked", "returned", "failed"}]
    /\ pgid \in [Shells -> Pids \cup {NoPid}]
    /\ exited \in [Shells -> BOOLEAN]
    /\ buf \in [Shells -> [Streams -> 0..OutputCap]]
    /\ trunc \in [Shells -> [Streams -> BOOLEAN]]
    /\ drain \in [Shells -> [Streams -> {"off", "reading", "done"}]]
    /\ wpc \in [Shells -> {"off", "waiting", "reaped", "closed", "done"}]
    /\ pipeOpen \in [Shells -> BOOLEAN]
    /\ pipe \in [Shells -> [Streams -> 0..MaxWritten]]
    /\ written \in [Shells -> [Streams -> 0..MaxWritten]]
    /\ pidOf \in [Shells -> Pids \cup {NoPid}]
    /\ bash \in [Shells -> {"none", "running", "zombie", "reaped"}]
    /\ kids \in [Shells -> BOOLEAN]
    /\ kpc \in [Callers -> {"idle", "got", "signalled"}]
    /\ target \in [Callers -> Shells \cup {NoShell}]

Init ==
    /\ registry = {}
    /\ hpc = [s \in Shells |-> "idle"]
    /\ pgid = [s \in Shells |-> NoPid]
    /\ exited = [s \in Shells |-> FALSE]
    /\ buf = [s \in Shells |-> [st \in Streams |-> 0]]
    /\ trunc = [s \in Shells |-> [st \in Streams |-> FALSE]]
    /\ drain = [s \in Shells |-> [st \in Streams |-> "off"]]
    /\ wpc = [s \in Shells |-> "off"]
    /\ pipeOpen = [s \in Shells |-> FALSE]
    /\ pipe = [s \in Shells |-> [st \in Streams |-> 0]]
    /\ written = [s \in Shells |-> [st \in Streams |-> 0]]
    /\ pidOf = [s \in Shells |-> NoPid]
    /\ bash = [s \in Shells |-> "none"]
    /\ kids = [s \in Shells |-> FALSE]
    /\ kpc = [c \in Callers |-> "idle"]
    /\ target = [c \in Callers |-> NoShell]

-----------------------------------------------------------------------------
(* The Bash handler, background mode (handleBashBackground).               *)

Register(s) ==
    /\ hpc[s] = "idle"
    /\ hpc' = [hpc EXCEPT ![s] = "registered"]
    /\ registry' = registry \cup {s}
    /\ UNCHANGED <<pgid, exited, outputVars, wpc, kernelVars, killVars>>

\* openBashPipes or cmd.Start failed: the shell leaves the registry again.
StartFails(s) ==
    /\ hpc[s] = "registered"
    /\ hpc' = [hpc EXCEPT ![s] = "failed"]
    /\ registry' = registry \ {s}
    /\ UNCHANGED <<pgid, exited, outputVars, wpc, kernelVars, killVars>>

\* cmd.Start with Setpgid: the child leads a group named by its own pid.
Start(s, p) ==
    /\ hpc[s] = "registered"
    /\ PidFree(p)
    /\ hpc' = [hpc EXCEPT ![s] = "started"]
    /\ pidOf' = [pidOf EXCEPT ![s] = p]
    /\ bash' = [bash EXCEPT ![s] = "running"]
    /\ pipeOpen' = [pipeOpen EXCEPT ![s] = TRUE]
    /\ UNCHANGED <<registry, pgid, exited, buf, trunc, drain, pipe, written, wpc, kids, killVars>>

SetPgid(s) ==
    /\ hpc[s] = "started"
    /\ hpc' = [hpc EXCEPT ![s] = "tracked"]
    /\ pgid' = [pgid EXCEPT ![s] = pidOf[s]]
    /\ UNCHANGED <<registry, exited, outputVars, wpc, kernelVars, killVars>>

\* The three go statements, then the result with the shell_id: from here on
\* the agent knows the id.
Return(s) ==
    /\ hpc[s] = "tracked"
    /\ hpc' = [hpc EXCEPT ![s] = "returned"]
    /\ drain' = [drain EXCEPT ![s] = [st \in Streams |-> "reading"]]
    /\ wpc' = [wpc EXCEPT ![s] = "waiting"]
    /\ UNCHANGED <<registry, pgid, exited, buf, trunc, pipeOpen, pipe, written, kernelVars, killVars>>

-----------------------------------------------------------------------------
(* The process group, as the kernel and the user's command drive it.       *)

\* bash leaves a child in its group (sleep 100 &).
Fork(s) ==
    /\ Running(s)
    /\ ~kids[s]
    /\ kids' = [kids EXCEPT ![s] = TRUE]
    /\ UNCHANGED <<shellVars, outputVars, wpc, pidOf, bash, killVars>>

Write(s, st, n) ==
    /\ Alive(s)
    /\ pipeOpen[s]
    /\ written[s][st] + n <= MaxWritten
    /\ written' = [written EXCEPT ![s][st] = @ + n]
    /\ pipe' = [pipe EXCEPT ![s][st] = @ + n]
    /\ UNCHANGED <<shellVars, buf, trunc, drain, pipeOpen, wpc, kernelVars, killVars>>

BashExits(s) ==
    /\ Running(s)
    /\ bash' = [bash EXCEPT ![s] = "zombie"]
    /\ UNCHANGED <<shellVars, outputVars, wpc, pidOf, kids, killVars>>

KidsExit(s) ==
    /\ kids[s]
    /\ kids' = [kids EXCEPT ![s] = FALSE]
    /\ UNCHANGED <<shellVars, outputVars, wpc, pidOf, bash, killVars>>

-----------------------------------------------------------------------------
(* The drain goroutines (drainPipe, AppendStdout, AppendStderr).           *)

\* Seeded fault: an oversized chunk is dropped whole.
AppendDropsChunk(dst, n, alreadyTruncated) ==
    IF alreadyTruncated \/ n > OutputCap - dst
    THEN [len |-> dst, trunc |-> TRUE]
    ELSE [len |-> dst + n, trunc |-> FALSE]

\* appendCapped: the new captured amount and truncation flag.
AppendCapped(dst, n, alreadyTruncated) ==
    IF alreadyTruncated \/ dst >= OutputCap
    THEN [len |-> dst, trunc |-> TRUE]
    ELSE IF n <= OutputCap - dst
         THEN [len |-> dst + n, trunc |-> FALSE]
         ELSE [len |-> OutputCap, trunc |-> TRUE]

DrainRead(s, st) ==
    /\ drain[s][st] = "reading"
    /\ pipeOpen[s]
    /\ \E n \in 1..pipe[s][st] :
          LET r == AppendCapped(buf[s][st], n, trunc[s][st]) IN
          /\ pipe' = [pipe EXCEPT ![s][st] = @ - n]
          /\ buf' = [buf EXCEPT ![s][st] = r.len]
          /\ trunc' = [trunc EXCEPT ![s][st] = r.trunc]
    /\ UNCHANGED <<shellVars, drain, pipeOpen, written, wpc, kernelVars, killVars>>

\* Read returns an error: end of file once the pipe is empty and nobody can
\* write to it any more, or "file already closed" after the waiter's Wait.
DrainEnds(s, st) ==
    /\ drain[s][st] = "reading"
    /\ \/ ~pipeOpen[s]
       \/ pipe[s][st] = 0 /\ ~Alive(s)
    /\ drain' = [drain EXCEPT ![s][st] = "done"]
    /\ UNCHANGED <<shellVars, buf, trunc, pipeOpen, pipe, written, wpc, kernelVars, killVars>>

-----------------------------------------------------------------------------
(* The waiter goroutine: sh.SetExit(waitExitCode(cmd)).  os/exec's Wait    *)
(* reaps the child and then closes the read ends of the pipes made by      *)
(* StdoutPipe and StderrPipe, whether or not they are drained.             *)

\* Seeded fault: wait for both drains before reaping.
WaitReapsAfterDrains(s) ==
    /\ wpc[s] = "waiting"
    /\ bash[s] = "zombie"
    /\ \A st \in Streams : drain[s][st] = "done"
    /\ bash' = [bash EXCEPT ![s] = "reaped"]
    /\ wpc' = [wpc EXCEPT ![s] = "reaped"]
    /\ UNCHANGED <<shellVars, outputVars, pidOf, kids, killVars>>

WaitReaps(s) ==
    /\ wpc[s] = "waiting"
    /\ bash[s] = "zombie"
    /\ bash' = [bash EXCEPT ![s] = "reaped"]
    /\ wpc' = [wpc EXCEPT ![s] = "reaped"]
    /\ UNCHANGED <<shellVars, outputVars, pidOf, kids, killVars>>

WaitClosesPipes(s) ==
    /\ wpc[s] = "reaped"
    /\ pipeOpen' = [pipeOpen EXCEPT ![s] = FALSE]
    /\ wpc' = [wpc EXCEPT ![s] = "closed"]
    /\ UNCHANGED <<shellVars, buf, trunc, drain, pipe, written, kernelVars, killVars>>

SetExit(s) ==
    /\ wpc[s] = "closed"
    /\ exited' = [exited EXCEPT ![s] = TRUE]
    /\ wpc' = [wpc EXCEPT ![s] = "done"]
    /\ UNCHANGED <<registry, hpc, pgid, outputVars, kernelVars, killVars>>

-----------------------------------------------------------------------------
(* KillShell (HandleKillShell).                                            *)

KillGet(c, s) ==
    /\ kpc[c] = "idle"
    /\ hpc[s] = "returned"
    /\ s \in registry
    /\ kpc' = [kpc EXCEPT ![c] = "got"]
    /\ target' = [target EXCEPT ![c] = s]
    /\ UNCHANGED <<shellVars, outputVars, wpc, kernelVars>>

\* Seeded fault: kill(pgid) instead of kill(-pgid), only the leader dies.
SignalLeader(p) ==
    /\ bash' = [s \in Shells |-> IF pidOf[s] = p /\ Running(s) THEN "zombie" ELSE bash[s]]
    /\ kids' = kids

\* syscall.Kill(-pgid, SIGKILL): every live process of the group p dies.
SignalGroup(p) ==
    /\ bash' = [s \in Shells |-> IF pidOf[s] = p /\ Running(s) THEN "zombie" ELSE bash[s]]
    /\ kids' = [s \in Shells |-> kids[s] /\ pidOf[s] # p]

KillSignal(c) ==
    /\ kpc[c] = "got"
    /\ kpc' = [kpc EXCEPT ![c] = "signalled"]
    /\ IF pgid[target[c]] > 0
       THEN SignalGroup(pgid[target[c]])
       ELSE UNCHANGED <<bash, kids>>
    /\ UNCHANGED <<shellVars, outputVars, wpc, pidOf, target>>

KillRemove(c) ==
    /\ kpc[c] = "signalled"
    /\ registry' = registry \ {target[c]}
    /\ kpc' = [kpc EXCEPT ![c] = "idle"]
    /\ target' = [target EXCEPT ![c] = NoShell]
    /\ UNCHANGED <<hpc, pgid, exited, outputVars, wpc, kernelVars>>

-----------------------------------------------------------------------------
Handler(s) == Register(s) \/ StartFails(s) \/ (\E p \in Pids : Start(s, p)) \/ SetPgid(s) \/ Return(s)

Group(s) == Fork(s) \/ (\E st \in Streams, n \in 1..MaxWritten : Write(s, st, n)) \/ BashExits(s) \/ KidsExit(s)

Drainer(s, st) == DrainRead(s, st) \/ DrainEnds(s, st)

Waiter(s) == WaitReaps(s) \/ WaitClosesPipes(s) \/ SetExit(s)

KillShell(c) == (\E s \in Shells : KillGet(c, s)) \/ KillSignal(c) \/ KillRemove(c)

Next ==
    \/ \E s \in Shells :
          \/ Handler(s)
          \/ Group(s)
          \/ Waiter(s)
          \/ \E st \in Streams : Drainer(s, st)
    \/ \E c \in Callers : KillShell(c)

Spec == Init /\ [][Next]_vars

\* The Go scheduler runs every goroutine that can run.  Nothing is assumed
\* of the user's command: it may run, and write, for ever.
Fairness ==
    /\ \A s \in Shells : WF_vars(SetPgid(s)) /\ WF_vars(Return(s)) /\ WF_vars(Waiter(s))
    /\ \A s \in Shells, st \in Streams : WF_vars(Drainer(s, st))
    /\ \A c \in Callers : WF_vars(KillSignal(c)) /\ WF_vars(KillRemove(c))

FairSpec == Spec /\ Fairness

-----------------------------------------------------------------------------
(* Properties.                                                             *)

\* No process escapes the registry: as long as bash or a child it left in
\* its group lives, the shell is registered, so KillShell can still reach it.
\* This is what registering before Start, setting the pgid before the id is
\* returned, and removing only after the signal are for.
NoUntrackedProcess == \A s \in Shells : Alive(s) => s \in registry

\* While bash runs BashOutput does not report it completed, and every byte
\* written is captured or still in the pipe, unless the stream is flagged
\* [TRUNCATED]; a stream is flagged only at exactly its cap.
NothingLostWhileRunning ==
    \A s \in Shells, st \in Streams :
        /\ trunc[s][st] => buf[s][st] = OutputCap
        /\ Running(s) /\ ~trunc[s][st] => /\ ~exited[s]
                                          /\ buf[s][st] + pipe[s][st] = written[s][st]

\* A bash that ended is eventually reported as completed and its two drain
\* goroutines end, even when children it left behind hold its pipes open for
\* ever (the goroutine that calls cmd.Wait and then SetExit).
EndedShellIsFinished ==
    \A s \in Shells :
        bash[s] = "zombie" ~> exited[s] /\ \A st \in Streams : drain[s][st] = "done"
=============================================================================
