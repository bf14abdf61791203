---------------------------- MODULE WatchedShell ----------------------------
(***************************************************************************)
(* One process started by watch_process and the agent that polls it        *)
(* (internal/tools/watch_process.go and the watch part of                  *)
(* shell_registry.go).                                                     *)
(*                                                                         *)
(* Four goroutines share the BackgroundShell: drainWatchStderr,            *)
(* drainWatchStdout, watchLifecycle and watchIdleWatchdog; each method of  *)
(* the shell holds its mutex and is one step.  A goroutine that has not    *)
(* been scheduled yet is one that has not started, so the initial state is *)
(* the one HandleWatchProcess leaves.                                      *)
(*                                                                         *)
(* A stderr line is abstracted to what the drain does with it: it matches  *)
(* a pattern, matches none, or is longer than the Scanner's maximum.  Time *)
(* since the last output is counted in ticks up to the idle timeout.       *)
(***************************************************************************)
EXTENDS Integers, Sequences

CONSTANTS EventCap,      \* watchEventCap
          IdleTimeout,   \* idle_timeout_seconds in ticks, 0 disables the watchdog
          LineKinds,     \* kinds of stderr lines the process writes
          PipeCap,       \* lines the kernel pipe holds before a writer blocks
          MaxLines       \* bound: stderr lines the process writes

ASSUME WatchAssumption ==
    /\ EventCap \in Nat \ {0}
    /\ IdleTimeout \in Nat
    /\ LineKinds \subseteq {"match", "plain", "long"}
    /\ PipeCap \in Nat \ {0}
    /\ MaxLines \in Nat

EventTypes == {"started", "error", "idle_timeout", "exited"}

VARIABLES
    proc,           \* kernel: bash
    kids,           \* kernel: others of its group run, holding its pipes
    written,        \* stderr lines written so far
    readCnt,        \* how many of them the Scanner has read from the pipe
    observed,       \* how many of them the Scanner has delivered
    outPipe,        \* the stdout pipe holds data
    pipeOpen,       \* the parent's read ends are open (until cmd.Wait returns)
    errDrain,       \* drainWatchStderr
    outDrain,       \* drainWatchStdout
    lpc,            \* watchLifecycle
    wdpc,           \* watchIdleWatchdog
    events,         \* watchState.events
    nextEventID,    \* watchState.nextEventID
    eventsDropped,  \* watchState.eventsDropped
    idle,           \* ticks since watchState.lastOutputAt
    exitSet,        \* BackgroundShell.exitCode # nil
    ppc,            \* HandleWatchProcessEvents, on behalf of the polling agent
    seen,           \* the agent: largest event id seen, its since_event_id
    delivered,      \* the agent: ids of the events it was given
    noted,          \* the agent: the dropped count it was last told
    sawCompleted    \* the agent was told "status: completed"

group     == <<proc, kids>>
lineVars  == <<written, readCnt, observed, errDrain>>
outVars   == <<outPipe, outDrain>>
logVars   == <<events, nextEventID, eventsDropped>>
agentVars == <<ppc, seen, delivered, noted, sawCompleted>>
vars == <<group, lineVars, outVars, pipeOpen, lpc, wdpc, logVars, idle, exitSet, agentVars>>

TypeOK ==
    /\ proc \in {"running", "zombie", "reaped"} /\ kids \in BOOLEAN
    /\ written \in Seq(LineKinds)
    /\ observed \in 0..readCnt /\ readCnt \in 0..Len(written)
    /\ errDrain \in {"reading", "done"} /\ outDrain \in {"reading", "done"}
    /\ outPipe \in BOOLEAN /\ pipeOpen \in BOOLEAN /\ exitSet \in BOOLEAN
    /\ lpc \in {"waiting", "reaped", "closed", "stamped", "done"}
    /\ wdpc \in {"off", "sleeping", "running", "expired", "stamped", "done"}
    /\ events \in Seq([id : Nat \ {0}, type : EventTypes])
    /\ nextEventID \in Nat /\ eventsDropped \in Nat
    /\ idle \in 0..IdleTimeout
    /\ ppc \in {"idle", "listed"}
    /\ seen \in 0..nextEventID /\ noted \in 0..eventsDropped
    /\ delivered \subseteq 1..nextEventID
    /\ sawCompleted \in BOOLEAN

-----------------------------------------------------------------------------
(* The event log (appendEventLocked).                                      *)

DropBatch == IF EventCap \div 10 < 1 THEN 1 ELSE EventCap \div 10

\* Seeded fault: drops are not counted.
AppendEventUncounted(t) ==
    LET full == Len(events) >= EventCap
        kept == IF full THEN SubSeq(events, DropBatch + 1, Len(events)) ELSE events
    IN  /\ nextEventID' = nextEventID + 1
        /\ events' = Append(kept, [id |-> nextEventID + 1, type |-> t])
        /\ UNCHANGED eventsDropped

AppendEvent(t) ==
    LET full == Len(events) >= EventCap
        kept == IF full THEN SubSeq(events, DropBatch + 1, Len(events)) ELSE events
    IN  /\ nextEventID' = nextEventID + 1
        /\ eventsDropped' = IF full THEN eventsDropped + DropBatch ELSE eventsDropped
        /\ events' = Append(kept, [id |-> nextEventID + 1, type |-> t])

\* HandleWatchProcess: NewWatchedShell stamps "started"; the process is
\* started and the goroutines launched.
Init ==
    /\ proc = "running" /\ kids = FALSE
    /\ written = <<>> /\ readCnt = 0 /\ observed = 0
    /\ outPipe = FALSE /\ pipeOpen = TRUE
    /\ errDrain = "reading" /\ outDrain = "reading"
    /\ lpc = "waiting"
    /\ wdpc = IF IdleTimeout > 0 THEN "sleeping" ELSE "off"
    /\ events = << [id |-> 1, type |-> "started"] >>
    /\ nextEventID = 1 /\ eventsDropped = 0
    /\ idle = 0 /\ exitSet = FALSE
    /\ ppc = "idle" /\ seen = 0 /\ delivered = {} /\ noted = 0 /\ sawCompleted = FALSE

-----------------------------------------------------------------------------
(* The process group and the clock.                                        *)

Alive == proc = "running" \/ kids

\* Whoever writes after the read ends are closed reaches nobody.
WriteStderr(kind) ==
    /\ Alive /\ pipeOpen
    /\ Len(written) < MaxLines
    /\ Len(written) - readCnt < PipeCap
    /\ written' = Append(written, kind)
    /\ UNCHANGED <<group, readCnt, observed, errDrain, outVars, pipeOpen, lpc, wdpc, logVars, idle, exitSet, agentVars>>

WriteStdout ==
    /\ Alive /\ pipeOpen
    /\ ~outPipe
    /\ outPipe' = TRUE
    /\ UNCHANGED <<group, lineVars, outDrain, pipeOpen, lpc, wdpc, logVars, idle, exitSet, agentVars>>

Forks ==
    /\ proc = "running" /\ ~kids
    /\ kids' = TRUE
    /\ UNCHANGED <<proc, lineVars, outVars, pipeOpen, lpc, wdpc, logVars, idle, exitSet, agentVars>>

KidsEnd ==
    /\ kids
    /\ kids' = FALSE
    /\ UNCHANGED <<proc, lineVars, outVars, pipeOpen, lpc, wdpc, logVars, idle, exitSet, agentVars>>

\* SIGKILL to the group.
KillGroup ==
    /\ proc' = IF proc = "running" THEN "zombie" ELSE proc
    /\ kids' = FALSE

\* bash ends by itself, and what it left in the background runs on, or
\* KillShell kills the group.
ProcessEnds ==
    /\ proc = "running"
    /\ \/ proc' = "zombie" /\ UNCHANGED kids
       \/ KillGroup
    /\ UNCHANGED <<lineVars, outVars, pipeOpen, lpc, wdpc, logVars, idle, exitSet, agentVars>>

Tick ==
    /\ idle < IdleTimeout
    /\ idle' = idle + 1
    /\ UNCHANGED <<group, lineVars, outVars, pipeOpen, lpc, wdpc, logVars, exitSet, agentVars>>

-----------------------------------------------------------------------------
(* drainWatchStderr and drainWatchStdout.                                  *)

\* The Scanner refills its buffer when no whole line is left in it.
ScannerReads ==
    /\ errDrain = "reading" /\ pipeOpen
    /\ observed = readCnt
    /\ readCnt' \in (readCnt + 1)..Len(written)
    /\ UNCHANGED <<group, written, observed, errDrain, outVars, pipeOpen, lpc, wdpc, logVars, idle, exitSet, agentVars>>

\* ObserveWatchLine: refreshes lastOutputAt and reports the first match.
ObserveWatchLine ==
    /\ errDrain = "reading"
    /\ observed < readCnt
    /\ written[observed + 1] # "long"
    /\ observed' = observed + 1
    /\ idle' = 0
    /\ IF written[observed + 1] = "match" THEN AppendEvent("error") ELSE UNCHANGED logVars
    /\ UNCHANGED <<group, written, readCnt, errDrain, outVars, pipeOpen, lpc, wdpc, exitSet, agentVars>>

\* Scan returns false on a line longer than its maximum (ErrTooLong), and
\* the goroutine returns.
ScannerGivesUp ==
    /\ errDrain = "reading"
    /\ observed < readCnt
    /\ written[observed + 1] = "long"
    /\ errDrain' = "done"
    /\ UNCHANGED <<group, written, readCnt, observed, outVars, pipeOpen, lpc, wdpc, logVars, idle, exitSet, agentVars>>

\* Seeded fault: the error of reading a closed pipe is ignored.
ScannerEndsAtEOFOnly ==
    /\ errDrain = "reading"
    /\ observed = readCnt
    /\ ~Alive /\ readCnt = Len(written)
    /\ errDrain' = "done"
    /\ UNCHANGED <<group, written, readCnt, observed, outVars, pipeOpen, lpc, wdpc, logVars, idle, exitSet, agentVars>>

\* Scan returns false at the end of the file or of an already closed pipe.
ScannerEnds ==
    /\ errDrain = "reading"
    /\ observed = readCnt
    /\ ~pipeOpen \/ (~Alive /\ readCnt = Len(written))
    /\ errDrain' = "done"
    /\ UNCHANGED <<group, written, readCnt, observed, outVars, pipeOpen, lpc, wdpc, logVars, idle, exitSet, agentVars>>

ObserveWatchStdout ==
    /\ outDrain = "reading" /\ pipeOpen
    /\ outPipe
    /\ outPipe' = FALSE
    /\ idle' = 0
    /\ UNCHANGED <<group, lineVars, outDrain, pipeOpen, lpc, wdpc, logVars, exitSet, agentVars>>

StdoutEnds ==
    /\ outDrain = "reading"
    /\ ~pipeOpen \/ (~Alive /\ ~outPipe)
    /\ outDrain' = "done"
    /\ UNCHANGED <<group, lineVars, outPipe, pipeOpen, lpc, wdpc, logVars, idle, exitSet, agentVars>>

-----------------------------------------------------------------------------
(* watchLifecycle.                                                         *)

\* cmd.Wait reaps the child, then closes the read ends of both pipes.
Reap ==
    /\ lpc = "waiting" /\ proc = "zombie"
    /\ lpc' = "reaped"
    /\ proc' = "reaped"
    /\ UNCHANGED <<kids, lineVars, outVars, pipeOpen, wdpc, logVars, idle, exitSet, agentVars>>

ClosePipes ==
    /\ lpc = "reaped"
    /\ lpc' = "closed"
    /\ pipeOpen' = FALSE
    /\ UNCHANGED <<group, lineVars, outVars, wdpc, logVars, idle, exitSet, agentVars>>

\* Seeded fault: SetExit before RecordWatchExit.
SetExitFirst ==
    /\ lpc = "closed"
    /\ lpc' = "stamped"
    /\ exitSet' = TRUE
    /\ UNCHANGED <<group, lineVars, outVars, pipeOpen, wdpc, logVars, idle, agentVars>>

RecordWatchExit ==
    /\ lpc = "closed"
    /\ lpc' = "stamped"
    /\ AppendEvent("exited")
    /\ UNCHANGED <<group, lineVars, outVars, pipeOpen, wdpc, idle, exitSet, agentVars>>

SetExit ==
    /\ lpc = "stamped"
    /\ lpc' = "done"
    /\ exitSet' = TRUE
    /\ UNCHANGED <<group, lineVars, outVars, pipeOpen, wdpc, logVars, idle, agentVars>>

-----------------------------------------------------------------------------
(* watchIdleWatchdog: per ticker tick, Snapshot, LastOutputAt and, when    *)
(* the timeout has elapsed, the event and then the kill.                   *)

WatchdogSnapshot ==
    /\ wdpc = "sleeping"
    /\ wdpc' = IF exitSet THEN "done" ELSE "running"
    /\ UNCHANGED <<group, lineVars, outVars, pipeOpen, lpc, logVars, idle, exitSet, agentVars>>

WatchdogLastOutput ==
    /\ wdpc = "running"
    /\ wdpc' = IF idle < IdleTimeout THEN "sleeping" ELSE "expired"
    /\ UNCHANGED <<group, lineVars, outVars, pipeOpen, lpc, logVars, idle, exitSet, agentVars>>

RecordWatchIdleTimeout ==
    /\ wdpc = "expired"
    /\ wdpc' = "stamped"
    /\ AppendEvent("idle_timeout")
    /\ UNCHANGED <<group, lineVars, outVars, pipeOpen, lpc, idle, exitSet, agentVars>>

\* SIGKILL to the group; the goroutine returns.
WatchdogKill ==
    /\ wdpc = "stamped"
    /\ wdpc' = "done"
    /\ KillGroup
    /\ UNCHANGED <<lineVars, outVars, pipeOpen, lpc, logVars, idle, exitSet, agentVars>>

-----------------------------------------------------------------------------
(* HandleWatchProcessEvents: Events(since), then Snapshot for the status.  *)

EventsSince(id) == { i \in 1..Len(events) : events[i].id > id }

PollEvents ==
    /\ ppc = "idle"
    /\ ppc' = "listed"
    /\ LET new == EventsSince(seen) IN
       /\ delivered' = delivered \cup { events[i].id : i \in new }
       /\ seen' = IF new = {} THEN seen ELSE events[Len(events)].id
    /\ noted' = eventsDropped
    /\ UNCHANGED <<group, lineVars, outVars, pipeOpen, lpc, wdpc, logVars, idle, exitSet, sawCompleted>>

PollStatus ==
    /\ ppc = "listed"
    /\ ppc' = "idle"
    /\ sawCompleted' = (sawCompleted \/ exitSet)
    /\ UNCHANGED <<group, lineVars, outVars, pipeOpen, lpc, wdpc, logVars, idle, exitSet, seen, delivered, noted>>

-----------------------------------------------------------------------------
StderrDrain == ScannerReads \/ ObserveWatchLine \/ ScannerGivesUp \/ ScannerEnds
StdoutDrain == ObserveWatchStdout \/ StdoutEnds
Lifecycle   == Reap \/ ClosePipes \/ RecordWatchExit \/ SetExit
Watchdog    == WatchdogSnapshot \/ WatchdogLastOutput \/ RecordWatchIdleTimeout \/ WatchdogKill
Poll        == PollEvents \/ PollStatus

Next ==
    \/ \E kind \in LineKinds : WriteStderr(kind)
    \/ WriteStdout \/ Forks \/ KidsEnd \/ ProcessEnds \/ Tick
    \/ StderrDrain \/ StdoutDrain \/ Lifecycle \/ Watchdog \/ Poll

Spec == Init /\ [][Next]_vars

\* Goroutines that can run are run, and time passes.  The command and the
\* agent are free: a command may hang for ever, an agent need not poll.
FairSpec ==
    /\ Spec
    /\ WF_vars(StderrDrain) /\ WF_vars(StdoutDrain)
    /\ WF_vars(Lifecycle) /\ WF_vars(Watchdog) /\ WF_vars(Tick)

-----------------------------------------------------------------------------
(* Properties.                                                             *)

\* The log never outgrows its cap, holds consecutive ids, and the dropped
\* count is exactly the number of events that fell off its tail: the events
\* ever stamped are the dropped ones followed by the ones listed.
LogIsContiguous ==
    /\ Len(events) <= EventCap
    /\ eventsDropped + Len(events) = nextEventID
    /\ \A i \in 1..Len(events) : events[i].id = eventsDropped + i

\* shell_registry.go: the "events truncated" marker is there "so the agent
\* can't silently miss crashes".  Every event up to the largest id the agent
\* has seen was given to it, or is one of the first `noted` events the last
\* poll said were dropped; and an undropped newer event is still listed.
NoSilentMiss ==
    /\ \A id \in 1..seen : id \in delivered \/ id <= noted
    /\ \A id \in (seen + 1)..nextEventID :
          id <= eventsDropped \/ \E i \in 1..Len(events) : events[i].id = id

\* An agent told "status: completed" will find the exited event: it is in
\* the log (or was dropped), as watchLifecycle stamps it before SetExit.
CompletedHasExit ==
    sawCompleted =>
        \/ eventsDropped > 0
        \/ \E i \in 1..Len(events) : events[i].type = "exited"

\* A watched bash does not stay: one that has been silent for the idle timeout
\* is killed, or ends, or is heard from again, whatever the order of the
\* goroutines' steps; and one that has ended is reported as completed and all
\* four of its goroutines return (watchdog, watchLifecycle, the drains), even
\* when its children hold the pipes for ever.  Nobody watches those children.
WatchEnds ==
    /\ IdleTimeout > 0 /\ proc = "running" /\ idle = IdleTimeout
          ~> proc # "running" \/ idle < IdleTimeout
    /\ proc # "running" ~>
          /\ exitSet /\ lpc = "done" /\ wdpc \in {"off", "done"}
          /\ errDrain = "done" /\ outDrain = "done"
=============================================================================
