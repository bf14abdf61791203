-------------------------- MODULE WatchedShellProofs --------------------------
(***************************************************************************)
(* The event log of a watched process and what a polling agent gets from   *)
(* it, for every cap, every amount of output and every interleaving of the *)
(* goroutines with the polls: contiguous ids, no event missed in silence,  *)
(* and the exit in the log before the status says so.                      *)
(***************************************************************************)
EXTENDS WatchedShell, TLAPS

Event == [id : Nat \ {0}, type : EventTypes]

LogType ==
    /\ events \in Seq(Event)
    /\ nextEventID \in Nat
    /\ eventsDropped \in Nat

AgentType ==
    /\ seen \in 0 .. nextEventID
    /\ noted \in 0 .. eventsDropped

\* Everything up to the last id the agent saw was given to it or reported as
\* dropped: the half of NoSilentMiss that does not follow from the log.
GivenOrNoted == \A id \in 1 .. seen : id \in delivered \/ id <= noted

IInv == LogType /\ AgentType /\ LogIsContiguous /\ GivenOrNoted

-----------------------------------------------------------------------------
\* A tenth of the cap, but at least one event and at most all.
LEMMA DropBatchType == DropBatch \in 1 .. EventCap
BY WatchAssumption DEF DropBatch

\* The invariant holds initially: one event, the started one.
LEMMA InitIInv == Init => IInv
<1>. SUFFICES ASSUME Init PROVE IInv  OBVIOUS
<1>1. [id |-> 1, type |-> "started"] \in Event  BY DEF Event, EventTypes
<1>2. /\ events \in Seq(Event) /\ Len(events) = 1 /\ events[1].id = 1
  BY <1>1 DEF Init
<1>. QED
  BY <1>2, WatchAssumption DEF Init, IInv, LogType, AgentType, LogIsContiguous, GivenOrNoted

\* appendEventLocked keeps the ids consecutive, the log within its cap and
\* the dropped count right, also when it first drops a batch.
LEMMA AppendKeepsLog ==
    ASSUME LogType, LogIsContiguous, NEW t \in EventTypes, AppendEvent(t)
    PROVE  /\ LogType' /\ LogIsContiguous'
           /\ nextEventID' = nextEventID + 1
           /\ eventsDropped' >= eventsDropped
<1>. USE WatchAssumption
<1>. DEFINE full == Len(events) >= EventCap
            kept == IF full THEN SubSeq(events, DropBatch + 1, Len(events)) ELSE events
            shed == IF full THEN DropBatch ELSE 0
            new  == [id |-> nextEventID + 1, type |-> t]
<1>1. /\ nextEventID' = nextEventID + 1
      /\ eventsDropped' = eventsDropped + shed
      /\ events' = Append(kept, new)
  BY DEF AppendEvent, LogType
<1>2. DropBatch \in 1 .. EventCap  BY DropBatchType
<1>3. Len(events) \in 0 .. EventCap /\ shed \in 0 .. Len(events)
  BY <1>2 DEF LogType, LogIsContiguous
<1>4. /\ kept \in Seq(Event)
      /\ Len(kept) = Len(events) - shed
      /\ \A i \in 1 .. Len(kept) : kept[i] = events[i + shed]
  <2>1. CASE full
    <3>1. kept = SubSeq(events, DropBatch + 1, Len(events)) /\ shed = DropBatch  BY <2>1
    <3>2. DropBatch + 1 \in 1 .. Len(events) + 1  BY <2>1, <1>2, <1>3
    <3>3. /\ SubSeq(events, DropBatch + 1, Len(events)) \in Seq(Event)
          /\ Len(SubSeq(events, DropBatch + 1, Len(events))) = Len(events) - DropBatch
          /\ \A i \in 1 .. Len(events) - DropBatch :
                SubSeq(events, DropBatch + 1, Len(events))[i] = events[i + DropBatch]
      BY <3>2, <1>2, <1>3 DEF LogType
    <3>. QED  BY <3>1, <3>3
  <2>2. CASE ~full  BY <2>2 DEF LogType
  <2>. QED  BY <2>1, <2>2
<1>5. Len(kept) < EventCap  BY <1>2, <1>3, <1>4
<1>6. new \in Event /\ new.id = nextEventID + 1  BY DEF LogType, Event
<1>. HIDE DEF kept, new, full, shed
<1>7. /\ events' \in Seq(Event)
      /\ Len(events') = Len(kept) + 1
      /\ \A i \in 1 .. Len(kept) : events'[i] = kept[i]
      /\ events'[Len(kept) + 1] = new
  BY <1>1, <1>4, <1>6
<1>8. LogType'  BY <1>1, <1>2, <1>3, <1>7 DEF LogType
<1>9. eventsDropped + Len(events) = nextEventID  BY DEF LogIsContiguous
<1>10. \A i \in 1 .. Len(events') : events'[i].id = eventsDropped' + i
  <2>. SUFFICES ASSUME NEW i \in 1 .. Len(events') PROVE events'[i].id = eventsDropped' + i  OBVIOUS
  <2>1. CASE i \in 1 .. Len(kept)
    <3>1. events'[i] = events[i + shed]  BY <2>1, <1>4, <1>7
    <3>2. i + shed \in 1 .. Len(events)  BY <2>1, <1>3, <1>4
    <3>3. events[i + shed].id = eventsDropped + (i + shed)  BY <3>2 DEF LogIsContiguous
    <3>. QED  BY <3>1, <3>3, <1>1, <1>3 DEF LogType
  <2>2. CASE i = Len(kept) + 1
    <3>0. events'[i] = new  BY <2>2, <1>7
    <3>1. events'[i].id = nextEventID + 1  BY <3>0, <1>6
    <3>2. Len(kept) = Len(events) - shed /\ i = Len(kept) + 1  BY <2>2, <1>4
    <3>3. Len(events) \in Nat /\ shed \in Nat /\ nextEventID \in Nat /\ eventsDropped \in Nat
      BY <1>3 DEF LogType
    <3>4. eventsDropped' + i = nextEventID + 1  BY <3>2, <3>3, <1>1, <1>9
    <3>. QED  BY <3>1, <3>4
  <2>. QED  BY <2>1, <2>2, <1>4, <1>7
<1>11. LogIsContiguous'
  <2>1. Len(events') <= EventCap  BY <1>5, <1>7, <1>4, <1>3
  <2>2. eventsDropped' + Len(events') = nextEventID'
    BY <1>1, <1>3, <1>4, <1>7, <1>9 DEF LogType
  <2>. QED  BY <2>1, <2>2, <1>10 DEF LogIsContiguous
<1>. QED  BY <1>1, <1>3, <1>8, <1>11 DEF LogType

\* A goroutine stamps an event: the agent loses nothing it was owed.
LEMMA AppendStep ==
    ASSUME IInv, NEW t \in EventTypes, AppendEvent(t), UNCHANGED agentVars
    PROVE  IInv'
<1>1. /\ LogType' /\ LogIsContiguous'
      /\ nextEventID' = nextEventID + 1 /\ eventsDropped' >= eventsDropped
  BY AppendKeepsLog DEF IInv
<1>2. AgentType'  BY <1>1 DEF IInv, AgentType, LogType, agentVars
<1>3. GivenOrNoted'  BY DEF IInv, GivenOrNoted, agentVars
<1>. QED  BY <1>1, <1>2, <1>3 DEF IInv

\* A poll gives the agent what is listed and notes the dropped count.
LEMMA PollStep == ASSUME IInv, PollEvents PROVE IInv'
<1>. DEFINE new == EventsSince(seen)
<1>1. /\ delivered' = delivered \cup {events[i].id : i \in new}
      /\ seen' = IF new = {} THEN seen ELSE events[Len(events)].id
      /\ noted' = eventsDropped
      /\ UNCHANGED logVars
  BY DEF PollEvents
<1>2. new = {i \in 1 .. Len(events) : eventsDropped + i > seen}
  BY DEF EventsSince, IInv, LogIsContiguous
<1>3. seen' \in 0 .. nextEventID /\ seen' >= seen
  <2>1. CASE new = {}  BY <2>1, <1>1 DEF IInv, AgentType, LogType
  <2>2. CASE new # {}
    <3>1. Len(events) >= 1 /\ Len(events) \in Nat  BY <2>2, <1>2 DEF IInv, LogType
    <3>2. events[Len(events)].id = eventsDropped + Len(events)
      BY <3>1 DEF IInv, LogIsContiguous
    <3>3. events[Len(events)].id = nextEventID  BY <3>2 DEF IInv, LogIsContiguous
    <3>. QED  BY <2>2, <3>3, <1>1 DEF IInv, AgentType, LogType
  <2>. QED  BY <2>1, <2>2
<1>4. GivenOrNoted'
  <2>. SUFFICES ASSUME NEW id \in 1 .. seen', ~(id <= eventsDropped) PROVE id \in delivered'
    BY <1>1 DEF GivenOrNoted
  <2>0. id \in Nat /\ id <= nextEventID  BY <1>3 DEF IInv, LogType
  <2>1. CASE id <= seen
    BY <2>1, <2>0, <1>1 DEF IInv, GivenOrNoted, AgentType, LogType
  <2>2. CASE id > seen
    <3>. DEFINE k == id - eventsDropped
    <3>1. k \in 1 .. Len(events) /\ eventsDropped + k = id
      BY <2>0 DEF IInv, LogIsContiguous, LogType
    <3>2. k \in new /\ events[k].id = id
      BY <3>1, <2>2, <1>2 DEF IInv, LogIsContiguous
    <3>. QED  BY <3>2, <1>1
  <2>. QED  BY <2>0, <2>1, <2>2 DEF IInv, AgentType
<1>5. AgentType'  BY <1>1, <1>3 DEF IInv, AgentType, LogType, logVars
<1>6. LogType' /\ LogIsContiguous'  BY <1>1 DEF IInv, LogType, LogIsContiguous, logVars
<1>. QED  BY <1>4, <1>5, <1>6 DEF IInv

\* Every step keeps the invariant; most touch neither log nor agent.
LEMMA StepIInv == IInv /\ [Next]_vars => IInv'
<1>. SUFFICES ASSUME IInv, [Next]_vars PROVE IInv'  OBVIOUS
<1>0. ASSUME UNCHANGED <<logVars, seen, delivered, noted>> PROVE IInv'
  BY <1>0 DEF IInv, LogType, AgentType, LogIsContiguous, GivenOrNoted, logVars
<1>1. ASSUME NEW t \in EventTypes, AppendEvent(t), UNCHANGED agentVars PROVE IInv'
  BY <1>1, AppendStep
<1>2. ASSUME NEW kind \in LineKinds, WriteStderr(kind) PROVE IInv'
  BY <1>2, <1>0 DEF WriteStderr, agentVars
<1>3. CASE WriteStdout \/ Forks \/ KidsEnd \/ ProcessEnds \/ Tick
  BY <1>3, <1>0 DEF WriteStdout, Forks, KidsEnd, ProcessEnds, Tick, agentVars
<1>4. CASE StderrDrain
  <2>1. CASE ObserveWatchLine
    <3>1. CASE written[observed + 1] = "match"
      BY <2>1, <3>1, <1>1 DEF ObserveWatchLine, EventTypes
    <3>2. CASE written[observed + 1] # "match"
      BY <2>1, <3>2, <1>0 DEF ObserveWatchLine, agentVars
    <3>. QED  BY <3>1, <3>2
  <2>. QED
    BY <1>4, <2>1, <1>0 DEF StderrDrain, ScannerReads, ScannerGivesUp, ScannerEnds, agentVars
<1>5. CASE StdoutDrain
  BY <1>5, <1>0 DEF StdoutDrain, ObserveWatchStdout, StdoutEnds, agentVars
<1>6. CASE Lifecycle
  <2>1. CASE RecordWatchExit  BY <2>1, <1>1 DEF RecordWatchExit, EventTypes
  <2>. QED  BY <1>6, <2>1, <1>0 DEF Lifecycle, Reap, ClosePipes, SetExit, agentVars
<1>7. CASE Watchdog
  <2>1. CASE RecordWatchIdleTimeout  BY <2>1, <1>1 DEF RecordWatchIdleTimeout, EventTypes
  <2>. QED
    BY <1>7, <2>1, <1>0 DEF Watchdog, WatchdogSnapshot, WatchdogLastOutput, WatchdogKill, agentVars
<1>8. CASE Poll
  <2>1. CASE PollEvents  BY <2>1, PollStep
  <2>2. CASE PollStatus  BY <2>2, <1>0 DEF PollStatus
  <2>. QED  BY <1>8, <2>1, <2>2 DEF Poll
<1>9. CASE UNCHANGED vars  BY <1>9, <1>0 DEF vars, agentVars
<1>. QED  BY <1>2, <1>3, <1>4, <1>5, <1>6, <1>7, <1>8, <1>9 DEF Next

\* appendEventLocked never outgrows watchEventCap, hands out consecutive ids
\* and counts exactly what it drops, for every cap.
THEOREM EventLog == Spec => []LogIsContiguous
<1>1. IInv => LogIsContiguous  BY DEF IInv
<1>. QED  BY <1>1, InitIInv, StepIInv, PTL DEF Spec

\* An agent that polls with the largest id it has seen misses no event it was
\* not told about, for every cap and however its polls fall between the
\* appends (HandleWatchProcessEvents, Events).
THEOREM PollMissesNothing == Spec => []NoSilentMiss
<1>1. ASSUME IInv PROVE NoSilentMiss
  <2>1. ASSUME NEW id \in seen + 1 .. nextEventID, ~(id <= eventsDropped)
        PROVE  \E i \in 1 .. Len(events) : events[i].id = id
    <3>. DEFINE k == id - eventsDropped
    <3>1. k \in 1 .. Len(events) /\ eventsDropped + k = id
      BY <1>1, <2>1 DEF IInv, LogIsContiguous, LogType, AgentType
    <3>2. events[k].id = id  BY <1>1, <3>1 DEF IInv, LogIsContiguous
    <3>. QED  BY <3>1, <3>2
  <2>. QED  BY <1>1, <2>1 DEF IInv, GivenOrNoted, NoSilentMiss
<1>. QED  BY <1>1, InitIInv, StepIInv, PTL DEF Spec

-----------------------------------------------------------------------------
\* An exit event is in the log, or has been dropped from it with others.
HasExit == eventsDropped > 0 \/ \E i \in 1 .. Len(events) : events[i].type = "exited"

\* The lifecycle goroutine stamps the event before it sets the exit status,
\* and the agent can have read that status only after it was set.
ExitOrder ==
    /\ lpc \in {"stamped", "done"} => HasExit
    /\ exitSet => lpc = "done"
    /\ sawCompleted => exitSet

\* An event once stamped stays in the log until something is dropped.
LEMMA AppendKeepsExit ==
    ASSUME IInv, NEW t \in EventTypes, AppendEvent(t)
    PROVE  /\ HasExit => HasExit'
           /\ t = "exited" => HasExit'
<1>. DEFINE new == [id |-> nextEventID + 1, type |-> t]
<1>1. events \in Seq(Event) /\ eventsDropped \in Nat /\ nextEventID \in Nat /\ Len(events) \in Nat
  BY DEF IInv, LogType
<1>2. DropBatch \in Nat /\ DropBatch > 0  BY DropBatchType, WatchAssumption
<1>3. CASE Len(events) >= EventCap
  <2>1. eventsDropped' = eventsDropped + DropBatch  BY <1>3 DEF AppendEvent
  <2>. QED  BY <2>1, <1>1, <1>2 DEF HasExit
<1>4. CASE ~(Len(events) >= EventCap)
  <2>1. events' = Append(events, new) /\ eventsDropped' = eventsDropped  BY <1>4 DEF AppendEvent
  <2>2. new \in Event  BY <1>1 DEF Event
  <2>3. /\ Len(events') = Len(events) + 1
        /\ \A i \in 1 .. Len(events) : events'[i] = events[i]
        /\ events'[Len(events) + 1] = new
    BY <2>1, <2>2, <1>1
  <2>4. \A i \in 1 .. Len(events) : i \in 1 .. Len(events')  BY <2>3, <1>1
  <2>5. Len(events) + 1 \in 1 .. Len(events')  BY <2>3, <1>1
  <2>6. new.type = t  OBVIOUS
  <2>. HIDE DEF new
  <2>. QED  BY <2>1, <2>3, <2>4, <2>5, <2>6 DEF HasExit
<1>. QED  BY <1>3, <1>4

\* Initially nothing has exited.
LEMMA InitExitOrder == Init => ExitOrder
BY DEF Init, ExitOrder

\* Every step keeps the order; only the goroutine's own steps and the poll of
\* the status have anything to do with it, the other appends just keep events.
LEMMA StepExitOrder == IInv /\ ExitOrder /\ [Next]_vars => ExitOrder'
<1>. SUFFICES ASSUME IInv, ExitOrder, [Next]_vars PROVE ExitOrder'  OBVIOUS
<1>0. ASSUME UNCHANGED <<logVars, lpc, exitSet, sawCompleted>> PROVE ExitOrder'
  BY <1>0 DEF ExitOrder, HasExit, logVars
<1>1. ASSUME NEW t \in EventTypes, AppendEvent(t), UNCHANGED <<lpc, exitSet, sawCompleted>> PROVE ExitOrder'
  BY <1>1, AppendKeepsExit DEF ExitOrder
<1>2. ASSUME NEW kind \in LineKinds, WriteStderr(kind) PROVE ExitOrder'
  BY <1>2, <1>0 DEF WriteStderr, agentVars
<1>3. CASE WriteStdout \/ Forks \/ KidsEnd \/ ProcessEnds \/ Tick
  BY <1>3, <1>0 DEF WriteStdout, Forks, KidsEnd, ProcessEnds, Tick, agentVars
<1>4. CASE StderrDrain
  <2>1. CASE ObserveWatchLine
    <3>1. CASE written[observed + 1] = "match"
      BY <2>1, <3>1, <1>1 DEF ObserveWatchLine, EventTypes, agentVars
    <3>2. CASE written[observed + 1] # "match"
      BY <2>1, <3>2, <1>0 DEF ObserveWatchLine, agentVars
    <3>. QED  BY <3>1, <3>2
  <2>. QED
    BY <1>4, <2>1, <1>0 DEF StderrDrain, ScannerReads, ScannerGivesUp, ScannerEnds, agentVars
<1>5. CASE StdoutDrain
  BY <1>5, <1>0 DEF StdoutDrain, ObserveWatchStdout, StdoutEnds, agentVars
<1>6. CASE Lifecycle
  <2>1. CASE Reap \/ ClosePipes
    BY <2>1 DEF Reap, ClosePipes, ExitOrder, agentVars
  <2>2. CASE RecordWatchExit
    <3>1. HasExit'  BY <2>2, AppendKeepsExit DEF RecordWatchExit, EventTypes
    <3>. QED  BY <2>2, <3>1 DEF RecordWatchExit, ExitOrder, agentVars
  <2>3. CASE SetExit
    BY <2>3 DEF SetExit, ExitOrder, HasExit, logVars, agentVars
  <2>. QED  BY <1>6, <2>1, <2>2, <2>3 DEF Lifecycle
<1>7. CASE Watchdog
  <2>1. CASE RecordWatchIdleTimeout
    BY <2>1, <1>1 DEF RecordWatchIdleTimeout, EventTypes, agentVars
  <2>. QED
    BY <1>7, <2>1, <1>0 DEF Watchdog, WatchdogSnapshot, WatchdogLastOutput, WatchdogKill, agentVars
<1>8. CASE Poll
  <2>1. CASE PollEvents  BY <2>1, <1>0 DEF PollEvents
  <2>2. CASE PollStatus  BY <2>2 DEF PollStatus, ExitOrder, HasExit, logVars
  <2>. QED  BY <1>8, <2>1, <2>2 DEF Poll
<1>9. CASE UNCHANGED vars  BY <1>9, <1>0 DEF vars, agentVars
<1>. QED  BY <1>2, <1>3, <1>4, <1>5, <1>6, <1>7, <1>8, <1>9 DEF Next

\* An agent that was told "status: completed" finds the exited event in the
\* log, or the log has dropped events and said so, for every cap and however
\* polls, appends and the goroutine's two calls interleave (watchLifecycle).
THEOREM CompletedIsLogged == Spec => []CompletedHasExit
<1>1. ExitOrder => CompletedHasExit  BY DEF ExitOrder, HasExit, CompletedHasExit
<1>. QED  BY <1>1, InitIInv, StepIInv, InitExitOrder, StepExitOrder, PTL DEF Spec

-----------------------------------------------------------------------------
\* The types of what is not in the log's invariant: the lines on their way
\* through pipe and Scanner, the goroutines, and what the agent was given.
Elsewhere ==
    /\ proc \in {"running", "zombie", "reaped"} /\ kids \in BOOLEAN
    /\ written \in Seq(LineKinds)
    /\ observed \in 0..readCnt /\ readCnt \in 0..Len(written)
    /\ errDrain \in {"reading", "done"} /\ outDrain \in {"reading", "done"}
    /\ outPipe \in BOOLEAN /\ pipeOpen \in BOOLEAN /\ exitSet \in BOOLEAN
    /\ lpc \in {"waiting", "reaped", "closed", "stamped", "done"}
    /\ wdpc \in {"off", "sleeping", "running", "expired", "stamped", "done"}
    /\ idle \in 0..IdleTimeout
    /\ ppc \in {"idle", "listed"}
    /\ delivered \subseteq 1..nextEventID
    /\ sawCompleted \in BOOLEAN

\* Initially the process runs and nothing is written.
LEMMA InitElsewhere == Init => Elsewhere
<1>. SUFFICES ASSUME Init PROVE Elsewhere  OBVIOUS
<1>1. written \in Seq(LineKinds) /\ Len(written) = 0  BY DEF Init
<1>2. observed \in 0..readCnt /\ readCnt \in 0..Len(written)  BY <1>1 DEF Init
<1>3. idle \in 0..IdleTimeout  BY WatchAssumption DEF Init
<1>4. outPipe \in BOOLEAN /\ pipeOpen \in BOOLEAN /\ exitSet \in BOOLEAN /\ sawCompleted \in BOOLEAN
      /\ kids \in BOOLEAN
  BY Zenon DEF Init
<1>5. /\ proc \in {"running", "zombie", "reaped"}
      /\ errDrain \in {"reading", "done"} /\ outDrain \in {"reading", "done"}
      /\ lpc \in {"waiting", "reaped", "closed", "stamped", "done"}
      /\ wdpc \in {"off", "sleeping", "running", "expired", "stamped", "done"}
      /\ ppc \in {"idle", "listed"}
      /\ delivered \subseteq 1..nextEventID
  BY DEF Init
<1>. QED  BY <1>1, <1>2, <1>3, <1>4, <1>5 DEF Elsewhere

\* Every step keeps these types: lines are read after they are written and
\* observed after they are read, and the agent is given ids that exist.
LEMMA StepElsewhere == IInv /\ Elsewhere /\ [Next]_vars => Elsewhere'
<1>. SUFFICES ASSUME IInv, Elsewhere, [Next]_vars PROVE Elsewhere'  OBVIOUS
<1>. USE DEF Elsewhere, group
<1>l. IdleTimeout \in Nat /\ nextEventID \in Nat /\ Len(written) \in Nat
  BY WatchAssumption DEF IInv, LogType
<1>1. ASSUME NEW t \in EventTypes, AppendEvent(t), UNCHANGED delivered
      PROVE  delivered' \subseteq 1..nextEventID'
  <2>1. nextEventID' = nextEventID + 1  BY <1>1 DEF AppendEvent
  <2>. QED  BY <1>1, <1>l, <2>1
<1>2. ASSUME NEW kind \in LineKinds, WriteStderr(kind) PROVE Elsewhere'
  <2>1. written' \in Seq(LineKinds) /\ Len(written') = Len(written) + 1  BY <1>2 DEF WriteStderr
  <2>2. readCnt' \in 0..Len(written')  BY <1>2, <1>l, <2>1 DEF WriteStderr, lineVars
  <2>. QED  BY <1>2, <2>1, <2>2 DEF WriteStderr, lineVars, outVars, logVars, agentVars
<1>3. CASE WriteStdout
  <2>1. outPipe' \in BOOLEAN  BY <1>3, Zenon DEF WriteStdout
  <2>. QED  BY <1>3, <2>1 DEF WriteStdout, lineVars, logVars, agentVars
<1>11. CASE Forks \/ KidsEnd \/ ProcessEnds
  <2>1. kids' \in BOOLEAN  BY <1>11, Zenon DEF Forks, KidsEnd, ProcessEnds, KillGroup
  <2>2. proc' \in {"running", "zombie", "reaped"}  BY <1>11 DEF Forks, KidsEnd, ProcessEnds, KillGroup
  <2>3. UNCHANGED <<lineVars, outVars, pipeOpen, lpc, wdpc, logVars, idle, exitSet, agentVars>>
    BY <1>11, Zenon DEF Forks, KidsEnd, ProcessEnds
  <2>. QED  BY <2>1, <2>2, <2>3 DEF lineVars, outVars, logVars, agentVars
<1>4. CASE Tick
  BY <1>4, <1>l DEF Tick, lineVars, outVars, logVars, agentVars
<1>5. CASE StderrDrain
  <2>1. CASE ScannerReads
    BY <2>1, <1>l DEF ScannerReads, outVars, logVars, agentVars
  <2>2. CASE ObserveWatchLine
    <3>1. delivered' \subseteq 1..nextEventID'
      BY <2>2, <1>1 DEF ObserveWatchLine, EventTypes, logVars, agentVars
    <3>2. observed' \in 0..readCnt' /\ idle' \in 0..IdleTimeout
      BY <2>2, <1>l DEF ObserveWatchLine
    <3>. QED  BY <2>2, <3>1, <3>2 DEF ObserveWatchLine, outVars, agentVars
  <2>3. CASE ScannerGivesUp
    BY <2>3 DEF ScannerGivesUp, outVars, logVars, agentVars
  <2>4. CASE ScannerEnds
    <3>1. errDrain' = "done" /\ UNCHANGED <<group, written, readCnt, observed, outVars, pipeOpen, lpc, wdpc, logVars, idle, exitSet, agentVars>>
      BY <2>4, Zenon DEF ScannerEnds
    <3>. QED  BY <3>1 DEF outVars, logVars, agentVars
  <2>. QED  BY <1>5, <2>1, <2>2, <2>3, <2>4 DEF StderrDrain
<1>6. CASE StdoutDrain
  <2>1. CASE ObserveWatchStdout
    <3>1. outPipe' \in BOOLEAN  BY <2>1, Zenon DEF ObserveWatchStdout
    <3>. QED  BY <2>1, <3>1, <1>l DEF ObserveWatchStdout, lineVars, logVars, agentVars
  <2>2. CASE StdoutEnds
    BY <2>2 DEF StdoutEnds, lineVars, logVars, agentVars
  <2>. QED  BY <1>6, <2>1, <2>2 DEF StdoutDrain
<1>7. CASE Lifecycle
  <2>1. CASE RecordWatchExit
    <3>1. delivered' \subseteq 1..nextEventID'
      BY <2>1, <1>1 DEF RecordWatchExit, EventTypes, agentVars
    <3>. QED  BY <2>1, <3>1 DEF RecordWatchExit, lineVars, outVars, agentVars
  <2>2. CASE Reap \/ ClosePipes \/ SetExit
    BY <2>2 DEF Reap, ClosePipes, SetExit, lineVars, outVars, logVars, agentVars
  <2>. QED  BY <1>7, <2>1, <2>2 DEF Lifecycle
<1>8. CASE Watchdog
  <2>1. CASE RecordWatchIdleTimeout
    <3>1. delivered' \subseteq 1..nextEventID'
      BY <2>1, <1>1 DEF RecordWatchIdleTimeout, EventTypes, agentVars
    <3>. QED  BY <2>1, <3>1 DEF RecordWatchIdleTimeout, lineVars, outVars, agentVars
  <2>2. CASE WatchdogSnapshot \/ WatchdogLastOutput
    BY <2>2 DEF WatchdogSnapshot, WatchdogLastOutput, lineVars, outVars, logVars, agentVars
  <2>3. CASE WatchdogKill
    <3>1. kids' \in BOOLEAN  BY <2>3, Zenon DEF WatchdogKill, KillGroup
    <3>. QED  BY <2>3, <3>1 DEF WatchdogKill, KillGroup, lineVars, outVars, logVars, agentVars
  <2>. QED  BY <1>8, <2>1, <2>2, <2>3 DEF Watchdog
<1>9. CASE Poll
  <2>1. CASE PollEvents
    <3>1. \A i \in EventsSince(seen) : events[i].id \in 1..nextEventID
      <4>1. ASSUME NEW i \in 1..Len(events) PROVE events[i].id \in 1..nextEventID
        BY DEF IInv, LogIsContiguous, LogType
      <4>. QED  BY <4>1 DEF EventsSince
    <3>2. delivered' \subseteq 1..nextEventID
      BY <2>1, <3>1 DEF PollEvents
    <3>. QED  BY <2>1, <3>2 DEF PollEvents, lineVars, outVars, logVars
  <2>2. CASE PollStatus
    BY <2>2 DEF PollStatus, lineVars, outVars, logVars
  <2>. QED  BY <1>9, <2>1, <2>2 DEF Poll
<1>10. CASE UNCHANGED vars
  BY <1>10 DEF vars, lineVars, outVars, logVars, agentVars
<1>. QED  BY <1>2, <1>3, <1>4, <1>5, <1>6, <1>7, <1>8, <1>9, <1>10, <1>11 DEF Next

\* Every variable of a watched process keeps its type, for every cap, timeout
\* and amount of output (watch_process.go, shell_registry.go).
THEOREM WatchTypes == Spec => []TypeOK
<1>1. IInv /\ Elsewhere => TypeOK
  BY DEF IInv, LogType, AgentType, Event, Elsewhere, TypeOK
<1>. QED  BY <1>1, InitIInv, StepIInv, InitElsewhere, StepElsewhere, PTL DEF Spec
=============================================================================
