----------------------------- MODULE HealthTracker -----------------------------
(***************************************************************************)
(* The per-call half of the agent-health tracker (internal/metrics/health/ *)
(* tracker.go): the rolling error rate and the repetition detector, both   *)
(* fed by Observe, which the observability middleware calls once after     *)
(* every tool call.  Observe holds the tracker's mutex throughout, so one  *)
(* call is one step; the calls of concurrent handlers arrive in any order. *)
(* The run_tests half of the tracker (streak, last green) is in TestLoop.  *)
(*                                                                         *)
(* Time is kept as the age of each ring entry in ticks; an entry older     *)
(* than RepetitionWindow can never be counted again, so its slot is shown  *)
(* as empty.                                                               *)
(*                                                                         *)
(* recent and calls are history variables: what the gauges are about; a    *)
(* call that has left the window is shown as empty there, too.             *)
(***************************************************************************)
EXTENDS Integers, Sequences, FiniteSets

CONSTANTS
    Tools,                 \* the closed list of MCP tools
    Hashes,                \* fingerprints HashArgs returns
    NoHash,                \* "", the fingerprint of arguments that do not encode
    RepetitionThreshold,
    RepetitionWindow,      \* in ticks
    ErrorRateWindow,
    None

\* New replaces every non-positive setting by its default (101-110).
ASSUME ConfigAssumption ==
    /\ RepetitionThreshold \in Nat \ {0}
    /\ RepetitionWindow \in Nat \ {0}
    /\ ErrorRateWindow \in Nat \ {0}
    /\ NoHash \notin Hashes
    /\ None \notin (Tools \X Hashes) \cup [hash : Hashes, age : 0 .. RepetitionWindow]

VARIABLES
    errBuf, errBufIdx, errBufFull, errCount,
    errorRate,             \* the published gauge: <<numerator, denominator>>
    repBuf, repBufIdx,     \* one ring per tool; index 0 .. BufSize - 1
    repCounted,            \* tool -> hashes whose burst is already counted
    burst,                 \* the <<tool, hash>> this step counted, or None
    recent,                \* history: the last ErrorRateWindow outcomes
    calls                  \* history: each tool's last calls

errVars == <<errBuf, errBufIdx, errBufFull, errCount, errorRate, recent>>
repVars == <<repBuf, repBufIdx, repCounted, calls>>
vars == <<errVars, repVars, burst>>

BufSize == RepetitionThreshold * 4

Slots == 0 .. ErrorRateWindow - 1
Entry == [hash : Hashes, age : 0 .. RepetitionWindow]

TypeOK ==
    /\ errBuf \in [Slots -> BOOLEAN]
    /\ errBufIdx \in Slots
    /\ errBufFull \in BOOLEAN
    /\ errCount \in 0 .. ErrorRateWindow
    /\ errorRate \in (0 .. ErrorRateWindow) \X (0 .. ErrorRateWindow)
    /\ repBuf \in [Tools -> [0 .. BufSize - 1 -> Entry \cup {None}]]
    /\ repBufIdx \in [Tools -> 0 .. BufSize - 1]
    /\ repCounted \in [Tools -> SUBSET Hashes]
    /\ burst \in (Tools \X Hashes) \cup {None}
    /\ calls \in [Tools -> Seq(Entry \cup {None})]

Init ==
    /\ errBuf = [i \in Slots |-> FALSE]
    /\ errBufIdx = 0
    /\ errBufFull = FALSE
    /\ errCount = 0
    /\ errorRate = <<0, 0>>
    /\ repBuf = [t \in Tools |-> [i \in 0 .. BufSize - 1 |-> None]]
    /\ repBufIdx = [t \in Tools |-> 0]
    /\ repCounted = [t \in Tools |-> {}]
    /\ burst = None
    /\ recent = <<>>
    /\ calls = [t \in Tools |-> <<>>]

--------------------------------------------------------------------------------
(* The rolling outcome buffer.                                             *)

\* Seeded fault: the slot about to be replaced is never discounted.
CountAfterNoEviction(ok) == errCount + (IF ok THEN 0 ELSE 1)

\* The running count after overwriting the slot at errBufIdx.
CountAfter(ok) ==
    errCount - (IF errBufFull /\ ~errBuf[errBufIdx] THEN 1 ELSE 0)
             + (IF ok THEN 0 ELSE 1)

\* The number of calls the rate is taken over, once the index has moved on.
SizeAfter ==
    IF errBufFull' THEN ErrorRateWindow ELSE errBufIdx'

\* The last ErrorRateWindow outcomes, this one included.
Remember(ok) ==
    LET all == Append(recent, ok)
    IN  IF Len(all) > ErrorRateWindow THEN Tail(all) ELSE all

recordErrorOutcome(ok) ==
    /\ errBuf' = [errBuf EXCEPT ![errBufIdx] = ok]
    /\ errCount' = CountAfter(ok)
    /\ errBufIdx' = (errBufIdx + 1) % ErrorRateWindow
    /\ errBufFull' = (errBufFull \/ errBufIdx' = 0)
    /\ errorRate' = <<errCount', SizeAfter>>
    /\ recent' = Remember(ok)

--------------------------------------------------------------------------------
(* The per-tool ring behind the repetition counter.                        *)

\* Occurrences of h in the ring that the window still covers.
RingCount(ring, h) ==
    Cardinality({i \in 0 .. BufSize - 1 : ring[i] # None /\ ring[i].hash = h})

\* Seeded fault: the flag is set and never cleared.
CountedAfterSticky(t, h, n) ==
    IF n >= RepetitionThreshold THEN repCounted[t] \cup {h} ELSE repCounted[t]

CountedAfter(t, h, n) ==
    IF n >= RepetitionThreshold THEN repCounted[t] \cup {h}
                                ELSE repCounted[t] \ {h}

\* The tool's calls, oldest first: one more than the ring can hold is enough
\* to tell that it has been overrun.
RememberCall(t, h) ==
    LET all == Append(calls[t], [hash |-> h, age |-> 0])
    IN  IF Len(all) > BufSize + 1 THEN Tail(all) ELSE all

recordRepetition(t, h) ==
    LET ring == [repBuf[t] EXCEPT ![repBufIdx[t]] = [hash |-> h, age |-> 0]]
        n    == RingCount(ring, h)
    IN  /\ repBuf' = [repBuf EXCEPT ![t] = ring]
        /\ repBufIdx' = [repBufIdx EXCEPT ![t] = (@ + 1) % BufSize]
        /\ repCounted' = [repCounted EXCEPT ![t] = CountedAfter(t, h, n)]
        /\ burst' = IF n >= RepetitionThreshold /\ h \notin repCounted[t]
                    THEN <<t, h>> ELSE None
        /\ calls' = [calls EXCEPT ![t] = RememberCall(t, h)]

\* The middleware's hook: one finished tool call.  Arguments that do not
\* encode have no fingerprint and leave the rings alone.
Observe(t, ok, h) ==
    /\ recordErrorOutcome(ok)
    /\ IF h = NoHash THEN UNCHANGED repVars /\ burst' = None
                     ELSE recordRepetition(t, h)

--------------------------------------------------------------------------------
Aged(e) ==
    IF e = None \/ e.age = RepetitionWindow THEN None ELSE [e EXCEPT !.age = @ + 1]

\* Time passes.  An entry made exactly RepetitionWindow ago is not yet
\* before the cutoff, so it still counts.
Tick ==
    /\ repBuf' = [t \in Tools |-> [i \in 0 .. BufSize - 1 |-> Aged(repBuf[t][i])]]
    /\ calls' = [t \in Tools |-> [i \in 1 .. Len(calls[t]) |-> Aged(calls[t][i])]]
    /\ burst' = None
    /\ UNCHANGED <<errVars, repBufIdx, repCounted>>

Next ==
    \/ \E t \in Tools, ok \in BOOLEAN, h \in Hashes \cup {NoHash} : Observe(t, ok, h)
    \/ Tick

Spec == Init /\ [][Next]_vars

--------------------------------------------------------------------------------
(* Properties.                                                             *)

\* The error-rate gauge is the share of failed calls among the last
\* ErrorRateWindow calls (fewer before that many were made), although the
\* tracker never scans its ring and keeps only a running count of it.
ErrorRateIsExact ==
    errorRate = <<Cardinality({i \in 1 .. Len(recent) : ~recent[i]}), Len(recent)>>

\* Of a tool's last calls: those inside the window, and those of h among them.
LiveIn(cs)    == {i \in 1 .. Len(cs) : cs[i] # None}
HitsIn(cs, h) == {i \in 1 .. Len(cs) : cs[i] # None /\ cs[i].hash = h}

Repeats(t, h) == Cardinality(HitsIn(calls[t], h))

\* A burst is counted exactly when it starts.  As long as a tool has made no
\* more calls inside the window than its ring holds, a call is counted if and
\* only if it is at least the RepetitionThreshold-th of its kind in the window
\* and the burst had not been counted by the previous call of that kind; a
\* call that finds too few repeats re-arms the counter.  Other calls may push
\* repeats out of the ring, never into it: whatever the traffic, a burst is
\* only counted when that many repeats were made (recordRepetition).
BurstCountedOnce ==
    [][/\ burst' # None => Repeats(burst[1], burst[2])' >= RepetitionThreshold
       /\ \A t \in Tools, h \in Hashes :
         (repBufIdx'[t] # repBufIdx[t] /\ calls'[t][Len(calls'[t])].hash = h
            /\ Cardinality(LiveIn(calls'[t])) <= BufSize)
         => /\ (burst' = <<t, h>>) <=> (Repeats(t, h)' >= RepetitionThreshold
                                        /\ h \notin repCounted[t])
            /\ (h \in repCounted'[t]) <=> (Repeats(t, h)' >= RepetitionThreshold)]_vars
================================================================================
