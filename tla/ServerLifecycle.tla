--------------------------- MODULE ServerLifecycle ---------------------------
(***************************************************************************)
(* Run and its listeners (cmd/sandbox/run.go): each listener serves in a   *)
(* goroutine that leaves one value in a buffered channel; a signal or a    *)
(* crashed listener ends the wait; shutdownAll drains the servers one      *)
(* after the other within one grace window, then reads every channel.      *)
(* net/http is external: Shutdown closes the listener at once, makes       *)
(* ListenAndServe return, and waits for busy connections.                  *)
(***************************************************************************)
EXTENDS Naturals, Sequences

CONSTANT Servers   \* the configured listeners, in servers()'s order

ASSUME ServersAssumption == Servers # <<>> /\ Servers \in Seq(STRING)

VARIABLES
    signalled,    \* Run's context is cancelled
    run, k,       \* where Run stands, and the server it is at
    listener,     \* per server: its goroutine is "up", in or before ListenAndServe, or "down"
    errCh,        \* per server: what its channel has got
    taken,        \* per server: that value has been received
    shutting,     \* per server: Shutdown has been called
    graceOver, firstErr

runVars == <<signalled, run, k, listener, errCh, taken, shutting, graceOver, firstErr>>

Indices == DOMAIN Servers

RunInit ==
    /\ signalled = FALSE
    /\ run = "wait" /\ k = 1
    /\ listener = [s \in Indices |-> "up"]
    /\ errCh = [s \in Indices |-> "empty"]
    /\ taken = [s \in Indices |-> FALSE]
    /\ shutting = [s \in Indices |-> FALSE]
    /\ graceOver = FALSE /\ firstErr = FALSE

Ended == run \in {"failed", "done"}

-----------------------------------------------------------------------------
\* The goroutine of serve(s).

\* The address is taken, or Accept fails for good.
ListenerCrashes(s) ==
    /\ listener[s] = "up" /\ ~shutting[s]
    /\ listener' = [listener EXCEPT ![s] = "down"]
    /\ errCh' = [errCh EXCEPT ![s] = "err"]
    /\ UNCHANGED <<signalled, run, k, taken, shutting, graceOver, firstErr>>

\* Seeded fault: a clean end leaves nothing in the channel.
ClosesSilently(s) ==
    /\ listener[s] = "up" /\ shutting[s]
    /\ listener' = [listener EXCEPT ![s] = "down"]
    /\ UNCHANGED <<signalled, run, k, errCh, taken, shutting, graceOver, firstErr>>

\* ErrServerClosed counts as nil; it also meets a goroutine that comes to
\* ListenAndServe after Shutdown.
ListenerCloses(s) ==
    /\ listener[s] = "up" /\ shutting[s]
    /\ listener' = [listener EXCEPT ![s] = "down"]
    /\ errCh' = [errCh EXCEPT ![s] = "nil"]
    /\ UNCHANGED <<signalled, run, k, taken, shutting, graceOver, firstErr>>

-----------------------------------------------------------------------------
\* Run.

Signal ==
    /\ ~signalled /\ signalled' = TRUE
    /\ UNCHANGED <<run, k, listener, errCh, taken, shutting, graceOver, firstErr>>

SignalReceived ==
    /\ run = "wait" /\ signalled
    /\ run' = "shutdown"
    /\ UNCHANGED <<signalled, k, listener, errCh, taken, shutting, graceOver, firstErr>>

\* A listener's error makes Run return at once; a nil would fall through to
\* shutdownAll with its channel already emptied.
ListenerReported(s) ==
    /\ run = "wait" /\ errCh[s] # "empty"
    /\ taken' = [taken EXCEPT ![s] = TRUE]
    /\ run' = IF errCh[s] = "err" THEN "failed" ELSE "shutdown"
    /\ UNCHANGED <<signalled, k, listener, errCh, shutting, graceOver, firstErr>>

ShutdownBegins ==
    /\ run = "shutdown" /\ ~shutting[k]
    /\ shutting' = [shutting EXCEPT ![k] = TRUE]
    /\ UNCHANGED <<signalled, run, k, listener, errCh, taken, graceOver, firstErr>>

\* Seeded fault: the loop runs one past the last server.
PastTheEnd(then) ==
    IF k <= Len(Servers) THEN k' = k + 1 /\ run' = run ELSE k' = 1 /\ run' = then

NextServer(then) ==
    IF k < Len(Servers) THEN k' = k + 1 /\ run' = run ELSE k' = 1 /\ run' = then

\* The server's last connection is idle. One may never be: an SSE stream is
\* not told to end. When it is, the composition says.
ShutdownIdle ==
    /\ run = "shutdown" /\ shutting[k]
    /\ NextServer("closer")
    /\ UNCHANGED <<signalled, listener, errCh, taken, shutting, graceOver, firstErr>>

\* Seeded fault: Shutdown's error is dropped.
ForgetsTimeout ==
    /\ run = "shutdown" /\ shutting[k] /\ graceOver
    /\ NextServer("closer")
    /\ UNCHANGED <<signalled, listener, errCh, taken, shutting, graceOver, firstErr>>

\* The grace window is shared: what one server uses up the next has not got.
ShutdownTimesOut ==
    /\ run = "shutdown" /\ shutting[k] /\ graceOver
    /\ firstErr' = TRUE
    /\ NextServer("closer")
    /\ UNCHANGED <<signalled, listener, errCh, taken, shutting, graceOver>>

GraceEnds ==
    /\ run \in {"shutdown", "closer", "tracer"} /\ ~graceOver
    /\ graceOver' = TRUE
    /\ UNCHANGED <<signalled, run, k, listener, errCh, taken, shutting, firstErr>>

\* apiCloser.Close; what it closes is in the composition.
CloserReturns ==
    /\ run = "closer" /\ run' = "tracer"
    /\ UNCHANGED <<signalled, k, listener, errCh, taken, shutting, graceOver, firstErr>>

\* The tracer flushes, or fails when the window is over.
TracerReturns ==
    /\ run = "tracer" /\ run' = "drain"
    /\ firstErr' \in {firstErr, firstErr \/ graceOver}
    /\ UNCHANGED <<signalled, k, listener, errCh, taken, shutting, graceOver>>

\* Seeded fault: only the first listener's goroutine is waited for.
DrainFirst ==
    /\ run = "drain" /\ errCh[k] # "empty" /\ ~taken[k]
    /\ taken' = [taken EXCEPT ![k] = TRUE]
    /\ firstErr' = (firstErr \/ errCh[k] = "err")
    /\ k' = 1 /\ run' = "done"
    /\ UNCHANGED <<signalled, listener, errCh, shutting, graceOver>>

DrainChannel ==
    /\ run = "drain" /\ errCh[k] # "empty" /\ ~taken[k]
    /\ taken' = [taken EXCEPT ![k] = TRUE]
    /\ firstErr' = (firstErr \/ errCh[k] = "err")
    /\ NextServer("done")
    /\ UNCHANGED <<signalled, listener, errCh, shutting, graceOver>>

RunSteps ==
    \/ \E s \in Indices : ListenerReported(s)
    \/ SignalReceived \/ ShutdownBegins \/ ShutdownTimesOut \/ TracerReturns \/ DrainChannel

RunNext ==
    /\ ~Ended
    /\ \/ RunSteps \/ GraceEnds \/ Signal
       \/ \E s \in Indices : ListenerCrashes(s) \/ ListenerCloses(s)

-----------------------------------------------------------------------------
RunTypeOK ==
    /\ signalled \in BOOLEAN /\ graceOver \in BOOLEAN /\ firstErr \in BOOLEAN
    /\ run \in {"wait", "shutdown", "closer", "tracer", "drain", "failed", "done"}
    /\ k \in Indices
    /\ listener \in [Indices -> {"up", "down"}]
    /\ errCh \in [Indices -> {"empty", "nil", "err"}]
    /\ taken \in [Indices -> BOOLEAN] /\ shutting \in [Indices -> BOOLEAN]

\* When Run returns from a shutdown every listener's goroutine has ended, and
\* an error any of them met, at whatever moment, is in what Run returns, be it
\* behind the error of another server's Shutdown (shutdownAll, serve).
CleanReturn ==
    run = "done" => \A s \in Indices : /\ listener[s] = "down" /\ taken[s]
                                       /\ errCh[s] = "err" => firstErr

\* Once the signal is there Run returns, whatever the connections do and
\* wherever the listeners' goroutines were caught (waitForShutdown, serve,
\* shutdownAll).
RunReturns == signalled ~> Ended
=============================================================================
