----------------------------- MODULE LspRegistry ----------------------------
(***************************************************************************)
(* The registry of language servers (internal/lsp/registry.go) for one     *)
(* (workspace, language) key, with the lifecycle part of its clients       *)
(* (Start, Shutdown and the closed flag of client.go; LspClient has the    *)
(* details of a connection).  Keys share nothing but the registry's mutex. *)
(*                                                                         *)
(* Tool calls (find_definition, find_references, rename_symbol through     *)
(* acquireLSPClient) call Get and then make one request; the idle sweeper  *)
(* runs beside them.  Start is guarded by a sync.Once: a second caller     *)
(* waits for the first and gets its error.  Time since the last completed  *)
(* request is counted in ticks up to the idle timeout.                     *)
(***************************************************************************)
EXTENDS Integers, FiniteSets

CONSTANTS Clients,       \* bound: the Client objects ever made
          Tools,         \* concurrent tool calls
          NoClient,      \* no entry for the key
          IdleTimeout    \* Registry.idleTimeout, in ticks

ASSUME RegistryAssumption ==
    /\ NoClient \notin Clients
    /\ IdleTimeout \in Nat \ {0}

VARIABLES
    entry,     \* Registry.clients[key]
    sweeping,  \* sweepOnce is done: the sweeper goroutine runs
    start,     \* Client.startOnce and startErr
    used,      \* Client.lastUsedUnixNano # 0
    age,       \* ticks since it was set
    clientClosed, \* Client.closed
    proc,      \* the subprocess
    stopping,  \* Client.Shutdown, called by the sweeper
    tpc,       \* the tool calls
    tclient    \* the client a tool call got

clientVars == <<start, used, age, clientClosed, proc>>
toolVars   == <<tpc, tclient>>
registryVars == <<entry, sweeping, clientVars, stopping, toolVars>>

RegistryTypeOK ==
    /\ entry \in Clients \cup {NoClient}
    /\ sweeping \in BOOLEAN
    /\ start \in [Clients -> {"unmade", "new", "running", "ready", "failed"}]
    /\ used \in [Clients -> BOOLEAN]
    /\ age \in [Clients -> 0..IdleTimeout]
    /\ clientClosed \in [Clients -> BOOLEAN]
    /\ proc \in [Clients -> {"none", "running", "stalled", "dead", "reaped"}]
    /\ stopping \in [Clients -> {"no", "called", "waiting", "returned"}]
    /\ tpc \in [Tools -> {"idle", "lookedup", "handshake", "failed", "ready", "calling"}]
    /\ tclient \in [Tools -> Clients \cup {NoClient}]

RegistryInit ==
    /\ entry = NoClient /\ sweeping = FALSE
    /\ start = [c \in Clients |-> "unmade"]
    /\ used = [c \in Clients |-> FALSE]
    /\ age = [c \in Clients |-> 0]
    /\ clientClosed = [c \in Clients |-> FALSE]
    /\ proc = [c \in Clients |-> "none"]
    /\ stopping = [c \in Clients |-> "no"]
    /\ tpc = [t \in Tools |-> "idle"]
    /\ tclient = [t \in Tools |-> NoClient]

-----------------------------------------------------------------------------
(* Registry.Get and Client.Start.                                          *)

\* The map lookup, or a new client under the key; then sweepOnce.
Lookup(t) ==
    /\ tpc[t] = "idle"
    /\ tpc' = [tpc EXCEPT ![t] = "lookedup"]
    /\ IF entry # NoClient
       THEN /\ tclient' = [tclient EXCEPT ![t] = entry]
            /\ UNCHANGED <<entry, start>>
       ELSE \E c \in Clients :
               /\ start[c] = "unmade"
               /\ start' = [start EXCEPT ![c] = "new"]
               /\ entry' = c
               /\ tclient' = [tclient EXCEPT ![t] = c]
    /\ sweeping' = TRUE
    /\ UNCHANGED <<used, age, clientClosed, proc, stopping>>

\* doStart, first caller only: the binary is missing or does not start ...
SpawnFails(t) ==
    /\ tpc[t] = "lookedup" /\ start[tclient[t]] = "new"
    /\ start' = [start EXCEPT ![tclient[t]] = "failed"]
    /\ tpc' = [tpc EXCEPT ![t] = "failed"]
    /\ UNCHANGED <<entry, sweeping, used, age, clientClosed, proc, stopping, tclient>>

\* ... or the subprocess runs and initialize is sent.
Spawn(t) ==
    /\ tpc[t] = "lookedup" /\ start[tclient[t]] = "new"
    /\ start' = [start EXCEPT ![tclient[t]] = "running"]
    /\ proc' = [proc EXCEPT ![tclient[t]] = "running"]
    /\ tpc' = [tpc EXCEPT ![t] = "handshake"]
    /\ UNCHANGED <<entry, sweeping, used, age, clientClosed, stopping, tclient>>

HandshakeOk(t) ==
    /\ tpc[t] = "handshake" /\ proc[tclient[t]] = "running"
    /\ start' = [start EXCEPT ![tclient[t]] = "ready"]
    /\ used' = [used EXCEPT ![tclient[t]] = TRUE]
    /\ age' = [age EXCEPT ![tclient[t]] = 0]
    /\ tpc' = [tpc EXCEPT ![t] = "ready"]
    /\ UNCHANGED <<entry, sweeping, clientClosed, proc, stopping, tclient>>

\* initialize fails: the first caller's request was cancelled, the server
\* died or answered with an error.  The subprocess is left as it is.
HandshakeFails(t) ==
    /\ tpc[t] = "handshake"
    /\ start' = [start EXCEPT ![tclient[t]] = "failed"]
    /\ tpc' = [tpc EXCEPT ![t] = "failed"]
    /\ UNCHANGED <<entry, sweeping, used, age, clientClosed, proc, stopping, tclient>>

\* A caller that is not the first gets the first one's outcome.
StartDone(t) ==
    /\ tpc[t] = "lookedup" /\ start[tclient[t]] \in {"ready", "failed"}
    /\ tpc' = [tpc EXCEPT ![t] = start[tclient[t]]]
    /\ UNCHANGED <<entry, sweeping, clientVars, stopping, tclient>>

\* Get on an error of Start: delete(r.clients, key).
GetDrops(t) ==
    /\ tpc[t] = "failed"
    /\ entry' = NoClient
    /\ tpc' = [tpc EXCEPT ![t] = "idle"]
    /\ tclient' = [tclient EXCEPT ![t] = NoClient]
    /\ UNCHANGED <<sweeping, clientVars, stopping>>

-----------------------------------------------------------------------------
(* The tool's request (Definition, References, Rename: Client.call).       *)

CallBegins(t) ==
    /\ tpc[t] = "ready" /\ ~clientClosed[tclient[t]]
    /\ tpc' = [tpc EXCEPT ![t] = "calling"]
    /\ UNCHANGED <<entry, sweeping, clientVars, stopping, tclient>>

CallOk(t) ==
    /\ tpc[t] = "calling" /\ proc[tclient[t]] = "running"
    /\ used' = [used EXCEPT ![tclient[t]] = TRUE]
    /\ age' = [age EXCEPT ![tclient[t]] = 0]
    /\ tpc' = [tpc EXCEPT ![t] = "idle"]
    /\ tclient' = [tclient EXCEPT ![t] = NoClient]
    /\ UNCHANGED <<entry, sweeping, start, clientClosed, proc, stopping>>

\* Seeded fault: lastUsed is also updated by requests that fail.
CallFailsButCounts(t) ==
    /\ \/ tpc[t] = "ready" /\ clientClosed[tclient[t]]
       \/ tpc[t] = "calling"
    /\ age' = [age EXCEPT ![tclient[t]] = 0]
    /\ tpc' = [tpc EXCEPT ![t] = "idle"]
    /\ tclient' = [tclient EXCEPT ![t] = NoClient]
    /\ UNCHANGED <<entry, sweeping, start, used, clientClosed, proc, stopping>>

\* ErrClosed, an error response, failAllInflight or a cancelled request.
CallFails(t) ==
    /\ \/ tpc[t] = "ready" /\ clientClosed[tclient[t]]
       \/ tpc[t] = "calling"
    /\ tpc' = [tpc EXCEPT ![t] = "idle"]
    /\ tclient' = [tclient EXCEPT ![t] = NoClient]
    /\ UNCHANGED <<entry, sweeping, clientVars, stopping>>

-----------------------------------------------------------------------------
(* The subprocess, its read loop and the clock.                            *)

\* The server lives on but stops reading its input: writes to it block.
ProcessStalls(c) ==
    /\ proc[c] = "running"
    /\ proc' = [proc EXCEPT ![c] = "stalled"]
    /\ UNCHANGED <<entry, sweeping, start, used, age, clientClosed, stopping, toolVars>>

ProcessDies(c) ==
    /\ proc[c] \in {"running", "stalled"}
    /\ proc' = [proc EXCEPT ![c] = "dead"]
    /\ UNCHANGED <<entry, sweeping, start, used, age, clientClosed, stopping, toolVars>>

\* readMessage fails on a server that lives on: what it sent is no message.
ReadLoopBreaks(c) ==
    /\ proc[c] = "running" /\ ~clientClosed[c]
    /\ clientClosed' = [clientClosed EXCEPT ![c] = TRUE]
    /\ UNCHANGED <<entry, sweeping, start, used, age, proc, stopping, toolVars>>

ReadLoopEnds(c) ==
    /\ proc[c] \in {"dead", "reaped"} /\ ~clientClosed[c]
    /\ clientClosed' = [clientClosed EXCEPT ![c] = TRUE]
    /\ UNCHANGED <<entry, sweeping, start, used, age, proc, stopping, toolVars>>

Older(c) == IF used[c] /\ age[c] < IdleTimeout THEN age[c] + 1 ELSE age[c]

Tick ==
    /\ \E c \in Clients : Older(c) # age[c]
    /\ age' = [c \in Clients |-> Older(c)]
    /\ UNCHANGED <<entry, sweeping, start, used, clientClosed, proc, stopping, toolVars>>

-----------------------------------------------------------------------------
(* reapIdle and Client.Shutdown.                                           *)

Idle(c) == used[c] /\ age[c] = IdleTimeout

\* Seeded fault: the client is stopped but stays in the map.
ReapKeepsEntry ==
    /\ sweeping
    /\ \A c \in Clients : stopping[c] \notin {"called", "waiting"}
    /\ entry # NoClient
    /\ Idle(entry)
    /\ stopping' = [stopping EXCEPT ![entry] = "called"]
    /\ UNCHANGED <<entry, sweeping, clientVars, toolVars>>

\* One pass of the sweeper; it is busy until the clients it took are down.
ReapIdle ==
    /\ sweeping
    /\ \A c \in Clients : stopping[c] \notin {"called", "waiting"}
    /\ entry # NoClient
    /\ Idle(entry)
    /\ stopping' = [stopping EXCEPT ![entry] = "called"]
    /\ entry' = NoClient
    /\ UNCHANGED <<sweeping, clientVars, toolVars>>

\* Client.Shutdown: closed.Swap(true), a no-op when it was set already.
ClientShutdown(c) ==
    /\ stopping[c] = "called"
    /\ stopping' = [stopping EXCEPT ![c] = IF clientClosed[c] THEN "returned" ELSE "waiting"]
    /\ clientClosed' = [clientClosed EXCEPT ![c] = TRUE]
    /\ UNCHANGED <<entry, sweeping, start, used, age, proc, toolVars>>

\* The server exits at the end of its input or is killed, and is reaped; but
\* the exit notification before that blocks while the server does not read.
ClientStopped(c) ==
    /\ stopping[c] = "waiting" /\ proc[c] # "stalled"
    /\ stopping' = [stopping EXCEPT ![c] = "returned"]
    /\ proc' = [proc EXCEPT ![c] = "reaped"]
    /\ UNCHANGED <<entry, sweeping, start, used, age, clientClosed, toolVars>>

-----------------------------------------------------------------------------
Get(t)  == Lookup(t) \/ SpawnFails(t) \/ Spawn(t) \/ HandshakeOk(t) \/ HandshakeFails(t) \/ StartDone(t) \/ GetDrops(t)
Use(t)  == CallBegins(t) \/ CallOk(t) \/ CallFails(t)
Server(c) == ProcessStalls(c) \/ ProcessDies(c) \/ ReadLoopBreaks(c) \/ ReadLoopEnds(c)
Stop(c) == ClientShutdown(c) \/ ClientStopped(c)

RegistryNext ==
    \/ \E t \in Tools : Get(t) \/ Use(t)
    \/ \E c \in Clients : Server(c) \/ Stop(c)
    \/ Tick \/ ReapIdle

RegistrySpec == RegistryInit /\ [][RegistryNext]_registryVars

\* Goroutines run, time passes and the sweeper's ticker fires.  Tool calls
\* come when the agent makes them and a handshake may take for ever.
FairRegistrySpec ==
    /\ RegistrySpec
    /\ \A t \in Tools : WF_registryVars(StartDone(t)) /\ WF_registryVars(GetDrops(t))
    /\ \A c \in Clients : WF_registryVars(ReadLoopEnds(c)) /\ WF_registryVars(Stop(c))
    /\ WF_registryVars(Tick) /\ WF_registryVars(ReapIdle)

-----------------------------------------------------------------------------
(* Properties.                                                             *)

SweeperStuck == \E c \in Clients : stopping[c] = "waiting" /\ proc[c] = "stalled"

\* A client that is of no use leaves the map, so the next tool call gets a
\* fresh one: one whose start failed, although Start's error is stored for
\* ever, and one whose server crashed or whose read loop gave up, although the
\* agent keeps calling, because failed calls do not count as use (unless the
\* sweeper is stuck in the Shutdown of another server, which stopped reading
\* its input).  And a server the sweeper took out of the map stops running,
\* whatever requests are under way, as long as its client is not closed when
\* the sweeper gets to it: of a closed one Shutdown is a no-op (Get, reapIdle,
\* Client.Shutdown).
UselessServerIsReplaced ==
    \A c \in Clients :
        /\ start[c] = "failed" /\ entry = c ~> entry # c
        /\ start[c] = "ready" /\ (proc[c] = "dead" \/ clientClosed[c]) /\ entry = c
               ~> entry # c \/ SweeperStuck
        /\ stopping[c] = "waiting" ~> proc[c] # "running"

\* A tool call is never handed a client whose handshake has not succeeded,
\* and a client that was stopped is never handed out by a later lookup.
HandedOutIsReady ==
    /\ \A t \in Tools : tpc[t] \in {"ready", "calling"} => start[tclient[t]] = "ready"
    /\ entry # NoClient => stopping[entry] = "no"
=============================================================================
