------------------------------- MODULE LspProofs -------------------------------
(***************************************************************************)
(* TLAPS proofs about the language servers.  LspClient: the request table  *)
(* of one connection, for any number of concurrent requests and shutdowns  *)
(* and any number of duplicate answers.  LspRegistry: the clients of one   *)
(* key, for any number of tool calls and of clients made in a row.         *)
(***************************************************************************)
EXTENDS LspClient, LspRegistry, TLAPS

-----------------------------------------------------------------------------
(* A connection.  That a send never blocks needs to be followed through a  *)
(* request's whole life: its channel is filled at most once, by whoever    *)
(* takes its id out of inflight, and an id is never put in twice.          *)

Early   == {"idle", "opening", "ready", "checked"}    \* id not registered yet
Pending == {"inserted", "waiting", "failed"}

\* A request whose channel holds something is registered no more and will not
\* be again, and the read loop is not about to send to it.
FilledIsDone ==
    \A r \in Requests : chan[r] # "empty" =>
        r \notin inflight /\ pc[r] \notin Early /\ ~(loop = "delivering" /\ current = r)

\* The request the read loop is about to send to was registered.
Delivering ==
    loop = "delivering" =>
        current \in Requests /\ current \notin inflight /\ pc[current] \notin Early

\* Only one request sends didOpen, and opened says whether one has begun to.
OpenGuard ==
    /\ ~opened => didOpens = 0 /\ \A r \in Requests : pc[r] # "opening"
    /\ \A r \in Requests : pc[r] = "opening" => didOpens = 0
    /\ \A r, q \in Requests : pc[r] = "opening" /\ pc[q] = "opening" => r = q

Types ==
    /\ pc \in [Requests -> Early \cup Pending \cup {"ok", "error"}]
    /\ chan \in [Requests -> {"empty", "response", "failure"}]
    /\ inflight \subseteq Requests
    /\ opened \in BOOLEAN /\ didOpens \in Nat

IInv == Types /\ InflightIsPending /\ FilledIsDone /\ Delivering /\ OpenGuard /\ OpenedOnce

-----------------------------------------------------------------------------
\* The invariant holds initially: no request is made.
LEMMA InitIInv == Init => IInv
<1>. SUFFICES ASSUME Init PROVE IInv  OBVIOUS
<1>1. Types  BY Zenon DEF Init, Types, Early
<1>2. InflightIsPending /\ FilledIsDone /\ Delivering  BY DEF Init, InflightIsPending, FilledIsDone, Delivering
<1>3. OpenGuard /\ OpenedOnce  BY DEF Init, OpenGuard, OpenedOnce
<1>. QED  BY <1>1, <1>2, <1>3 DEF IInv

\* Steps that change neither a request, its channel nor the read loop.
LEMMA ElsewhereStep ==
    ASSUME IInv, UNCHANGED <<requestVars, openVars, loop, current>> PROVE IInv'
BY DEF IInv, requestVars, openVars, Types, InflightIsPending, FilledIsDone, Delivering, OpenGuard, OpenedOnce

\* A request moves on, its channel empty or emptied.
LEMMA RequestStep ==
    ASSUME IInv, NEW r \in Requests, Call(r) PROVE IInv'
<1>. USE DEF Early, Pending
<1>t. Types /\ InflightIsPending /\ FilledIsDone /\ Delivering /\ OpenGuard /\ OpenedOnce  BY DEF IInv
<1>1. CASE EnsureOpen(r)
  <2>1. Types'  BY <1>1, <1>t DEF EnsureOpen, Types
  <2>2. InflightIsPending' /\ FilledIsDone' /\ Delivering'
    BY <1>1, <1>t DEF EnsureOpen, loopVars, Types, InflightIsPending, FilledIsDone, Delivering
  <2>3. OpenGuard' /\ OpenedOnce'
    BY <1>1, <1>t DEF EnsureOpen, Types, OpenGuard, OpenedOnce
  <2>. QED  BY <2>1, <2>2, <2>3 DEF IInv
<1>2. CASE FileUnreadable(r)
  <2>1. Types'  BY <1>2, <1>t DEF FileUnreadable, openVars, Types
  <2>2. InflightIsPending' /\ FilledIsDone' /\ Delivering'
    BY <1>2, <1>t DEF FileUnreadable, loopVars, Types, InflightIsPending, FilledIsDone, Delivering
  <2>3. OpenGuard' /\ OpenedOnce'
    BY <1>2, <1>t DEF FileUnreadable, openVars, Types, OpenGuard, OpenedOnce
  <2>. QED  BY <2>1, <2>2, <2>3 DEF IInv
<1>3. CASE DidOpen(r)
  <2>1. Types'  BY <1>3, <1>t DEF DidOpen, Types
  <2>2. InflightIsPending' /\ FilledIsDone' /\ Delivering'
    BY <1>3, <1>t DEF DidOpen, loopVars, Types, InflightIsPending, FilledIsDone, Delivering
  <2>3. didOpens = 0 /\ opened  BY <1>3, <1>t DEF DidOpen, OpenGuard
  <2>4. \A q \in Requests : pc'[q] # "opening"  BY <1>3, <1>t DEF DidOpen, OpenGuard, Types
  <2>5. opened' = opened /\ didOpens' \in {0, 1}  BY <1>3, <2>3 DEF DidOpen
  <2>6. OpenGuard' /\ OpenedOnce'  BY <2>3, <2>4, <2>5 DEF OpenGuard, OpenedOnce
  <2>. QED  BY <2>1, <2>2, <2>6 DEF IInv
<1>4. ASSUME UNCHANGED <<opened, didOpens>>, pc[r] # "opening", pc'[r] # "opening",
             \A q \in Requests \ {r} : pc'[q] = pc[q]
      PROVE  OpenGuard' /\ OpenedOnce'
  BY <1>4, <1>t DEF OpenGuard, OpenedOnce
<1>5. CASE CallChecks(r)
  <2>1. Types'  BY <1>5, <1>t DEF CallChecks, openVars, Types
  <2>2. InflightIsPending' /\ FilledIsDone' /\ Delivering'
    BY <1>5, <1>t DEF CallChecks, loopVars, Types, InflightIsPending, FilledIsDone, Delivering
  <2>3. OpenGuard' /\ OpenedOnce'  BY <1>4, <1>5, <1>t DEF CallChecks, openVars, Types
  <2>. QED  BY <2>1, <2>2, <2>3 DEF IInv
<1>6. CASE CallInserts(r)
  <2>1. Types'  BY <1>6, <1>t DEF CallInserts, openVars, Types
  <2>2. InflightIsPending' /\ FilledIsDone' /\ Delivering'
    BY <1>6, <1>t DEF CallInserts, loopVars, Types, InflightIsPending, FilledIsDone, Delivering
  <2>3. OpenGuard' /\ OpenedOnce'  BY <1>4, <1>6, <1>t DEF CallInserts, openVars, Types
  <2>. QED  BY <2>1, <2>2, <2>3 DEF IInv
<1>7. CASE CallWrites(r)
  <2>1. Types'  BY <1>7, <1>t DEF CallWrites, openVars, Types
  <2>2. InflightIsPending' /\ FilledIsDone' /\ Delivering'
    BY <1>7, <1>t DEF CallWrites, loopVars, Types, InflightIsPending, FilledIsDone, Delivering
  <2>3. OpenGuard' /\ OpenedOnce'  BY <1>4, <1>7, <1>t DEF CallWrites, openVars, Types
  <2>. QED  BY <2>1, <2>2, <2>3 DEF IInv
<1>8. CASE CallWriteFailed(r)
  <2>1. Types'  BY <1>8, <1>t DEF CallWriteFailed, openVars, Types
  <2>2. InflightIsPending' /\ FilledIsDone' /\ Delivering'
    BY <1>8, <1>t DEF CallWriteFailed, loopVars, Types, InflightIsPending, FilledIsDone, Delivering
  <2>3. OpenGuard' /\ OpenedOnce'  BY <1>4, <1>8, <1>t DEF CallWriteFailed, openVars, Types
  <2>. QED  BY <2>1, <2>2, <2>3 DEF IInv
<1>9. CASE CallReceives(r)
  <2>0. /\ chan' = [chan EXCEPT ![r] = "empty"] /\ chan[r] # "empty" /\ pc[r] = "waiting"
        /\ pc' \in {[pc EXCEPT ![r] = "ok"], [pc EXCEPT ![r] = "error"]}
        /\ UNCHANGED <<inflight, loop, current, opened, didOpens>>
    BY <1>9 DEF CallReceives, loopVars, openVars
  <2>1. Types'  BY <2>0, <1>t DEF Types
  <2>2. InflightIsPending' /\ FilledIsDone' /\ Delivering'
    BY <2>0, <1>t DEF Types, InflightIsPending, FilledIsDone, Delivering
  <2>3. OpenGuard' /\ OpenedOnce'  BY <1>4, <2>0, <1>t DEF Types
  <2>. QED  BY <2>1, <2>2, <2>3 DEF IInv
<1>10. CASE CallCancelled(r)
  <2>1. Types'  BY <1>10, <1>t DEF CallCancelled, openVars, Types
  <2>2. InflightIsPending' /\ FilledIsDone' /\ Delivering'
    BY <1>10, <1>t DEF CallCancelled, loopVars, Types, InflightIsPending, FilledIsDone, Delivering
  <2>3. OpenGuard' /\ OpenedOnce'  BY <1>4, <1>10, <1>t DEF CallCancelled, openVars, Types
  <2>. QED  BY <2>1, <2>2, <2>3 DEF IInv
<1>. QED  BY <1>1, <1>2, <1>3, <1>5, <1>6, <1>7, <1>8, <1>9, <1>10 DEF Call

\* The read loop takes a channel out of inflight before it fills it.
LEMMA ReadLoopStep == ASSUME IInv, ReadLoop PROVE IInv'
<1>. USE DEF Early, Pending
<1>t. Types /\ InflightIsPending /\ FilledIsDone /\ Delivering /\ OpenGuard /\ OpenedOnce  BY DEF IInv
<1>0. ASSUME UNCHANGED <<pc, opened, didOpens>> PROVE OpenGuard' /\ OpenedOnce'
  BY <1>0, <1>t DEF OpenGuard, OpenedOnce
<1>1. ASSUME NEW r \in Requests, LoopReads(r) PROVE IInv'
  <2>0. /\ loop = "reading" /\ inflight' = inflight \ {r}
        /\ UNCHANGED <<pc, chan, opened, didOpens>>
        /\ \/ r \in inflight /\ loop' = "delivering" /\ current' = r
           \/ r \notin inflight /\ loop' = "reading" /\ current' = current
    BY <1>1 DEF LoopReads, loopVars, openVars
  <2>1. Types'  BY <2>0, <1>t DEF Types
  <2>2. InflightIsPending' /\ FilledIsDone' /\ Delivering'
    BY <2>0, <1>t DEF Types, InflightIsPending, FilledIsDone, Delivering
  <2>. QED  BY <2>0, <2>1, <2>2, <1>0 DEF IInv
<1>2. CASE LoopDelivers
  <2>1. Types'  BY <1>2, <1>t DEF LoopDelivers, openVars, Types, Delivering
  <2>2. InflightIsPending' /\ FilledIsDone' /\ Delivering'
    BY <1>2, <1>t DEF LoopDelivers, Types, InflightIsPending, FilledIsDone, Delivering
  <2>. QED  BY <1>2, <2>1, <2>2, <1>0 DEF IInv, LoopDelivers, openVars
<1>3. CASE LoopEnds
  <2>1. UNCHANGED <<pc, inflight, chan, opened, didOpens>> /\ loop' = "failing"
    BY <1>3 DEF LoopEnds, requestVars, openVars
  <2>2. Types' /\ InflightIsPending' /\ FilledIsDone' /\ Delivering'
    BY <2>1, <1>t DEF Types, InflightIsPending, FilledIsDone, Delivering
  <2>. QED  BY <2>1, <2>2, <1>0 DEF IInv
<1>4. CASE LoopFailsAll
  <2>1. Types'  BY <1>4, <1>t DEF LoopFailsAll, openVars, Types
  <2>2. InflightIsPending' /\ FilledIsDone' /\ Delivering'
    BY <1>4, <1>t DEF LoopFailsAll, Types, InflightIsPending, FilledIsDone, Delivering
  <2>. QED  BY <1>4, <2>1, <2>2, <1>0 DEF IInv, LoopFailsAll, openVars
<1>. QED  BY <1>1, <1>2, <1>3, <1>4 DEF ReadLoop

\* Every step keeps the invariant.
LEMMA StepIInv == IInv /\ [Next]_vars => IInv'
<1>. SUFFICES ASSUME IInv, [Next]_vars PROVE IInv'  OBVIOUS
<1>1. ASSUME NEW r \in Requests, Call(r) PROVE IInv'  BY <1>1, RequestStep
<1>2. ASSUME NEW r \in Requests, ServerAnswers(r) PROVE IInv'
  BY <1>2, ElsewhereStep DEF ServerAnswers, loopVars
<1>3. CASE ServerStalls \/ ServerResumes \/ ServerGarbles \/ ServerDies
  BY <1>3, ElsewhereStep DEF ServerStalls, ServerResumes, ServerGarbles, ServerDies, loopVars
<1>4. CASE ReadLoop  BY <1>4, ReadLoopStep
<1>5. ASSUME NEW k \in Callers, Shutdown(k) PROVE IInv'
  BY <1>5, ElsewhereStep
  DEF Shutdown, ShutdownSwaps, ShutdownCalls, ShutdownNotifies, ShutdownClosesStdin,
      ShutdownKills, ShutdownWaits, loopVars
<1>6. CASE UNCHANGED vars  BY <1>6, ElsewhereStep DEF vars, loopVars
<1>. QED  BY <1>1, <1>2, <1>3, <1>4, <1>5, <1>6 DEF Next

\* readLoop never blocks on a caller's channel, so one lost, cancelled or
\* doubly answered request never holds up the others (client.go deliver,
\* failAllInflight).
THEOREM ReadLoopLive == Spec => []LoopNeverBlocks
<1>1. IInv => LoopNeverBlocks
  BY DEF IInv, Types, FilledIsDone, Delivering, LoopNeverBlocks
<1>. QED  BY <1>1, InitIInv, StepIInv, PTL DEF Spec

\* The request table does not leak, whichever way a request ends (client.go
\* call).
THEOREM NoLeak == Spec => []InflightIsPending
<1>1. IInv => InflightIsPending  BY DEF IInv
<1>. QED  BY <1>1, InitIInv, StepIInv, PTL DEF Spec

\* However many requests start together, a file is announced to the server
\* once (client.go ensureOpen).
THEOREM DidOpenOnce == Spec => []OpenedOnce
<1>1. IInv => OpenedOnce  BY DEF IInv
<1>. QED  BY <1>1, InitIInv, StepIInv, PTL DEF Spec

-----------------------------------------------------------------------------
\* The types of what the request table's argument leaves alone: the server,
\* the read loop and the calls of Shutdown.
Elsewhere ==
    /\ closed \in BOOLEAN /\ stdinOpen \in BOOLEAN
    /\ server \in {"up", "stalled", "dead", "reaped"}
    /\ received \subseteq Requests
    /\ replies \in [Requests -> 0..MaxReplies]
    /\ sent \in [Requests -> 0..MaxReplies]
    /\ garbled \in BOOLEAN
    /\ loop \in {"reading", "delivering", "failing", "done"}
    /\ current \in Requests \cup {NoRequest}
    /\ sd \in [Callers -> {"idle", "call", "exit", "close", "waiting", "returned"}]

\* A frame that is still in the pipe was sent.
InPipe == \A r \in Requests : replies[r] <= sent[r]

ServerInv == Elsewhere /\ InPipe

\* Initially the connection is open and nothing was sent.
LEMMA InitServerInv == Init => ServerInv
<1>. SUFFICES ASSUME Init PROVE ServerInv  OBVIOUS
<1>1. closed \in BOOLEAN /\ stdinOpen \in BOOLEAN /\ garbled \in BOOLEAN  BY Zenon DEF Init
<1>2. replies \in [Requests -> 0..MaxReplies] /\ sent \in [Requests -> 0..MaxReplies]
  BY LspAssumption DEF Init
<1>. QED  BY <1>1, <1>2 DEF Init, ServerInv, Elsewhere, InPipe

\* A frame is sent before it is read, so the pipe's count of an id stays
\* within what the server sends.
LEMMA StepServerInv == ServerInv /\ [Next]_vars => ServerInv'
<1>. SUFFICES ASSUME ServerInv, [Next]_vars PROVE ServerInv'  OBVIOUS
<1>. USE DEF ServerInv, Elsewhere, InPipe
<1>m. MaxReplies \in Nat  BY LspAssumption
<1>b. closed \in BOOLEAN /\ stdinOpen \in BOOLEAN /\ garbled \in BOOLEAN  OBVIOUS
<1>1. ASSUME NEW r \in Requests, Call(r) PROVE ServerInv'
  <2>1. /\ UNCHANGED <<closed, stdinOpen, server, replies, sent, garbled, loop, current, sd>>
        /\ received' \in {received, received \cup {r}}
    BY <1>1 DEF Call, EnsureOpen, FileUnreadable, DidOpen, CallChecks, CallInserts, CallWrites,
                CallWriteFailed, CallReceives, CallCancelled, serverVars, loopVars
  <2>. QED  BY <2>1, <1>b
<1>2. ASSUME NEW r \in Requests, ServerAnswers(r) PROVE ServerInv'
  <2>1. /\ sent' \in [Requests -> 0..MaxReplies] /\ replies' \in [Requests -> 0..MaxReplies]
        /\ \A q \in Requests : replies'[q] <= sent'[q]
    BY <1>2, <1>m DEF ServerAnswers
  <2>. QED  BY <1>2, <2>1, <1>b DEF ServerAnswers, loopVars
<1>3. CASE ServerStalls \/ ServerResumes \/ ServerGarbles \/ ServerDies
  <2>1. /\ server' \in {"up", "stalled", "dead"}
        /\ UNCHANGED <<closed, stdinOpen, received, replies, sent, loop, current, sd>>
    BY <1>3 DEF ServerStalls, ServerResumes, ServerGarbles, ServerDies, loopVars
  <2>2. garbled' \in BOOLEAN
    BY <1>3, <1>b, Zenon DEF ServerStalls, ServerResumes, ServerGarbles, ServerDies
  <2>. QED  BY <2>1, <2>2, <1>b
<1>4. ASSUME NEW r \in Requests, LoopReads(r) PROVE ServerInv'
  <2>1. /\ replies' \in [Requests -> 0..MaxReplies]
        /\ \A q \in Requests : replies'[q] <= sent[q]
    BY <1>4, <1>m DEF LoopReads
  <2>2. loop' \in {"reading", "delivering"} /\ current' \in Requests \cup {NoRequest}
    BY <1>4 DEF LoopReads, loopVars
  <2>. QED  BY <1>4, <2>1, <2>2, <1>b DEF LoopReads
<1>5. CASE LoopDelivers
  BY <1>5, <1>b DEF LoopDelivers, serverVars
<1>6. CASE LoopEnds
  <2>1. /\ loop' = "failing" /\ closed' \in BOOLEAN
        /\ UNCHANGED <<stdinOpen, serverVars, current, sd>>
    BY <1>6, Zenon DEF LoopEnds
  <2>. QED  BY <2>1, <1>b DEF serverVars
<1>7. CASE LoopFailsAll
  BY <1>7, <1>b DEF LoopFailsAll, serverVars
<1>8. ASSUME NEW k \in Callers, Shutdown(k) PROVE ServerInv'
  <2>1. CASE ShutdownSwaps(k)
    <3>1. closed' \in BOOLEAN  BY <2>1, Zenon DEF ShutdownSwaps
    <3>2. sd' \in [Callers -> {"idle", "call", "exit", "close", "waiting", "returned"}]
      BY <2>1 DEF ShutdownSwaps
    <3>. QED  BY <2>1, <3>1, <3>2, <1>b DEF ShutdownSwaps, serverVars, loopVars
  <2>2. CASE ShutdownCalls(k)
    BY <2>2, <1>b DEF ShutdownCalls, serverVars, loopVars
  <2>3. CASE ShutdownNotifies(k)
    <3>1. sd' = [sd EXCEPT ![k] = "close"] /\ UNCHANGED <<closed, stdinOpen, serverVars, loopVars>>
      BY <2>3, Zenon DEF ShutdownNotifies
    <3>. QED  BY <3>1, <1>b DEF serverVars, loopVars
  <2>4. CASE ShutdownClosesStdin(k)
    <3>1. stdinOpen' \in BOOLEAN  BY <2>4, Zenon DEF ShutdownClosesStdin
    <3>. QED  BY <2>4, <3>1, <1>b DEF ShutdownClosesStdin, serverVars, loopVars
  <2>5. CASE ShutdownKills(k)
    BY <2>5, <1>b DEF ShutdownKills, loopVars
  <2>6. CASE ShutdownWaits(k)
    BY <2>6, <1>b DEF ShutdownWaits, loopVars
  <2>. QED  BY <1>8, <2>1, <2>2, <2>3, <2>4, <2>5, <2>6 DEF Shutdown
<1>9. CASE UNCHANGED vars
  BY <1>9, <1>b DEF vars, serverVars, loopVars
<1>. QED  BY <1>1, <1>2, <1>3, <1>4, <1>5, <1>6, <1>7, <1>8, <1>9 DEF Next, ReadLoop

\* Every variable of a connection keeps its type, for any number of requests,
\* shutdowns and duplicate answers (client.go).
THEOREM ClientTypes == Spec => []TypeOK
<1>1. IInv /\ ServerInv => TypeOK
  BY Zenon DEF IInv, Types, Early, Pending, ServerInv, Elsewhere, TypeOK
<1>. QED  BY <1>1, InitIInv, StepIInv, InitServerInv, StepServerInv, PTL DEF Spec

-----------------------------------------------------------------------------
(* The registry of the clients, for any number of tool calls and of        *)
(* clients made one after another for a key.  A call keeps the client it   *)
(* was given while others drop, reap and replace the map's entry, so what  *)
(* it may rely on cannot be read off the entry: the sync.Once gives every  *)
(* client at most one handshake, whose outcome never changes.              *)

RegTypes ==
    /\ entry \in Clients \cup {NoClient}
    /\ start \in [Clients -> {"unmade", "new", "running", "ready", "failed"}]
    /\ stopping \in [Clients -> {"no", "called", "waiting", "returned"}]
    /\ tpc \in [Tools -> {"idle", "lookedup", "handshake", "failed", "ready", "calling"}]
    /\ tclient \in [Tools -> Clients \cup {NoClient}]

\* A call that is under way has a client, and one that was made.
HasClient == \A t \in Tools : tpc[t] # "idle" => tclient[t] \in Clients /\ start[tclient[t]] # "unmade"

\* Start's first caller is alone in the handshake, whose outcome is open.
OneHandshake ==
    \A t \in Tools : tpc[t] = "handshake" =>
        /\ start[tclient[t]] = "running"
        /\ \A u \in Tools : tpc[u] = "handshake" /\ tclient[u] = tclient[t] => u = t

\* Only a client that was once in the map is stopped.
UnmadeIsUnstopped ==
    /\ entry # NoClient => start[entry] # "unmade"
    /\ \A c \in Clients : start[c] = "unmade" => stopping[c] = "no"

RegInv == RegTypes /\ HasClient /\ OneHandshake /\ UnmadeIsUnstopped /\ HandedOutIsReady

\* The invariant holds initially: the map is empty and no client was made.
LEMMA InitRegInv == RegistryInit => RegInv
BY DEF RegistryInit, RegInv, RegTypes, HasClient, OneHandshake, UnmadeIsUnstopped, HandedOutIsReady

\* A client that is made, or whose start ends, is no other call's: a new one is
\* in nobody's hands, and only its one handshaker ends a start that runs.
LEMMA StepRegInv == RegInv /\ [RegistryNext]_registryVars => RegInv'
<1>. SUFFICES ASSUME RegInv, [RegistryNext]_registryVars PROVE RegInv'
  OBVIOUS
<1>. USE DEF RegInv
<1>1. ASSUME NEW t \in Tools, Get(t) PROVE RegInv'
  <2>1. CASE Lookup(t)
    <3>1. CASE entry # NoClient
      BY <2>1, <3>1 DEF Lookup, RegTypes, HasClient, OneHandshake, UnmadeIsUnstopped, HandedOutIsReady
    <3>2. CASE entry = NoClient
      BY <2>1, <3>2 DEF Lookup, RegTypes, HasClient, OneHandshake, UnmadeIsUnstopped, HandedOutIsReady
    <3>. QED  BY <3>1, <3>2
  <2>2. CASE SpawnFails(t) \/ Spawn(t)
    BY <2>2 DEF SpawnFails, Spawn, RegTypes, HasClient, OneHandshake, UnmadeIsUnstopped, HandedOutIsReady
  <2>3. CASE HandshakeOk(t) \/ HandshakeFails(t)
    BY <2>3 DEF HandshakeOk, HandshakeFails, RegTypes, HasClient, OneHandshake, UnmadeIsUnstopped,
                HandedOutIsReady
  <2>4. CASE StartDone(t)
    BY <2>4 DEF StartDone, clientVars, RegTypes, HasClient, OneHandshake, UnmadeIsUnstopped,
                HandedOutIsReady
  <2>5. CASE GetDrops(t)
    BY <2>5 DEF GetDrops, clientVars, RegTypes, HasClient, OneHandshake, UnmadeIsUnstopped,
                HandedOutIsReady
  <2>. QED  BY <1>1, <2>1, <2>2, <2>3, <2>4, <2>5 DEF Get
<1>2. ASSUME NEW t \in Tools, Use(t) PROVE RegInv'
  BY <1>2 DEF Use, CallBegins, CallOk, CallFails, clientVars, RegTypes, HasClient,
              OneHandshake, UnmadeIsUnstopped, HandedOutIsReady
<1>3. ASSUME NEW c \in Clients, Server(c) PROVE RegInv'
  BY <1>3 DEF Server, ProcessStalls, ProcessDies, ReadLoopBreaks, ReadLoopEnds, toolVars, RegTypes,
              HasClient, OneHandshake, UnmadeIsUnstopped, HandedOutIsReady
<1>4. ASSUME NEW c \in Clients, Stop(c) PROVE RegInv'
  BY <1>4 DEF Stop, ClientShutdown, ClientStopped, toolVars, RegTypes, HasClient,
              OneHandshake, UnmadeIsUnstopped, HandedOutIsReady
<1>5. CASE Tick
  BY <1>5 DEF Tick, toolVars, RegTypes, HasClient, OneHandshake, UnmadeIsUnstopped, HandedOutIsReady
<1>6. CASE ReapIdle
  BY <1>6 DEF ReapIdle, clientVars, toolVars, RegTypes, HasClient, OneHandshake,
              UnmadeIsUnstopped, HandedOutIsReady
<1>7. CASE UNCHANGED registryVars
  BY <1>7 DEF registryVars, clientVars, toolVars, RegTypes, HasClient, OneHandshake,
              UnmadeIsUnstopped, HandedOutIsReady
<1>. QED  BY <1>1, <1>2, <1>3, <1>4, <1>5, <1>6, <1>7 DEF RegistryNext

\* However lookups, failing starts, requests and the sweeper interleave, no
\* call works with a client whose handshake has not succeeded, and the map
\* never offers a client that the sweeper stopped (registry.go Get, reapIdle).
THEOREM OnlyReadyClients == RegistrySpec => []HandedOutIsReady
<1>1. RegInv => HandedOutIsReady  BY DEF RegInv
<1>. QED  BY <1>1, InitRegInv, StepRegInv, PTL DEF RegistrySpec

\* The types of the sweeper's flag and of a client's use, closed flag and
\* process.
ClientTypesOK ==
    /\ sweeping \in BOOLEAN
    /\ used \in [Clients -> BOOLEAN]
    /\ age \in [Clients -> 0..IdleTimeout]
    /\ clientClosed \in [Clients -> BOOLEAN]
    /\ proc \in [Clients -> {"none", "running", "stalled", "dead", "reaped"}]

\* Initially no client was made or used.
LEMMA InitClientTypes == RegistryInit => ClientTypesOK
<1>. SUFFICES ASSUME RegistryInit PROVE ClientTypesOK  OBVIOUS
<1>1. sweeping \in BOOLEAN /\ used \in [Clients -> BOOLEAN] /\ clientClosed \in [Clients -> BOOLEAN]
  BY Zenon DEF RegistryInit
<1>2. age \in [Clients -> 0..IdleTimeout]  BY RegistryAssumption DEF RegistryInit
<1>. QED  BY <1>1, <1>2 DEF RegistryInit, ClientTypesOK

\* What a tool call does, it does to a client it holds, and a client's age
\* stops at the idle timeout.
LEMMA StepClientTypes == RegInv /\ ClientTypesOK /\ [RegistryNext]_registryVars => ClientTypesOK'
<1>. SUFFICES ASSUME RegInv, ClientTypesOK, [RegistryNext]_registryVars PROVE ClientTypesOK'
  OBVIOUS
<1>. USE DEF ClientTypesOK
<1>i. IdleTimeout \in Nat  BY RegistryAssumption
<1>b. sweeping \in BOOLEAN  OBVIOUS
<1>z. \A c : [age EXCEPT ![c] = 0] \in [Clients -> 0..IdleTimeout]
  <2>1. age \in [Clients -> 0..IdleTimeout] /\ 0 \in 0..IdleTimeout  BY <1>i
  <2>. QED  BY <2>1, Zenon
<1>1. ASSUME NEW t \in Tools, Get(t) PROVE ClientTypesOK'
  <2>1. CASE Lookup(t)
    <3>1. sweeping' \in BOOLEAN  BY <2>1, Zenon DEF Lookup
    <3>. QED  BY <2>1, <3>1 DEF Lookup
  <2>2. CASE SpawnFails(t)  BY <2>2, <1>b DEF SpawnFails
  <2>3. CASE Spawn(t)  BY <2>3, <1>b DEF Spawn
  <2>4. CASE HandshakeOk(t)
    <3>1. used' \in [Clients -> BOOLEAN]  BY <2>4, Zenon DEF HandshakeOk
    <3>3. age' = [age EXCEPT ![tclient[t]] = 0]  BY <2>4, Zenon DEF HandshakeOk
    <3>2. age' \in [Clients -> 0..IdleTimeout]  BY <3>3, <1>z, Zenon
    <3>. QED  BY <2>4, <3>1, <3>2, <1>b DEF HandshakeOk
  <2>5. CASE HandshakeFails(t)  BY <2>5, <1>b DEF HandshakeFails
  <2>6. CASE StartDone(t)  BY <2>6, <1>b DEF StartDone, clientVars
  <2>7. CASE GetDrops(t)  BY <2>7, <1>b DEF GetDrops, clientVars
  <2>. QED  BY <1>1, <2>1, <2>2, <2>3, <2>4, <2>5, <2>6, <2>7 DEF Get
<1>2. ASSUME NEW t \in Tools, Use(t) PROVE ClientTypesOK'
  <2>1. CASE CallBegins(t)  BY <2>1, <1>b DEF CallBegins, clientVars
  <2>2. CASE CallOk(t)
    <3>1. used' \in [Clients -> BOOLEAN]  BY <2>2, Zenon DEF CallOk
    <3>3. age' = [age EXCEPT ![tclient[t]] = 0]  BY <2>2, Zenon DEF CallOk
    <3>2. age' \in [Clients -> 0..IdleTimeout]  BY <3>3, <1>z, Zenon
    <3>. QED  BY <2>2, <3>1, <3>2, <1>b DEF CallOk
  <2>3. CASE CallFails(t)  BY <2>3, <1>b DEF CallFails, clientVars
  <2>. QED  BY <1>2, <2>1, <2>2, <2>3 DEF Use
<1>3. ASSUME NEW c \in Clients, Server(c) PROVE ClientTypesOK'
  <2>1. CASE ProcessStalls(c)  BY <2>1, <1>b DEF ProcessStalls
  <2>2. CASE ProcessDies(c)  BY <2>2, <1>b DEF ProcessDies
  <2>3. CASE ReadLoopBreaks(c) \/ ReadLoopEnds(c)
    <3>1. clientClosed' \in [Clients -> BOOLEAN]  BY <2>3, Zenon DEF ReadLoopBreaks, ReadLoopEnds
    <3>2. UNCHANGED <<entry, sweeping, start, used, age, proc, stopping, toolVars>>
      BY <2>3, Zenon DEF ReadLoopBreaks, ReadLoopEnds
    <3>. QED  BY <3>1, <3>2, <1>b
  <2>. QED  BY <1>3, <2>1, <2>2, <2>3 DEF Server
<1>4. ASSUME NEW c \in Clients, Stop(c) PROVE ClientTypesOK'
  <2>1. CASE ClientShutdown(c)
    <3>1. clientClosed' \in [Clients -> BOOLEAN]  BY <2>1, Zenon DEF ClientShutdown
    <3>. QED  BY <2>1, <3>1, <1>b DEF ClientShutdown
  <2>2. CASE ClientStopped(c)  BY <2>2, <1>b DEF ClientStopped
  <2>. QED  BY <1>4, <2>1, <2>2 DEF Stop
<1>5. CASE Tick
  <2>1. ASSUME NEW c \in Clients PROVE Older(c) \in 0..IdleTimeout
    BY <1>i DEF Older
  <2>2. age' \in [Clients -> 0..IdleTimeout]  BY <1>5, <2>1 DEF Tick
  <2>. QED  BY <1>5, <2>2, <1>b DEF Tick
<1>6. CASE ReapIdle  BY <1>6, <1>b DEF ReapIdle, clientVars
<1>7. CASE UNCHANGED registryVars  BY <1>7, <1>b DEF registryVars, clientVars
<1>. QED  BY <1>1, <1>2, <1>3, <1>4, <1>5, <1>6, <1>7 DEF RegistryNext

\* Every variable of the registry keeps its type, for any number of tool calls
\* and of clients made in a row (registry.go, client.go).
THEOREM RegistryTypes == RegistrySpec => []RegistryTypeOK
<1>1. RegInv /\ ClientTypesOK => RegistryTypeOK
  BY Zenon DEF RegInv, RegTypes, ClientTypesOK, RegistryTypeOK
<1>. QED  BY <1>1, InitRegInv, StepRegInv, InitClientTypes, StepClientTypes, PTL DEF RegistrySpec
=============================================================================
