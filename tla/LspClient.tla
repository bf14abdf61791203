------------------------------ MODULE LspClient -----------------------------
(***************************************************************************)
(* One language-server connection (internal/lsp/client.go, wire.go):       *)
(* concurrent requests multiplexed over stdin and stdout, the read loop    *)
(* that hands out responses, and Shutdown.                                 *)
(*                                                                         *)
(* A request stands for one Definition, References or Rename call on one   *)
(* file: ensureOpen and then Client.call, identified by its id; frames are *)
(* whole messages.  Every request has a channel of capacity 1, and a send  *)
(* to a full channel blocks the sender.  The server is external: it        *)
(* answers in any order, may answer twice, may die at any time, may ignore *)
(* the end of its input until it is killed, and may stop reading its       *)
(* input, so that a write to it blocks (holding writeMu) until it reads    *)
(* again or is gone.  It may also send something that is no message, or    *)
(* close its output and live on.                                           *)
(***************************************************************************)
EXTENDS Integers, FiniteSets

CONSTANTS Requests,    \* invocations of call
          Callers,     \* invocations of Shutdown
          NoRequest,   \* what an idle read loop works on
          MaxReplies   \* bound: frames the server sends per id

ASSUME LspAssumption ==
    /\ NoRequest \notin Requests
    /\ MaxReplies \in Nat

VARIABLES
    pc,         \* call, per request
    inflight,   \* Client.inflight: ids with a registered channel
    chan,       \* what is buffered in the request's channel
    closed,     \* Client.closed
    stdinOpen,  \* Client.stdin is not closed
    opened,     \* Client.opened has the file
    didOpens,   \* didOpen notifications written for the file
    server,     \* the subprocess: up, stalled, dead (a zombie) or reaped by cmd.Wait
    received,   \* server: ids it has read and may answer
    replies,    \* frames in the stdout pipe, per id
    sent,       \* frames the server has sent, per id
    garbled,    \* behind the frames, stdout has what is no message, or its end
    loop,       \* readLoop
    current,    \* the id readLoop took out of inflight
    sd          \* Shutdown, per invocation

requestVars == <<pc, inflight, chan>>
openVars    == <<opened, didOpens>>
serverVars  == <<server, received, replies, sent, garbled>>
loopVars    == <<loop, current>>
vars == <<requestVars, openVars, closed, stdinOpen, serverVars, loopVars, sd>>

TypeOK ==
    /\ pc \in [Requests -> {"idle", "opening", "ready", "checked", "inserted", "waiting", "failed", "ok", "error"}]
    /\ inflight \subseteq Requests
    /\ chan \in [Requests -> {"empty", "response", "failure"}]
    /\ closed \in BOOLEAN /\ stdinOpen \in BOOLEAN
    /\ opened \in BOOLEAN /\ didOpens \in Nat
    /\ server \in {"up", "stalled", "dead", "reaped"}
    /\ received \subseteq Requests
    /\ replies \in [Requests -> 0..MaxReplies]
    /\ sent \in [Requests -> 0..MaxReplies]
    /\ garbled \in BOOLEAN
    /\ loop \in {"reading", "delivering", "failing", "done"}
    /\ current \in Requests \cup {NoRequest}
    /\ sd \in [Callers -> {"idle", "call", "exit", "close", "waiting", "returned"}]

\* doStart has spawned the server and the handshake is over.
Init ==
    /\ pc = [r \in Requests |-> "idle"]
    /\ inflight = {}
    /\ chan = [r \in Requests |-> "empty"]
    /\ closed = FALSE /\ stdinOpen = TRUE
    /\ opened = FALSE /\ didOpens = 0
    /\ server = "up" /\ received = {}
    /\ replies = [r \in Requests |-> 0]
    /\ sent = [r \in Requests |-> 0]
    /\ garbled = FALSE
    /\ loop = "reading" /\ current = NoRequest
    /\ sd = [k \in Callers |-> "idle"]

-----------------------------------------------------------------------------
(* ensureOpen.                                                             *)

\* A write to the server's input returns: at once, or with an error.
WriteReturns == server # "stalled" \/ ~stdinOpen
WriteOk      == server = "up" /\ stdinOpen

\* Seeded fault: the file is looked up here and entered after the notification.
EnsureOpenLooks(r) ==
    /\ pc[r] = "idle"
    /\ pc' = [pc EXCEPT ![r] = IF didOpens > 0 THEN "ready" ELSE "opening"]
    /\ opened' = (didOpens > 0)
    /\ UNCHANGED <<inflight, chan, didOpens, closed, stdinOpen, serverVars, loopVars, sd>>

\* The lookup in opened and the insertion are one critical section.
EnsureOpen(r) ==
    /\ pc[r] = "idle"
    /\ pc' = [pc EXCEPT ![r] = IF opened THEN "ready" ELSE "opening"]
    /\ opened' = TRUE
    /\ UNCHANGED <<inflight, chan, didOpens, closed, stdinOpen, serverVars, loopVars, sd>>

\* os.ReadFile fails; the entry in opened stays.
FileUnreadable(r) ==
    /\ pc[r] = "opening"
    /\ pc' = [pc EXCEPT ![r] = "ready"]
    /\ UNCHANGED <<inflight, chan, openVars, closed, stdinOpen, serverVars, loopVars, sd>>

\* notify("textDocument/didOpen"), its error ignored.
DidOpen(r) ==
    /\ pc[r] = "opening"
    /\ WriteReturns
    /\ pc' = [pc EXCEPT ![r] = "ready"]
    /\ didOpens' = IF WriteOk THEN didOpens + 1 ELSE didOpens
    /\ UNCHANGED <<inflight, chan, opened, closed, stdinOpen, serverVars, loopVars, sd>>

-----------------------------------------------------------------------------
(* call.                                                                   *)

CallChecks(r) ==
    /\ pc[r] = "ready"
    /\ pc' = [pc EXCEPT ![r] = IF closed THEN "error" ELSE "checked"]
    /\ UNCHANGED <<inflight, chan, closed, stdinOpen, serverVars, loopVars, sd, openVars>>

CallInserts(r) ==
    /\ pc[r] = "checked"
    /\ pc' = [pc EXCEPT ![r] = "inserted"]
    /\ inflight' = inflight \cup {r}
    /\ UNCHANGED <<chan, closed, stdinOpen, serverVars, loopVars, sd, openVars>>

\* writeMessage fails once stdin is closed or the server is gone, and blocks
\* while the server does not read.
CallWrites(r) ==
    /\ pc[r] = "inserted"
    /\ WriteReturns
    /\ IF WriteOk
       THEN /\ pc' = [pc EXCEPT ![r] = "waiting"]
            /\ received' = received \cup {r}
       ELSE /\ pc' = [pc EXCEPT ![r] = "failed"]
            /\ UNCHANGED received
    /\ UNCHANGED <<inflight, chan, closed, stdinOpen, server, replies, sent, garbled, loopVars, sd, openVars>>

CallWriteFailed(r) ==
    /\ pc[r] = "failed"
    /\ pc' = [pc EXCEPT ![r] = "error"]
    /\ inflight' = inflight \ {r}
    /\ UNCHANGED <<chan, closed, stdinOpen, serverVars, loopVars, sd, openVars>>

\* The select receives: a response, or the error of failAllInflight.
CallReceives(r) ==
    /\ pc[r] = "waiting"
    /\ chan[r] # "empty"
    /\ chan' = [chan EXCEPT ![r] = "empty"]
    /\ \E outcome \in IF chan[r] = "response" THEN {"ok", "error"} ELSE {"error"} :
          pc' = [pc EXCEPT ![r] = outcome]
    /\ UNCHANGED <<inflight, closed, stdinOpen, serverVars, loopVars, sd, openVars>>

\* The select sees ctx.Done.
CallCancelled(r) ==
    /\ pc[r] = "waiting"
    /\ pc' = [pc EXCEPT ![r] = "error"]
    /\ inflight' = inflight \ {r}
    /\ UNCHANGED <<chan, closed, stdinOpen, serverVars, loopVars, sd, openVars>>

-----------------------------------------------------------------------------
(* The language server.                                                    *)

ServerAnswers(r) ==
    /\ server = "up" /\ ~garbled
    /\ r \in received
    /\ sent[r] < MaxReplies
    /\ sent' = [sent EXCEPT ![r] = @ + 1]
    /\ replies' = [replies EXCEPT ![r] = @ + 1]
    /\ UNCHANGED <<requestVars, closed, stdinOpen, server, received, garbled, loopVars, sd, openVars>>

\* The server stops reading and its input pipe is full; or it reads again.
ServerStalls ==
    /\ server = "up"
    /\ server' = "stalled"
    /\ UNCHANGED <<requestVars, openVars, closed, stdinOpen, received, replies, sent, garbled, loopVars, sd>>

ServerResumes ==
    /\ server = "stalled"
    /\ server' = "up"
    /\ UNCHANGED <<requestVars, openVars, closed, stdinOpen, received, replies, sent, garbled, loopVars, sd>>

\* A header without a length, or the end of the output, from a server that
\* lives on: nothing it sends later will be read.
ServerGarbles ==
    /\ server = "up" /\ ~garbled
    /\ garbled' = TRUE
    /\ UNCHANGED <<requestVars, openVars, closed, stdinOpen, server, received, replies, sent, loopVars, sd>>

ServerDies ==
    /\ server \in {"up", "stalled"}
    /\ server' = "dead"
    /\ UNCHANGED <<requestVars, closed, stdinOpen, received, replies, sent, garbled, loopVars, sd, openVars>>

-----------------------------------------------------------------------------
(* readLoop, deliver and failAllInflight.                                  *)

\* Seeded fault: deliver looks the channel up without removing it.
LoopKeepsId(r) ==
    /\ loop = "reading"
    /\ replies[r] > 0
    /\ replies' = [replies EXCEPT ![r] = @ - 1]
    /\ IF r \in inflight THEN loop' = "delivering" /\ current' = r
                         ELSE UNCHANGED loopVars
    /\ UNCHANGED <<requestVars, closed, stdinOpen, server, received, sent, garbled, sd, openVars>>

\* deliver takes the channel out of inflight; an unknown id is skipped.
LoopReads(r) ==
    /\ loop = "reading"
    /\ replies[r] > 0
    /\ replies' = [replies EXCEPT ![r] = @ - 1]
    /\ inflight' = inflight \ {r}
    /\ IF r \in inflight THEN loop' = "delivering" /\ current' = r
                         ELSE UNCHANGED loopVars
    /\ UNCHANGED <<pc, chan, closed, stdinOpen, server, received, sent, garbled, sd, openVars>>

LoopDelivers ==
    /\ loop = "delivering"
    /\ chan[current] = "empty"
    /\ chan' = [chan EXCEPT ![current] = "response"]
    /\ loop' = "reading" /\ current' = NoRequest
    /\ UNCHANGED <<pc, inflight, closed, stdinOpen, serverVars, sd, openVars>>

\* readMessage fails: the pipe is at its end, or what comes is no message, or
\* cmd.Wait has closed it with frames left in it.
LoopEnds ==
    /\ loop = "reading"
    /\ \/ (server = "dead" \/ garbled) /\ \A r \in Requests : replies[r] = 0
       \/ server = "reaped"
    /\ loop' = "failing"
    /\ closed' = TRUE
    /\ UNCHANGED <<requestVars, stdinOpen, serverVars, current, sd, openVars>>

\* Seeded fault: the read loop returns without failing the requests.
LoopJustReturns ==
    /\ loop = "failing"
    /\ loop' = "done"
    /\ UNCHANGED <<requestVars, closed, stdinOpen, serverVars, current, sd, openVars>>

\* failAllInflight holds inflightMu while it sends to every channel.
LoopFailsAll ==
    /\ loop = "failing"
    /\ \A r \in inflight : chan[r] = "empty"
    /\ chan' = [r \in Requests |-> IF r \in inflight THEN "failure" ELSE chan[r]]
    /\ inflight' = {}
    /\ loop' = "done"
    /\ UNCHANGED <<pc, closed, stdinOpen, serverVars, current, sd, openVars>>

-----------------------------------------------------------------------------
(* Shutdown.                                                               *)

ShutdownSwaps(k) ==
    /\ sd[k] = "idle"
    /\ sd' = [sd EXCEPT ![k] = IF closed THEN "returned" ELSE "call"]
    /\ closed' = TRUE
    /\ UNCHANGED <<requestVars, stdinOpen, serverVars, loopVars, openVars>>

\* c.call(ctx, "shutdown") returns ErrClosed: the closed flag was just set.
ShutdownCalls(k) ==
    /\ sd[k] = "call"
    /\ sd' = [sd EXCEPT ![k] = "exit"]
    /\ UNCHANGED <<requestVars, closed, stdinOpen, serverVars, loopVars, openVars>>

ShutdownNotifies(k) ==
    /\ sd[k] = "exit"
    /\ WriteReturns
    /\ sd' = [sd EXCEPT ![k] = "close"]
    /\ UNCHANGED <<requestVars, closed, stdinOpen, serverVars, loopVars, openVars>>

ShutdownClosesStdin(k) ==
    /\ sd[k] = "close"
    /\ sd' = [sd EXCEPT ![k] = "waiting"]
    /\ stdinOpen' = FALSE
    /\ UNCHANGED <<requestVars, closed, serverVars, loopVars, openVars>>

\* After two seconds the server is killed.
ShutdownKills(k) ==
    /\ sd[k] = "waiting" /\ server \in {"up", "stalled"}
    /\ server' = "dead"
    /\ UNCHANGED <<requestVars, closed, stdinOpen, received, replies, sent, garbled, loopVars, sd, openVars>>

ShutdownWaits(k) ==
    /\ sd[k] = "waiting" /\ server = "dead"
    /\ server' = "reaped"
    /\ sd' = [sd EXCEPT ![k] = "returned"]
    /\ UNCHANGED <<requestVars, closed, stdinOpen, received, replies, sent, garbled, loopVars, openVars>>

-----------------------------------------------------------------------------
Call(r) ==
    \/ EnsureOpen(r) \/ FileUnreadable(r) \/ DidOpen(r)
    \/ CallChecks(r) \/ CallInserts(r) \/ CallWrites(r) \/ CallWriteFailed(r)
    \/ CallReceives(r) \/ CallCancelled(r)

ReadLoop == (\E r \in Requests : LoopReads(r)) \/ LoopDelivers \/ LoopEnds \/ LoopFailsAll

Shutdown(k) ==
    \/ ShutdownSwaps(k) \/ ShutdownCalls(k) \/ ShutdownNotifies(k)
    \/ ShutdownClosesStdin(k) \/ ShutdownKills(k) \/ ShutdownWaits(k)

Next ==
    \/ \E r \in Requests : Call(r) \/ ServerAnswers(r)
    \/ ServerStalls \/ ServerResumes \/ ServerGarbles \/ ServerDies
    \/ ReadLoop
    \/ \E k \in Callers : Shutdown(k)

Spec == Init /\ [][Next]_vars

\* Goroutines that can run are run and Shutdown's timer fires; nothing makes
\* a caller cancel, the server answer or the server die.
FairSpec ==
    /\ Spec
    /\ \A r \in Requests :
          /\ WF_vars(DidOpen(r)) /\ WF_vars(CallChecks(r))
          /\ WF_vars(CallInserts(r)) /\ WF_vars(CallWrites(r))
          /\ WF_vars(CallWriteFailed(r)) /\ WF_vars(CallReceives(r))
    /\ WF_vars(ReadLoop)
    /\ \A k \in Callers :
          /\ WF_vars(ShutdownCalls(k)) /\ WF_vars(ShutdownNotifies(k)) /\ WF_vars(ShutdownClosesStdin(k))
          /\ WF_vars(ShutdownKills(k)) /\ WF_vars(ShutdownWaits(k))

-----------------------------------------------------------------------------
(* Properties.                                                             *)

\* The read loop never blocks on a request's channel, whatever duplicate
\* responses arrive and whichever requests were cancelled: a blocked read
\* loop would hold up every other request, in failAllInflight with
\* inflightMu held.
LoopNeverBlocks ==
    /\ loop = "delivering" => chan[current] = "empty"
    /\ \A r \in inflight : chan[r] = "empty"

\* inflight does not leak: a registered id belongs to a request that is
\* still being written or waited for.
InflightIsPending == \A r \in inflight : pc[r] \in {"inserted", "waiting", "failed"}

Unanswered(r) == pc[r] \in {"opening", "ready", "checked", "inserted", "waiting", "failed"}

\* A Shutdown that found the client open leaves no server running, even one
\* that ignores both the exit message and the end of its input, unless the
\* server has stopped reading its input.  Every pending request of a server
\* that is gone ends, even one whose closed check came before the read loop
\* failed the others and whose registration came after, and one that was
\* blocked in its write.  So does every request that is registered when the
\* read loop ends, whatever ended it; but one that registers after that with
\* a server that lives on waits for its context (Shutdown, call,
\* failAllInflight).
NothingOutlivesServer ==
    /\ \A k \in Callers : sd[k] = "call" ~> server \in {"reaped", "stalled"}
    /\ \A r \in Requests :
          /\ server \in {"dead", "reaped"} /\ ~garbled /\ Unanswered(r) ~> pc[r] \in {"ok", "error"}
          /\ loop = "failing" /\ r \in inflight ~> pc[r] \in {"ok", "error"} \/ server = "stalled"

\* ensureOpen "sends one textDocument/didOpen notification per file per client
\* lifetime", however many requests for the file start together: servers
\* treat a second didOpen of an open document as an error.
OpenedOnce == didOpens <= 1
=============================================================================
