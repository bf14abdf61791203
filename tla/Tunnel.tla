-------------------------------- MODULE Tunnel --------------------------------
(***************************************************************************)
(* A port forward end to end: an application on the user's machine, the    *)
(* two pumps of sandbox-forward's tunnelConn (cmd/sandbox-forward/         *)
(* proxy.go), a WebSocket, the two pumps of /api/port-forward              *)
(* (internal/api/portforward.go) and a TCP service in the sandbox.         *)
(*                                                                         *)
(* Data is counted in chunks; every leg is FIFO, so a close reaches the    *)
(* reader after the data before it. The WebSocket library is external: an  *)
(* operation whose context is cancelled, or that fails, closes its end.    *)
(***************************************************************************)
EXTENDS Naturals

CONSTANTS MaxUp, MaxDown   \* bounds: chunks sent by the application, by the service

ASSUME TunnelAssumption == MaxUp \in Nat /\ MaxDown \in Nat

VARIABLES
    app,           \* the application: "open", "eof" on its output, or "gone"
    outBroken,     \* it no longer takes what sandbox-forward writes
    appSent, appIn, appGot,        \* chunks it sent, not yet read, received
    inClosed,      \* pumpWSToOut has closed in
    inToWS, wsToOut,               \* the pumps of tunnelConn
    cancelled,     \* tunnelCtx
    wsClient, wsServer,            \* each end of the WebSocket: "open" or "closed"
    up, down,      \* data frames on the way
    upClose, downClose,            \* a close frame behind them
    wsToTCP, tcpToWS,              \* the pumps of runPortForward
    tcp,           \* the handler's TCP connection: "open" or "closed"
    service,       \* the service: "open" or "closed"
    svcSent, svcOut,               \* chunks it sent, not yet read
    lateWrite,     \* history: the handler wrote to a service that had closed
    reset          \* the sandbox's end was closed on data nobody will read

tunVars == <<app, outBroken, appSent, appIn, appGot, inClosed, inToWS, wsToOut, cancelled, wsClient,
             wsServer, up, down, upClose, downClose, wsToTCP, tcpToWS, tcp, service, svcSent,
             svcOut, lateWrite, reset>>

TunInit ==
    /\ app = "open" /\ outBroken = FALSE
    /\ appSent = 0 /\ appIn = 0 /\ appGot = 0 /\ inClosed = FALSE
    /\ inToWS = "read" /\ wsToOut = "read" /\ cancelled = FALSE
    /\ wsClient = "open" /\ wsServer = "open"
    /\ up = 0 /\ down = 0 /\ upClose = FALSE /\ downClose = FALSE
    /\ wsToTCP = "read" /\ tcpToWS = "read" /\ tcp = "open"
    /\ service = "open" /\ svcSent = 0 /\ svcOut = 0 /\ lateWrite = FALSE
    /\ reset = FALSE

appVars == <<app, outBroken, appSent>>
clientVars == <<appIn, appGot, inClosed, inToWS, wsToOut, cancelled, wsClient>>
wireVars == <<up, down, upClose, downClose, reset>>
serverVars == <<wsServer, wsToTCP, tcpToWS, tcp>>
svcVars == <<service, svcSent, svcOut, lateWrite>>

-----------------------------------------------------------------------------
\* The application and the service.

AppSends ==
    /\ app = "open" /\ appSent < MaxUp
    /\ appSent' = appSent + 1 /\ appIn' = appIn + 1
    /\ UNCHANGED <<app, outBroken, appGot, inClosed, inToWS, wsToOut, cancelled, wsClient, wireVars, serverVars, svcVars>>

AppEnds ==
    /\ app = "open" /\ app' \in {"eof", "gone"}
    /\ outBroken' = (outBroken \/ app' = "gone")
    /\ UNCHANGED <<appSent, clientVars, wireVars, serverVars, svcVars>>

\* A stdio tunnel whose standard output is closed and whose input is not.
OutBreaks ==
    /\ ~outBroken /\ outBroken' = TRUE
    /\ UNCHANGED <<app, appSent, clientVars, wireVars, serverVars, svcVars>>

ServiceSends ==
    /\ service = "open" /\ svcSent < MaxDown
    /\ svcSent' = svcSent + 1 /\ svcOut' = svcOut + 1
    /\ UNCHANGED <<appVars, clientVars, wireVars, serverVars, service, lateWrite>>

ServiceCloses ==
    /\ service = "open" /\ service' = "closed"
    /\ UNCHANGED <<appVars, clientVars, wireVars, serverVars, svcSent, svcOut, lateWrite>>

-----------------------------------------------------------------------------
\* pumpInToWS.

InReads ==
    /\ inToWS = "read"
    /\ \/ /\ appIn > 0 /\ ~inClosed
          /\ appIn' = appIn - 1 /\ inToWS' = "send"
       \/ /\ inClosed \/ (appIn = 0 /\ app # "open")
          /\ inToWS' = "close" /\ UNCHANGED appIn
    /\ UNCHANGED <<appVars, appGot, inClosed, wsToOut, cancelled, wsClient, wireVars, serverVars, svcVars>>

\* To a sandbox whose end is closed, a write may succeed or fail, and what is
\* sent meets a reset.
InSends ==
    /\ inToWS = "send"
    /\ \/ /\ wsClient = "open" /\ ~cancelled
          /\ up' = up + 1 /\ inToWS' = "read" /\ UNCHANGED <<cancelled, wsClient>>
       \/ /\ wsClient = "closed" \/ cancelled \/ wsServer = "closed"
          /\ wsClient' = "closed" /\ cancelled' = TRUE /\ inToWS' = "done" /\ UNCHANGED up
    /\ reset' = (reset \/ wsServer = "closed")
    /\ UNCHANGED <<appVars, appIn, appGot, inClosed, wsToOut, down, upClose, downClose, serverVars, svcVars>>

\* Close sends the close frame and waits for the answer or its own timeout.
InCloses ==
    /\ inToWS = "close"
    /\ \/ /\ wsClient = "open" /\ ~upClose
          /\ upClose' = TRUE /\ UNCHANGED <<wsClient, cancelled, inToWS>>
       \/ /\ wsClient = "closed" \/ upClose
          /\ wsClient' = "closed" /\ cancelled' = TRUE /\ inToWS' = "done"
          /\ UNCHANGED upClose
    /\ UNCHANGED <<appVars, appIn, appGot, inClosed, wsToOut, up, down, downClose, reset, serverVars, svcVars>>

\* pumpWSToOut.

\* A frame, or an error: then in is closed. A close frame is answered; a reset
\* may take frames away that have not been read yet.
OutReads ==
    /\ wsToOut = "read"
    /\ \/ /\ wsClient = "open" /\ ~cancelled /\ down > 0
          /\ down' = down - 1 /\ wsToOut' = "write"
          /\ UNCHANGED <<inClosed, cancelled, wsClient, upClose>>
       \/ /\ wsClient = "closed" \/ cancelled \/ reset \/ (down = 0 /\ (downClose \/ wsServer = "closed"))
          /\ wsToOut' = "done" /\ inClosed' = TRUE /\ cancelled' = TRUE /\ wsClient' = "closed"
          /\ upClose' = (upClose \/ (wsClient = "open" /\ ~cancelled))
          /\ UNCHANGED down
    /\ UNCHANGED <<appVars, appIn, appGot, inToWS, up, downClose, reset, serverVars, svcVars>>

\* A failed write cancels the context and leaves in alone.
OutWrites ==
    /\ wsToOut = "write"
    /\ IF outBroken
       THEN wsToOut' = "done" /\ cancelled' = TRUE /\ UNCHANGED appGot
       ELSE appGot' = appGot + 1 /\ wsToOut' = "read" /\ UNCHANGED cancelled
    /\ UNCHANGED <<appVars, appIn, inClosed, inToWS, wsClient, wireVars, serverVars, svcVars>>

-----------------------------------------------------------------------------
\* pumpWSToTCP.

\* A frame, or an error: then the TCP connection is closed. A client's end
\* closed on frames it has not read may take away what it sent.
UpReads ==
    /\ wsToTCP = "read"
    /\ \/ /\ wsServer = "open" /\ up > 0
          /\ up' = up - 1 /\ wsToTCP' = "write"
          /\ UNCHANGED <<tcp, wsServer, downClose>>
       \/ /\ \/ wsServer = "closed" \/ (up = 0 /\ upClose)
             \/ wsClient = "closed" /\ (up = 0 \/ down > 0)
          /\ wsToTCP' = "done" /\ tcp' = "closed" /\ wsServer' = "closed"
          /\ downClose' = (downClose \/ wsServer = "open")
          /\ UNCHANGED up
    /\ UNCHANGED <<appVars, clientVars, down, upClose, reset, tcpToWS, svcVars>>

\* To a service that has closed, a write may succeed or fail.
UpWrites ==
    /\ wsToTCP = "write"
    /\ \/ /\ tcp = "open"
          /\ wsToTCP' = "read" /\ UNCHANGED tcp
       \/ /\ tcp = "closed" \/ service = "closed"
          /\ wsToTCP' = "done" /\ tcp' = "closed"
    /\ lateWrite' = (lateWrite \/ service = "closed")
    /\ UNCHANGED <<appVars, clientVars, wireVars, wsServer, tcpToWS, service, svcSent, svcOut>>

\* pumpTCPToWS.

DownReads ==
    /\ tcpToWS = "read"
    /\ \/ /\ tcp = "open" /\ svcOut > 0
          /\ svcOut' = svcOut - 1 /\ tcpToWS' = "send"
       \/ /\ tcp = "closed" \/ (svcOut = 0 /\ service = "closed")
          /\ tcpToWS' = "close" /\ UNCHANGED svcOut
    /\ UNCHANGED <<appVars, clientVars, wireVars, wsServer, wsToTCP, tcp, service, svcSent, lateWrite>>

\* Seeded fault: the last chunk, read together with the end, is dropped.
DropsLast ==
    /\ tcpToWS = "send"
    /\ IF service = "closed"
       THEN tcpToWS' = "read" /\ UNCHANGED <<down, tcp, wsServer>>
       ELSE IF wsServer = "open" THEN down' = down + 1 /\ tcpToWS' = "read" /\ UNCHANGED <<tcp, wsServer>>
       ELSE tcp' = "closed" /\ tcpToWS' = "done" /\ UNCHANGED <<down, wsServer>>
    /\ UNCHANGED <<appVars, clientVars, up, upClose, downClose, reset, wsToTCP, svcVars>>

\* To a client whose end is closed, a write may still succeed.
DownSends ==
    /\ tcpToWS = "send"
    /\ \/ /\ wsServer = "open"
          /\ down' = down + 1 /\ tcpToWS' = "read" /\ UNCHANGED <<tcp, wsServer>>
       \/ /\ wsServer = "closed" \/ wsClient = "closed"
          /\ tcp' = "closed" /\ wsServer' = "closed" /\ tcpToWS' = "done" /\ UNCHANGED down
    /\ UNCHANGED <<appVars, clientVars, up, upClose, downClose, reset, wsToTCP, svcVars>>

DownCloses ==
    /\ tcpToWS = "close"
    /\ \/ /\ wsServer = "open" /\ ~downClose
          /\ downClose' = TRUE /\ UNCHANGED <<wsServer, tcpToWS, reset>>
       \/ /\ wsServer = "closed" \/ downClose
          /\ wsServer' = "closed" /\ tcpToWS' = "done" /\ UNCHANGED downClose
          /\ reset' = (reset \/ (wsServer = "open" /\ up > 0))
    /\ UNCHANGED <<appVars, clientVars, up, down, upClose, wsToTCP, tcp, svcVars>>

InToWS == InReads \/ InSends \/ InCloses
WSToOut == OutReads \/ OutWrites
WSToTCP == UpReads \/ UpWrites
TCPToWS == DownReads \/ DownSends \/ DownCloses

TunNext ==
    \/ AppSends \/ AppEnds \/ OutBreaks \/ ServiceSends \/ ServiceCloses
    \/ InToWS \/ WSToOut \/ WSToTCP \/ TCPToWS

-----------------------------------------------------------------------------
AllPumpsDone == inToWS = "done" /\ wsToOut = "done" /\ wsToTCP = "done" /\ tcpToWS = "done"

TunTypeOK ==
    /\ app \in {"open", "eof", "gone"} /\ service \in {"open", "closed"}
    /\ {outBroken, inClosed, cancelled, upClose, downClose, lateWrite, reset} \subseteq BOOLEAN
    /\ appSent \in 0..MaxUp /\ appIn \in 0..MaxUp /\ up \in 0..MaxUp
    /\ svcSent \in 0..MaxDown /\ svcOut \in 0..MaxDown /\ down \in 0..MaxDown /\ appGot \in 0..MaxDown
    /\ {wsClient, wsServer, tcp} \subseteq {"open", "closed"}
    /\ inToWS \in {"read", "send", "close", "done"} /\ wsToOut \in {"read", "write", "done"}
    /\ wsToTCP \in {"read", "write", "done"} /\ tcpToWS \in {"read", "send", "close", "done"}

\* A service that sends its answer and closes gets all of it through four
\* pumps and two closes to the application, as long as that side ends nothing
\* itself and nothing it sends meets a service or a sandbox's end that is
\* closed already (pumpTCPToWS, pumpWSToOut, pumpInToWS).
AnswerArrivesWhole ==
    (wsToOut = "done" /\ app = "open" /\ ~outBroken /\ ~lateWrite /\ ~reset) =>
        service = "closed" /\ appGot = svcSent
=============================================================================
