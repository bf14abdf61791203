----------------------------- MODULE EventStream -----------------------------
(***************************************************************************)
(* One /api/events stream (internal/api/events.go): the response header    *)
(* goes out, the workspace's directories are put under inotify watch, and  *)
(* one goroutine turns file-system events into messages, extends the watch *)
(* to new directories, and pings.                                          *)
(*                                                                         *)
(* One directory stands for all; events of files only pass through and are *)
(* left out, and so are the paths the stream skips. fsnotify and net/http  *)
(* are external: the request's context ends when the client goes.          *)
(***************************************************************************)
EXTENDS Naturals, Sequences

CONSTANTS MaxEvQueue,   \* fs.inotify.max_queued_events
          MaxEvChanges  \* bound: changes to the workspace

ASSUME EventAssumption == MaxEvQueue \in Nat \ {0} /\ MaxEvChanges \in Nat

VARIABLES
    evDir,         \* the directory exists
    evChanges,
    rootWatched, dirWatched,
    evQueue,       \* inotify's queue: "create" or "remove" of the directory
    evLoop,        \* the handler: "setup", "walk", "select", "send" or "returned"
    evHand,        \* the message it is writing
    evPeer,        \* the client: "open" or "gone"
    told,          \* what the client has last been told of the directory
    evMissed       \* history: an event was lost, or a watch could not be set

evVars == <<evDir, evChanges, rootWatched, dirWatched, evQueue, evLoop, evHand,
            evPeer, told, evMissed>>

\* eventsHandler has flushed the header.
EvInit ==
    /\ evDir \in BOOLEAN /\ evChanges = 0
    /\ rootWatched = FALSE /\ dirWatched = FALSE
    /\ evQueue = <<>>
    /\ evLoop = "setup" /\ evHand = "none"
    /\ evPeer = "open" /\ told = "nothing" /\ evMissed = FALSE

-----------------------------------------------------------------------------
\* The workspace and inotify.

\* An event of a watched directory; a full queue loses it; the error
\* the watcher gives for it is logged.
Notify(watched, e) ==
    IF ~watched THEN UNCHANGED <<evQueue, evMissed>>
    ELSE IF Len(evQueue) < MaxEvQueue
         THEN evQueue' = Append(evQueue, e) /\ UNCHANGED evMissed
         ELSE evMissed' = TRUE /\ UNCHANGED evQueue

\* The directory is made or moved in, or removed or moved away.
EvDirChanges ==
    /\ evChanges < MaxEvChanges /\ evChanges' = evChanges + 1
    /\ evDir' = ~evDir /\ dirWatched' = FALSE
    /\ Notify(rootWatched, IF evDir THEN "remove" ELSE "create")
    /\ UNCHANGED <<rootWatched, evLoop, evHand, evPeer, told>>

-----------------------------------------------------------------------------
\* eventsHandler.

\* A watch that cannot be set is passed over in silence.
WatchDir ==
    \/ dirWatched' = (dirWatched \/ evDir) /\ UNCHANGED evMissed
    \/ evDir /\ ~dirWatched /\ evMissed' = TRUE /\ UNCHANGED dirWatched

\* The walk sets the root's watch before it reads what is in it.
EvWatchesRoot ==
    /\ evLoop = "setup"
    /\ rootWatched' = TRUE /\ evLoop' = "walk"
    /\ UNCHANGED <<evDir, evChanges, dirWatched, evQueue, evHand, evPeer, told, evMissed>>

EvWatchesRest ==
    /\ evLoop = "walk"
    /\ WatchDir /\ evLoop' = "select"
    /\ UNCHANGED <<evDir, evChanges, rootWatched, evQueue, evHand, evPeer, told>>

\* No watcher: a comment in the stream, and the end.
EvSetupFails ==
    /\ evLoop = "setup"
    /\ evLoop' = "returned"
    /\ UNCHANGED <<evDir, evChanges, rootWatched, dirWatched, evQueue, evHand, evPeer, told, evMissed>>

\* The watcher closes with the handler.
EvReturn ==
    /\ evLoop' = "returned" /\ evHand' = "none"
    /\ rootWatched' = FALSE /\ dirWatched' = FALSE /\ evQueue' = <<>>
    /\ UNCHANGED <<evDir, evChanges, evPeer, told, evMissed>>

EvContextDone == evLoop = "select" /\ evPeer = "gone" /\ EvReturn

\* Seeded fault: a new directory is announced and not watched.
AnnounceOnly ==
    /\ evLoop = "select" /\ evQueue # <<>>
    /\ evQueue' = Tail(evQueue)
    /\ evLoop' = "send" /\ evHand' = Head(evQueue)
    /\ UNCHANGED <<evDir, evChanges, rootWatched, dirWatched, evPeer, told, evMissed>>

\* Seeded fault: only creations have a name in the stream.
CreatesOnly ==
    /\ evLoop = "select" /\ evQueue # <<>>
    /\ evQueue' = Tail(evQueue)
    /\ IF Head(evQueue) = "create" THEN WatchDir ELSE UNCHANGED <<dirWatched, evMissed>>
    /\ IF Head(evQueue) = "create" THEN evLoop' = "send" /\ evHand' = "create"
       ELSE UNCHANGED <<evLoop, evHand>>
    /\ UNCHANGED <<evDir, evChanges, rootWatched, evPeer, told>>

\* A create is checked against what is there now, and watched before it is
\* told.
handleFSEvent ==
    /\ evLoop = "select" /\ evQueue # <<>>
    /\ evQueue' = Tail(evQueue)
    /\ IF Head(evQueue) = "create" THEN WatchDir ELSE UNCHANGED <<dirWatched, evMissed>>
    /\ evLoop' = "send" /\ evHand' = Head(evQueue)
    /\ UNCHANGED <<evDir, evChanges, rootWatched, evPeer, told>>

\* The keep-alive.
EvPings ==
    /\ evLoop = "select"
    /\ evLoop' = "send" /\ evHand' = "ping"
    /\ UNCHANGED <<evDir, evChanges, rootWatched, dirWatched, evQueue, evPeer, told, evMissed>>

\* A write to a client that has gone fails, or is still buffered.
EvSends ==
    /\ evLoop = "send"
    /\ \/ /\ evLoop' = "select" /\ evHand' = "none"
          /\ told' = IF evPeer = "open" /\ evHand \in {"create", "remove"} THEN evHand ELSE told
          /\ UNCHANGED <<evDir, evChanges, rootWatched, dirWatched, evQueue, evPeer, evMissed>>
       \/ evPeer = "gone" /\ EvReturn

EvPeerGoes ==
    /\ evPeer = "open" /\ evPeer' = "gone"
    /\ UNCHANGED <<evDir, evChanges, rootWatched, dirWatched, evQueue, evLoop, evHand, told, evMissed>>

EvSetup == EvWatchesRoot \/ EvWatchesRest \/ EvSetupFails

EvNext ==
    \/ EvDirChanges \/ EvSetup
    \/ EvContextDone \/ handleFSEvent \/ EvPings \/ EvSends
    \/ EvPeerGoes

-----------------------------------------------------------------------------
EvTypeOK ==
    /\ {evDir, rootWatched, dirWatched, evMissed} \subseteq BOOLEAN
    /\ evChanges \in 0..MaxEvChanges
    /\ evQueue \in Seq({"create", "remove"}) /\ Len(evQueue) <= MaxEvQueue
    /\ evLoop \in {"setup", "walk", "select", "send", "returned"}
    /\ evHand \in {"none", "create", "remove", "ping"}
    /\ evPeer \in {"open", "gone"} /\ told \in {"nothing", "create", "remove"}

Queued(e) == \E i \in DOMAIN evQueue : evQueue[i] = e

\* However fast directories come and go, one that exists is watched or the
\* event that will make it watched is in the queue: no part of the workspace
\* goes dark for the rest of the stream (addWatchRecursive, handleFSEvent).
NoBlindDirectory ==
    (evLoop \in {"select", "send"} /\ evDir /\ ~evMissed) => dirWatched \/ Queued("create")

\* A client that follows the messages knows whether the directory is there
\* once the queue has run dry, unless it was told nothing since it connected
\* (handleFSEvent, classifyOp).
ToldIsCurrent ==
    (evLoop = "select" /\ evPeer = "open" /\ ~evMissed /\ told # "nothing"
        /\ ~Queued("create") /\ ~Queued("remove"))
    => (told = "create") = evDir
=============================================================================
