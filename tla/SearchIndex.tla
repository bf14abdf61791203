----------------------------- MODULE SearchIndex -----------------------------
(***************************************************************************)
(* search_code's index (internal/search/index.go, fsnotify.go;             *)
(* internal/tools/search_code.go): calls that find no cached index build   *)
(* one each, put a watcher on the workspace and race to publish; the       *)
(* watcher's goroutine keeps its index up to date from inotify events.     *)
(*                                                                         *)
(* A text is an atom; UnitsOf gives the token lists of its declarations.   *)
(* One subdirectory stands for all: watches are per directory.             *)
(***************************************************************************)
EXTENDS Naturals, SequencesExt

CONSTANTS Calls,        \* search_code calls
          Files,
          SubFiles,     \* the files that live in the subdirectory
          Texts,        \* what a .go file may hold, Broken if it does not parse
          UnitsOf,      \* declarations of each text, as token sequences
          Tokens,
          Absent, None, Failed,
          MaxQueue,     \* fs.inotify.max_queued_events
          MaxChanges    \* bound: changes to the workspace

ASSUME SearchAssumption ==
    /\ IsFiniteSet(Files)
    /\ SubFiles \subseteq Files
    /\ Absent \notin Texts
    /\ UnitsOf \in [Texts \cup {Absent} -> Seq(Seq(Tokens))]
    /\ UnitsOf[Absent] = <<>>
    /\ None \notin Calls /\ Failed \notin Calls
    /\ MaxQueue \in Nat \ {0} /\ MaxChanges \in Nat

VARIABLES
    files, sub,   \* the workspace: contents, and whether the subdirectory exists
    cache,        \* indexCache[root]
    pc, todo,     \* a search_code call, and the files Build has still to visit
    idx,          \* the index a call has built
    ctxDone,      \* the call's context has ended
    wpc, hand,    \* its watcher's goroutine, and the extraction it holds
    watched,      \* the directories under inotify watch
    queue,        \* inotify's event queue
    changes,
    missed        \* history: files changed where the watcher could not see it

vars == <<files, sub, cache, pc, todo, idx, ctxDone, wpc, hand, watched, queue, changes, missed>>

\* units: per file the token lists of its declarations (unit ids are never
\* reused and never seen, so a file's list stands for them).
EmptyIndex == [units |-> [f \in Files |-> <<>>], df |-> [t \in Tokens |-> 0],
               totalLen |-> 0, totalDocs |-> 0]

Init ==
    /\ files \in [Files -> Texts \cup {Absent}]
    /\ sub \in BOOLEAN
    /\ \A f \in SubFiles : files[f] # Absent => sub
    /\ cache = None
    /\ pc = [c \in Calls |-> "idle"]
    /\ todo = [c \in Calls |-> {}]
    /\ idx = [c \in Calls |-> EmptyIndex]
    /\ ctxDone = [c \in Calls |-> FALSE]
    /\ wpc = [c \in Calls |-> "none"]
    /\ hand = [c \in Calls |-> <<>>]
    /\ watched = [c \in Calls |-> {}]
    /\ queue = [c \in Calls |-> <<>>]
    /\ changes = 0
    /\ missed = [c \in Calls |-> {}]

-----------------------------------------------------------------------------
\* The index.

HasIndex(c) == pc[c] \in {"build", "watch", "publish", "done"}

\* The declarations of a file as it is now; one that is missing or does not
\* parse is an error to the caller, who takes it for none.
ExtractGoFile(f) == UnitsOf[files[f]]

DirOf(f) == IF f \in SubFiles THEN "sub" ELSE "root"

\* Of a list of units: those that have a token, and all token occurrences.
Having(units, t)   == {k \in DOMAIN units : t \in Range(units[k])}
Occurrences(units) == UNION {{k} \X DOMAIN units[k] : k \in DOMAIN units}

\* Every unit counts once, with its length, and once for each of its tokens.
addUnitsLocked(ix, f, units) ==
    [units |-> [ix.units EXCEPT ![f] = @ \o units],
     df |-> [t \in Tokens |-> ix.df[t] + Cardinality(Having(units, t))],
     totalLen |-> ix.totalLen + Cardinality(Occurrences(units)),
     totalDocs |-> ix.totalDocs + Len(units)]

\* A count that would go below one is deleted.
Less(n, m) == IF m < n THEN n - m ELSE 0

\* Seeded fault: every occurrence of a token is taken off its document count.
RemoveOccurrences(ix, f) ==
    LET gone == ix.units[f] IN
    [units |-> [ix.units EXCEPT ![f] = <<>>],
     df |-> [t \in Tokens |->
               Less(ix.df[t], Cardinality({o \in Occurrences(gone) : gone[o[1]][o[2]] = t}))],
     totalLen |-> ix.totalLen - Cardinality(Occurrences(gone)),
     totalDocs |-> ix.totalDocs - Len(gone)]

removeFileLocked(ix, f) ==
    LET gone == ix.units[f] IN
    [units |-> [ix.units EXCEPT ![f] = <<>>],
     df |-> [t \in Tokens |-> Less(ix.df[t], Cardinality(Having(gone, t)))],
     totalLen |-> ix.totalLen - Cardinality(Occurrences(gone)),
     totalDocs |-> ix.totalDocs - Len(gone)]

Docs(ix) == UNION {{f} \X DOMAIN ix.units[f] : f \in Files}
ToksOf(ix, d) == ix.units[d[1]][d[2]]
OccurrencesIn(ix) == UNION {{f} \X Occurrences(ix.units[f]) : f \in Files}

\* The units with a score for a token; a token without documents is skipped.
Search(ix, t) == {d \in Docs(ix) : ix.df[t] # 0 /\ t \in Range(ToksOf(ix, d))}

-----------------------------------------------------------------------------
\* getOrBuildIndex.

\* A cached index, or a cached failure, ends the call.
CacheHit(c) ==
    /\ pc[c] = "idle" /\ cache # None
    /\ pc' = [pc EXCEPT ![c] = "hit"]
    /\ UNCHANGED <<files, sub, cache, todo, idx, ctxDone, wpc, hand, watched, queue, changes, missed>>

CacheMiss(c) ==
    /\ pc[c] = "idle" /\ cache = None
    /\ pc' = [pc EXCEPT ![c] = "build"]
    /\ todo' = [todo EXCEPT ![c] = Files]
    /\ UNCHANGED <<files, sub, cache, idx, ctxDone, wpc, hand, watched, queue, changes, missed>>

\* One file of the walk; a broken or missing one has no units.
BuildFile(c, f) ==
    /\ pc[c] = "build" /\ f \in todo[c]
    /\ idx' = [idx EXCEPT ![c] = addUnitsLocked(@, f, ExtractGoFile(f))]
    /\ todo' = [todo EXCEPT ![c] = @ \ {f}]
    /\ UNCHANGED <<files, sub, cache, pc, ctxDone, wpc, hand, watched, queue, changes, missed>>

\* The root is watched before the walk reads what is in it.
WatchRoot(c) ==
    /\ pc[c] = "build" /\ todo[c] = {}
    /\ pc' = [pc EXCEPT ![c] = "watch"]
    /\ watched' = [watched EXCEPT ![c] = {"root"}]
    /\ UNCHANGED <<files, sub, cache, todo, idx, ctxDone, wpc, hand, queue, changes, missed>>

WatchRest(c) ==
    /\ pc[c] = "watch"
    /\ pc' = [pc EXCEPT ![c] = "publish"]
    /\ watched' = [watched EXCEPT ![c] = @ \cup (IF sub THEN {"sub"} ELSE {})]
    /\ wpc' = [wpc EXCEPT ![c] = "run"]
    /\ UNCHANGED <<files, sub, cache, todo, idx, ctxDone, hand, queue, changes, missed>>

\* An event about f waits in the queue.
PendingIn(q, f) == \E k \in DOMAIN q : q[k].kind \in {"add", "gone"} /\ q[k].file = f
Pending(c, f) == PendingIn(queue[c], f)

\* Watch's error is ignored: the index is published and never refreshed.
WatchFails(c) ==
    /\ (pc[c] = "build" /\ todo[c] = {}) \/ pc[c] = "watch"
    /\ pc' = [pc EXCEPT ![c] = "publish"]
    /\ watched' = [watched EXCEPT ![c] = {}]
    /\ queue' = [queue EXCEPT ![c] = <<>>]
    /\ missed' = [missed EXCEPT ![c] = @ \cup {f \in Files : Pending(c, f)}]
    /\ UNCHANGED <<files, sub, cache, todo, idx, ctxDone, wpc, hand, changes>>

Publish(c) ==
    /\ pc[c] = "publish" /\ cache = None
    /\ cache' = c
    /\ pc' = [pc EXCEPT ![c] = "done"]
    /\ UNCHANGED <<files, sub, todo, idx, ctxDone, wpc, hand, watched, queue, changes, missed>>

\* The loser answers from the index it finds; its own is unreachable from
\* now on, though its watcher goes on updating it.
LoseRace(c) ==
    /\ pc[c] = "publish" /\ cache # None
    /\ pc' = [pc EXCEPT ![c] = "hit"]
    /\ wpc' = [wpc EXCEPT ![c] = IF @ \in {"run", "apply"} THEN "orphan" ELSE @]
    /\ hand' = [hand EXCEPT ![c] = <<>>]
    /\ idx' = [idx EXCEPT ![c] = EmptyIndex]
    /\ watched' = [watched EXCEPT ![c] = {}]
    /\ queue' = [queue EXCEPT ![c] = <<>>]
    /\ missed' = [missed EXCEPT ![c] = {}]
    /\ UNCHANGED <<files, sub, cache, todo, ctxDone, changes>>

\* The walk fails: that is cached, too.
BuildFails(c) ==
    /\ pc[c] = "build"
    /\ cache' = IF cache = None THEN Failed ELSE cache
    /\ pc' = [pc EXCEPT ![c] = "failed"]
    /\ todo' = [todo EXCEPT ![c] = {}]
    /\ idx' = [idx EXCEPT ![c] = EmptyIndex]
    /\ missed' = [missed EXCEPT ![c] = {}]
    /\ UNCHANGED <<files, sub, ctxDone, wpc, hand, watched, queue, changes>>

-----------------------------------------------------------------------------
\* runWatch and handleEvent.

\* A value on w.Errors, an overflowed queue included, is dropped.
DropError(c) ==
    /\ wpc[c] = "run" /\ queue[c] # <<>> /\ Head(queue[c]).kind = "overflow"
    /\ queue' = [queue EXCEPT ![c] = Tail(@)]
    /\ UNCHANGED <<files, sub, cache, pc, todo, idx, ctxDone, wpc, hand, watched, changes, missed>>

\* A new directory is watched from now on; what is in it already is not read.
DirCreated(c) ==
    /\ wpc[c] = "run" /\ queue[c] # <<>> /\ Head(queue[c]).kind = "mkdir"
    /\ queue' = [queue EXCEPT ![c] = Tail(@)]
    /\ watched' = [watched EXCEPT ![c] = @ \cup (IF sub THEN {"sub"} ELSE {})]
    /\ UNCHANGED <<files, sub, cache, pc, todo, idx, ctxDone, wpc, hand, changes, missed>>

\* Create or Write: AddFile reads the file as it is now, outside the lock; a
\* change that was missed is made up for, unless an event from before it is
\* still to come.
Extract(c) ==
    /\ wpc[c] = "run" /\ queue[c] # <<>> /\ Head(queue[c]).kind = "add"
    /\ LET f == Head(queue[c]).file IN
       /\ hand' = [hand EXCEPT ![c] = <<f, ExtractGoFile(f)>>]
       /\ missed' = [missed EXCEPT ![c] = IF PendingIn(Tail(queue[c]), f) THEN @ ELSE @ \ {f}]
    /\ queue' = [queue EXCEPT ![c] = Tail(@)]
    /\ wpc' = [wpc EXCEPT ![c] = "apply"]
    /\ UNCHANGED <<files, sub, cache, pc, todo, idx, ctxDone, watched, changes>>

\* Seeded fault: a file that does not parse ends the goroutine.
StopOnUnreadable(c) ==
    /\ wpc[c] = "apply"
    /\ idx' = [idx EXCEPT ![c] =
                 addUnitsLocked(removeFileLocked(@, hand[c][1]), hand[c][1], hand[c][2])]
    /\ hand' = [hand EXCEPT ![c] = <<>>]
    /\ wpc' = [wpc EXCEPT ![c] = IF hand[c][2] = <<>> THEN "closed" ELSE "run"]
    /\ UNCHANGED <<files, sub, cache, pc, todo, ctxDone, watched, queue, changes, missed>>

\* Under the lock the file's old units go and the new ones come; for a file
\* that does not parse this is RemoveFile.
AddFile(c) ==
    /\ wpc[c] = "apply"
    /\ idx' = [idx EXCEPT ![c] =
                 addUnitsLocked(removeFileLocked(@, hand[c][1]), hand[c][1], hand[c][2])]
    /\ hand' = [hand EXCEPT ![c] = <<>>]
    /\ wpc' = [wpc EXCEPT ![c] = "run"]
    /\ UNCHANGED <<files, sub, cache, pc, todo, ctxDone, watched, queue, changes, missed>>

\* Seeded fault: only Remove is handled, and a rename is neither.
IgnoreGone(c) ==
    /\ wpc[c] = "run" /\ queue[c] # <<>> /\ Head(queue[c]).kind = "gone"
    /\ queue' = [queue EXCEPT ![c] = Tail(@)]
    /\ UNCHANGED <<files, sub, cache, pc, todo, idx, ctxDone, wpc, hand, watched, changes, missed>>

\* Remove or Rename.
RemoveFile(c) ==
    /\ wpc[c] = "run" /\ queue[c] # <<>> /\ Head(queue[c]).kind = "gone"
    /\ idx' = [idx EXCEPT ![c] = removeFileLocked(@, Head(queue[c]).file)]
    /\ queue' = [queue EXCEPT ![c] = Tail(@)]
    /\ UNCHANGED <<files, sub, cache, pc, todo, ctxDone, wpc, hand, watched, changes, missed>>

\* The context of the call that built the index ends, with the request or by
\* a cancellation, and with it the goroutine.
ContextEnds(c) ==
    /\ wpc[c] \in {"run", "orphan"}
    /\ ctxDone' = [ctxDone EXCEPT ![c] = TRUE]
    /\ wpc' = [wpc EXCEPT ![c] = "closed"]
    /\ watched' = [watched EXCEPT ![c] = {}]
    /\ queue' = [queue EXCEPT ![c] = <<>>]
    /\ UNCHANGED <<files, sub, cache, pc, todo, idx, hand, changes, missed>>

-----------------------------------------------------------------------------
\* The workspace and inotify.

Fits(c) == Len(queue[c]) < MaxQueue

\* A full queue loses the event and says so once.
Enqueue(c, e) ==
    IF Fits(c) THEN Append(queue[c], e)
    ELSE IF queue[c][Len(queue[c])].kind = "overflow" THEN queue[c]
    ELSE Append(queue[c], [kind |-> "overflow", file |-> None])

Sees(c, f) == DirOf(f) \in watched[c] /\ Fits(c)

\* Build has yet to read f, or nobody keeps the index up to date any more.
Ahead(c, f) == ~HasIndex(c) \/ ctxDone[c] \/ (pc[c] = "build" /\ f \in todo[c])

\* An editor, a tool or a command writes, removes or renames a file.
Change(f, t) ==
    /\ changes < MaxChanges
    /\ changes' = changes + 1
    /\ files[f] # t
    /\ f \in SubFiles => sub
    /\ files' = [files EXCEPT ![f] = t]
    /\ LET e == [kind |-> IF t = Absent THEN "gone" ELSE "add", file |-> f] IN
       queue' = [c \in Calls |-> IF DirOf(f) \in watched[c] THEN Enqueue(c, e) ELSE queue[c]]
    /\ missed' = [c \in Calls |->
                    IF Sees(c, f) \/ Ahead(c, f) THEN missed[c] ELSE missed[c] \cup {f}]
    /\ UNCHANGED <<sub, cache, pc, todo, idx, ctxDone, wpc, hand, watched>>

\* A directory is made or moved in, with files in it or without.
DirAppears(content) ==
    /\ changes < MaxChanges
    /\ changes' = changes + 1
    /\ ~sub /\ sub' = TRUE
    /\ files' = [f \in Files |-> IF f \in SubFiles THEN content[f] ELSE files[f]]
    /\ queue' = [c \in Calls |->
                   IF "root" \in watched[c] THEN Enqueue(c, [kind |-> "mkdir", file |-> None])
                   ELSE queue[c]]
    /\ missed' = [c \in Calls |->
                    missed[c] \cup {f \in SubFiles : content[f] # Absent /\ ~Ahead(c, f)}]
    /\ UNCHANGED <<cache, pc, todo, idx, ctxDone, wpc, hand, watched>>

\* The directory is moved away with what is in it, or removed when empty;
\* its own event names no .go file.
DirGoes ==
    /\ changes < MaxChanges
    /\ changes' = changes + 1
    /\ sub /\ sub' = FALSE
    /\ files' = [f \in Files |-> IF f \in SubFiles THEN Absent ELSE files[f]]
    /\ watched' = [c \in Calls |-> watched[c] \ {"sub"}]
    /\ missed' = [c \in Calls |->
                    missed[c] \cup {f \in SubFiles : files[f] # Absent /\ ~Ahead(c, f)}]
    /\ UNCHANGED <<cache, pc, todo, idx, ctxDone, wpc, hand, queue>>

HandleEvent(c) == DropError(c) \/ DirCreated(c) \/ Extract(c) \/ AddFile(c) \/ RemoveFile(c)

Next ==
    \/ \E c \in Calls :
          \/ CacheHit(c) \/ CacheMiss(c) \/ \E f \in Files : BuildFile(c, f)
          \/ WatchRoot(c) \/ WatchRest(c) \/ WatchFails(c) \/ Publish(c) \/ LoseRace(c) \/ BuildFails(c)
          \/ HandleEvent(c) \/ ContextEnds(c)
    \/ \E f \in Files, t \in Texts \cup {Absent} : Change(f, t)
    \/ \E content \in [SubFiles -> Texts \cup {Absent}] : DirAppears(content)
    \/ DirGoes

\* The watcher's goroutine keeps running as long as there are events.
Fairness == \A c \in Calls : WF_vars(HandleEvent(c))

Spec == Init /\ [][Next]_vars /\ Fairness

-----------------------------------------------------------------------------
Event == [kind : {"add", "gone"}, file : Files] \cup [kind : {"mkdir", "overflow"}, file : {None}]

TypeOK ==
    /\ files \in [Files -> Texts \cup {Absent}]
    /\ sub \in BOOLEAN
    /\ cache \in Calls \cup {None, Failed}
    /\ pc \in [Calls -> {"idle", "build", "watch", "publish", "done", "hit", "failed"}]
    /\ todo \in [Calls -> SUBSET Files]
    /\ \A c \in Calls : /\ idx[c].units \in [Files -> Seq(Seq(Tokens))]
                        /\ idx[c].df \in [Tokens -> Nat]
                        /\ idx[c].totalLen \in Nat /\ idx[c].totalDocs \in Nat
                        /\ queue[c] \in Seq(Event) /\ Len(queue[c]) <= MaxQueue + 1
                        /\ (wpc[c] = "apply") = (hand[c] # <<>>)
    /\ ctxDone \in [Calls -> BOOLEAN]
    /\ wpc \in [Calls -> {"none", "run", "apply", "orphan", "closed"}]
    /\ watched \in [Calls -> SUBSET {"root", "sub"}]
    /\ changes \in 0..MaxChanges
    /\ missed \in [Calls -> SUBSET Files]

Fresh(c, f) == idx[c].units[f] = ExtractGoFile(f)

\* No update is lost on the way from inotify to the index: where an index
\* and the workspace differ, the event that will mend it is queued or in
\* the watcher's hands, or the change was made where there was no watch
\* or no room in the queue (handleEvent, AddFile, RemoveFile).
StaleIsPending ==
    \A c \in Calls : (HasIndex(c) /\ ~ctxDone[c]) =>
       \A f \in Files \ (todo[c] \cup missed[c]) :
          \/ Pending(c, f)
          \/ IF hand[c] # <<>> /\ hand[c][1] = f THEN hand[c][2] = ExtractGoFile(f)
             ELSE Fresh(c, f)

HavingIn(ix, t) == {d \in Docs(ix) : t \in Range(ToksOf(ix, d))}

ExactCounts(ix) ==
    /\ ix.totalDocs = Cardinality(Docs(ix))
    /\ ix.totalLen = Cardinality(OccurrencesIn(ix))
    /\ \A t \in Tokens : ix.df[t] = Cardinality(HavingIn(ix, t)) /\ HavingIn(ix, t) \subseteq Search(ix, t)

\* The document counts BM25 divides by are those of the units in the index,
\* after any series of additions and removals, and so removing or replacing
\* one file never hides another: every indexed declaration is found by each of
\* its tokens (addUnitsLocked, removeFileLocked, Search).
CountsAreExact == \A c \in Calls : ExactCounts(idx[c])

\* When the workspace comes to rest, the published index catches up with
\* every change its watcher could see, overflows and unreadable files
\* notwithstanding, as long as the context it watches under lives (runWatch).
CatchesUp ==
    \A c \in Calls :
       <>[]((cache = c /\ wpc[c] # "none" /\ ~ctxDone[c]) =>
              \A f \in Files \ missed[c] : Fresh(c, f))
=============================================================================
