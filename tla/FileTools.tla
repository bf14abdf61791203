------------------------------ MODULE FileTools -----------------------------
(***************************************************************************)
(* Read, Write, Edit and the AST edit tools on one canonical path: the     *)
(* Read gate (internal/workspace/tracker.go) and atomicWrite               *)
(* (internal/tools/read.go, write.go, edit.go, ast_common.go and the       *)
(* ast_* handlers, which differ from Edit only in how they compute the new *)
(* text).                                                                  *)
(*                                                                         *)
(* Tool calls run concurrently; each file system call and each tracker     *)
(* method is one step.  Beside them the user's own commands (Bash) change  *)
(* or delete the file, and the machine may crash: it forgets the tracker,  *)
(* the data no fsync has written, and what happened in the directory since *)
(* the kernel last wrote that, for nobody asks it to (Flush).  Tracker     *)
(* keys share nothing, so one path stands for all.                         *)
(*                                                                         *)
(* A name links to an inode: that of the call that created it, the one     *)
(* with the original text, or one a command wrote.  A content is a base    *)
(* text and the set of edits applied to it.                                *)
(***************************************************************************)
EXTENDS Integers, FiniteSets

CONSTANTS Calls,        \* tool calls
          Names,        \* temporary names: pid and nanoseconds, may collide
          Original,     \* the text the file has at first
          Foreign,      \* a text a Bash command writes
          NoFile,       \* there is no such file
          Torn,         \* the text of a file some of whose data is missing
          Litter,       \* a temporary file a crash has left
          MaxActive     \* bound: calls under way at a time

ASSUME FileAssumption ==
    /\ Original \notin Calls /\ Foreign \notin Calls /\ Original # Foreign
    /\ NoFile \notin Calls \cup {Original, Foreign, Litter}
    /\ Litter \notin Calls
    /\ Torn \notin Calls \cup {Original, Foreign}
    /\ MaxActive \in Nat

Contents == [base : Calls \cup {Original, Foreign, Torn}, edits : SUBSET Calls]
Plain(b) == [base |-> b, edits |-> {}]

ASSUME ContentAssumption == NoFile \notin Contents

VARIABLES
    file,     \* the inode under the file's own name
    tmp,      \* the inodes under the temporary names
    inode,    \* how much of a call's inode has been written, and synced
    disk,     \* the directory as it is on disk: the file, the temporary names in use
    tracker,  \* ReadTracker: the path has been read
    op,       \* the tool a call invokes
    pc,       \* where the call is
    data,     \* the content a call has read or is going to install
    tmpOf,    \* the temporary name atomicWrite made up
    known,    \* contents the agent has been shown or has made itself
    blind,    \* calls whose os.Stat failed although the file was there
    crossed   \* a call has removed the temporary file of another

vars == <<file, tmp, inode, disk, tracker, op, pc, data, tmpOf, known, blind, crossed>>

Active == {c \in Calls : pc[c] \notin {"idle", "ok", "error", "left", "dead"}}

Links == Calls \cup {Original, Foreign, NoFile}

TypeOK ==
    /\ file \in Links
    /\ tmp \in [Names -> Calls \cup {NoFile, Litter}]
    /\ inode \in [Calls -> {"partial", "whole", "synced"}]
    /\ disk \in [file : Links, names : SUBSET Names]
    /\ tracker \in BOOLEAN
    /\ op \in [Calls -> {"Read", "Write", "Edit"}]
    /\ pc \in [Calls -> {"idle", "stat", "gate", "open", "mkdir", "compute", "mark", "name", "create",
                         "write", "sync", "rename", "close", "cleanup", "ok", "error", "left", "dead"}]
    /\ data \in [Calls -> Contents \cup {NoFile}]
    /\ tmpOf \in [Calls -> Names \cup {NoFile}]
    /\ known \subseteq Contents
    /\ blind \subseteq Calls
    /\ crossed \in BOOLEAN

\* What one finds in an inode.
TextOf(i) ==
    CASE i = NoFile -> NoFile
      [] i \in Calls -> IF inode[i] = "partial" THEN Plain(Torn) ELSE data[i]
      [] OTHER -> Plain(i)

Init ==
    /\ file \in {NoFile, Original}
    /\ tmp = [n \in Names |-> NoFile]
    /\ inode = [c \in Calls |-> "partial"]
    /\ disk = [file |-> file, names |-> {}]
    /\ tracker = FALSE
    /\ op = [c \in Calls |-> "Read"]
    /\ pc = [c \in Calls |-> "idle"]
    /\ data = [c \in Calls |-> NoFile]
    /\ tmpOf = [c \in Calls |-> NoFile]
    /\ known = {}
    /\ blind = {}
    /\ crossed = FALSE

GoesTo(c, l) == pc' = [pc EXCEPT ![c] = l]

\* What hardly any step touches.
still == <<disk, op, blind, crossed>>

-----------------------------------------------------------------------------
(* The checks before a file is touched.                                    *)

\* A tool is called, its arguments parsed and the path resolved.
Begin(c) ==
    /\ pc[c] = "idle"
    /\ Cardinality(Active) < MaxActive
    /\ \E o \in {"Read", "Write", "Edit"} : op' = [op EXCEPT ![c] = o]
    /\ GoesTo(c, "stat")
    /\ UNCHANGED <<file, tmp, inode, disk, tracker, data, tmpOf, known, blind, crossed>>

\* os.Stat: on an error, whatever it is, Write goes on without the gate; the
\* other tools fail.
Stat(c) ==
    /\ pc[c] = "stat"
    /\ \/ /\ file # NoFile
          /\ GoesTo(c, IF op[c] = "Read" THEN "open" ELSE "gate")
          /\ UNCHANGED blind
       \/ /\ GoesTo(c, IF op[c] = "Write" THEN "mkdir" ELSE "error")
          /\ blind' = IF file = NoFile THEN blind ELSE blind \cup {c}
    /\ UNCHANGED <<file, tmp, inode, disk, tracker, op, data, tmpOf, known, crossed>>

\* Seeded fault: Write does not ask the tracker.
GateOnlyEdits(c) ==
    /\ pc[c] = "gate"
    /\ GoesTo(c, CASE op[c] = "Write" -> "mkdir"
                   [] op[c] # "Write" /\ tracker -> "open"
                   [] OTHER -> "error")
    /\ UNCHANGED <<file, tmp, inode, tracker, data, tmpOf, known, still>>

\* HasBeenRead.
Gate(c) ==
    /\ pc[c] = "gate"
    /\ GoesTo(c, CASE ~tracker -> "error"
                   [] tracker /\ op[c] = "Write" -> "mkdir"
                   [] OTHER -> "open")
    /\ UNCHANGED <<file, tmp, inode, tracker, data, tmpOf, known, still>>

\* readNumbered, or the os.ReadFile of Edit and of the AST tools: the file
\* opened is read to its end even if it is replaced meanwhile.
Open(c) ==
    /\ pc[c] = "open"
    /\ \/ GoesTo(c, "error") /\ UNCHANGED data
       \/ /\ file # NoFile
          /\ data' = [data EXCEPT ![c] = TextOf(file)]
          /\ GoesTo(c, IF op[c] = "Read" THEN "mark" ELSE "compute")
    /\ UNCHANGED <<file, tmp, inode, tracker, tmpOf, known, still>>

WithEdit(content, c) == [content EXCEPT !.edits = @ \cup {c}]

\* applyEdit, or the splice of an AST tool: it fails when old_string or the
\* function is not found, or not unique.
Compute(c) ==
    /\ pc[c] = "compute"
    /\ \/ GoesTo(c, "error") /\ UNCHANGED data
       \/ /\ data' = [data EXCEPT ![c] = WithEdit(data[c], c)]
          /\ GoesTo(c, "name")
    /\ UNCHANGED <<file, tmp, inode, tracker, tmpOf, known, still>>

\* os.MkdirAll of Write.
Mkdir(c) ==
    /\ pc[c] = "mkdir"
    /\ \/ GoesTo(c, "error") /\ UNCHANGED data
       \/ GoesTo(c, "name") /\ data' = [data EXCEPT ![c] = Plain(c)]
    /\ UNCHANGED <<file, tmp, inode, tracker, tmpOf, known, still>>

-----------------------------------------------------------------------------
(* atomicWrite.                                                            *)

TmpName(c) ==
    /\ pc[c] = "name"
    /\ \E n \in Names : tmpOf' = [tmpOf EXCEPT ![c] = n]
    /\ GoesTo(c, "create")
    /\ UNCHANGED <<file, tmp, inode, tracker, data, known, still>>

\* Seeded fault: without O_EXCL an existing temporary file is truncated.
CreateShared(c) ==
    /\ pc[c] = "create"
    /\ tmp' = [tmp EXCEPT ![tmpOf[c]] = c]
    /\ GoesTo(c, "write")
    /\ UNCHANGED <<file, inode, tracker, data, tmpOf, known, still>>

\* OpenFile with O_EXCL; on an error the deferred function is not armed yet.
Create(c) ==
    /\ pc[c] = "create"
    /\ \/ GoesTo(c, "error") /\ UNCHANGED tmp
       \/ /\ tmp[tmpOf[c]] = NoFile
          /\ tmp' = [tmp EXCEPT ![tmpOf[c]] = c]
          /\ GoesTo(c, "write")
    /\ UNCHANGED <<file, inode, tracker, data, tmpOf, known, still>>

\* f.Write: the whole content, or an error after some of it.
WriteTmp(c) ==
    /\ pc[c] = "write"
    /\ \/ GoesTo(c, "cleanup") /\ UNCHANGED inode
       \/ GoesTo(c, "sync") /\ inode' = [inode EXCEPT ![c] = "whole"]
    /\ UNCHANGED <<file, tmp, tracker, data, tmpOf, known, still>>

Sync(c) ==
    /\ pc[c] = "sync"
    /\ \/ GoesTo(c, "cleanup") /\ UNCHANGED inode
       \/ GoesTo(c, "rename") /\ inode' = [inode EXCEPT ![c] = "synced"]
    /\ UNCHANGED <<file, tmp, tracker, data, tmpOf, known, still>>

RenameFails(c) ==
    /\ pc[c] = "rename"
    /\ GoesTo(c, "cleanup")
    /\ UNCHANGED <<file, tmp, inode, tracker, data, tmpOf, known, still>>

\* What has the temporary name by now replaces the file; the agent knows the
\* new content, having sent it.
Rename(c) ==
    /\ pc[c] = "rename"
    /\ tmp[tmpOf[c]] # NoFile
    /\ file' = tmp[tmpOf[c]]
    /\ tmp' = [tmp EXCEPT ![tmpOf[c]] = NoFile]
    /\ known' = known \cup {data[c]}
    /\ GoesTo(c, "close")
    /\ UNCHANGED <<inode, tracker, data, tmpOf, still>>

\* The deferred Close after the rename: when it fails, the call reports an
\* error, and removes what has the temporary name by now.
Close(c) ==
    /\ pc[c] = "close"
    /\ \/ GoesTo(c, IF op[c] = "Write" THEN "mark" ELSE "ok")
       \/ GoesTo(c, "cleanup")
    /\ UNCHANGED <<file, tmp, inode, tracker, data, tmpOf, known, still>>

\* Seeded fault: an error leaves the temporary file.
CleanupForgotten(c) ==
    /\ pc[c] = "cleanup"
    /\ GoesTo(c, "error")
    /\ UNCHANGED <<file, tmp, inode, tracker, data, tmpOf, known, still>>

\* Seeded fault: the error is lost on the way out of atomicWrite.
CleanupLosesError(c) ==
    /\ pc[c] = "cleanup"
    /\ tmp' = [tmp EXCEPT ![tmpOf[c]] = NoFile]
    /\ GoesTo(c, IF op[c] = "Write" THEN "mark" ELSE "ok")
    /\ UNCHANGED <<file, inode, tracker, data, tmpOf, known, still>>

\* The deferred os.Remove(tmp), whose error nobody looks at.
Cleanup(c) ==
    /\ pc[c] = "cleanup"
    /\ \/ /\ tmp' = [tmp EXCEPT ![tmpOf[c]] = NoFile]
          /\ crossed' = (crossed \/ tmp[tmpOf[c]] \notin {c, NoFile})
          /\ GoesTo(c, "error")
       \/ /\ GoesTo(c, IF tmp[tmpOf[c]] = c THEN "left" ELSE "error")
          /\ UNCHANGED <<tmp, crossed>>
    /\ UNCHANGED <<file, inode, disk, tracker, op, data, tmpOf, known, blind>>

\* MarkRead and the result, which shows the agent what a Read has read.
MarkRead(c) ==
    /\ pc[c] = "mark"
    /\ tracker' = TRUE
    /\ known' = known \cup {data[c]}
    /\ GoesTo(c, "ok")
    /\ UNCHANGED <<file, tmp, inode, data, tmpOf, still>>

-----------------------------------------------------------------------------
(* Everything else that touches the file.                                  *)

BashWrites ==
    /\ file # Foreign
    /\ file' = Foreign
    /\ UNCHANGED <<tmp, inode, tracker, pc, data, tmpOf, known, still>>

BashDeletes ==
    /\ file # NoFile
    /\ file' = NoFile
    /\ UNCHANGED <<tmp, inode, tracker, pc, data, tmpOf, known, still>>

\* The kernel writes the directory, in its own time: no tool syncs it.
Flush ==
    /\ disk' = [file |-> file, names |-> {n \in Names : tmp[n] # NoFile}]
    /\ UNCHANGED <<file, tmp, inode, tracker, op, pc, data, tmpOf, known, blind, crossed>>

\* The machine goes down and the server restarts: data no fsync has written
\* is lost, the directory is as it was on disk, and nobody removes the
\* temporary files in it any more.
Crash ==
    /\ file' = disk.file
    /\ tmp' = [n \in Names |-> IF n \in disk.names THEN Litter ELSE NoFile]
    /\ inode' = [c \in Calls |-> IF inode[c] = "whole" THEN "partial" ELSE inode[c]]
    /\ tracker' = FALSE
    /\ known' = {}
    /\ pc' = [c \in Calls |-> IF c \in Active THEN "dead" ELSE pc[c]]
    /\ UNCHANGED <<data, tmpOf, still>>

-----------------------------------------------------------------------------
Step(c) ==
    \/ Begin(c) \/ Stat(c) \/ Gate(c) \/ Open(c) \/ Compute(c) \/ Mkdir(c)
    \/ TmpName(c) \/ Create(c) \/ WriteTmp(c) \/ Sync(c) \/ RenameFails(c) \/ Rename(c) \/ Close(c)
    \/ Cleanup(c) \/ MarkRead(c)

Next == (\E c \in Calls : Step(c)) \/ BashWrites \/ BashDeletes \/ Flush \/ Crash

Spec == Init /\ [][Next]_vars

-----------------------------------------------------------------------------
(* Properties.                                                             *)

IsTorn(i) == i # NoFile /\ TextOf(i).base = Torn

\* write.md: "A partial write is never visible": neither the file nor the one
\* a crash would bring back is torn, and what a call is about to rename is
\* the file it has written itself, whole and on disk, although names may
\* collide, writes fail and the machine crash at any point.  One thing undoes
\* it: a Close that fails after the rename makes atomicWrite remove a name
\* another call may have taken meanwhile.
WholeOrNothing ==
    crossed \/ /\ ~IsTorn(file) /\ ~IsTorn(disk.file)
               /\ \A c \in Calls : pc[c] = "rename" => tmp[tmpOf[c]] = c /\ inode[c] = "synced"

\* No temporary file is left behind: each one belongs to a call that is in
\* atomicWrite, was left by a crash, or could not be removed.
TmpsAreOwned ==
    \A n \in Names : tmp[n] \in Calls =>
        /\ tmpOf[tmp[n]] = n
        /\ pc[tmp[n]] \in {"write", "sync", "rename", "cleanup", "left"}

\* read-tracker.md: the tracker "exists to prevent blind mutation": no call,
\* however the calls interleave, replaces a content the agent has neither
\* read nor made itself since the server started, unless a Bash command wrote
\* it or the call could not see that there was a file.
NoBlindMutation ==
    [][\A c \in Calls : Rename(c) => \/ file \in {NoFile, Foreign}
                                     \/ TextOf(file) \in known
                                     \/ c \in blind \/ crossed]_vars

\* Where a call is when the temporary file, its name and the system calls on
\* it are hidden.
StageOf(c) ==
    CASE pc[c] \in {"stat", "gate", "open", "mkdir"} -> "begun"
      [] pc[c] = "compute" \/ (pc[c] = "mark" /\ op[c] = "Read") -> "took"
      [] pc[c] \in {"name", "create", "write", "sync", "rename"} -> "made"
      [] pc[c] = "close" \/ (pc[c] = "mark" /\ op[c] # "Read") -> "replaced"
      [] pc[c] = "cleanup" -> "failing"
      [] pc[c] = "left" -> "error"
      [] OTHER -> pc[c]

Promise == INSTANCE AtomicFile WITH
    file <- TextOf(file), disk <- TextOf(disk.file),
    stage <- [c \in Calls |-> StageOf(c)], text <- data

\* Refinement: seen without its temporary files, a file the tools work on is
\* an AtomicFile.  What a call puts there is all of what it made, made of all
\* that it took at one moment, and is there before success is reported; and a
\* crash at any system call brings back a whole text that was there before
\* (atomicWrite).
ImplementsAtomicFile == Promise!Spec
=============================================================================
