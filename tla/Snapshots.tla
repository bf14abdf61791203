------------------------------ MODULE Snapshots ------------------------------
(***************************************************************************)
(* snapshot_create, snapshot_restore and snapshot_diff                     *)
(* (internal/tools/snapshot.go).  Every call is a series of git commands   *)
(* on an index file of its own, without a lock: other calls, the file      *)
(* tools and Bash commands run in between, and any command may fail or be  *)
(* killed (SIGKILL) with the request.  A git command that touches many     *)
(* files does so one at a time.  snapshot_list only formats refs and is    *)
(* left out.                                                               *)
(***************************************************************************)
EXTENDS Worktree, Naturals

CONSTANTS Quoted,       \* paths ls-files prints in quotes (core.quotePath)
          MaxWrites,    \* bound: changes by others, and files half restored
          Litter        \* what stays of an index file nobody will remove

ASSUME SnapshotAssumption ==
    Quoted \subseteq Paths /\ MaxWrites \in Nat /\ Litter \notin Trees \cup {NoTree}

VARIABLES
    worktree,
    tracked,   \* the paths in the user's own index
    refs,      \* refs/sandbox/snapshots/*: the tree each name points at
    repo,      \* .git exists
    call,      \* a handler's request, position and locals
    tmp,       \* temporary index files, by path
    writes,
    \* History: what create calls have had before them; the worktree a
    \* restore began with; whether others changed it since a call began.
    seen, start, clean

history == <<seen, start, clean>>
vars == <<worktree, tracked, refs, repo, call, tmp, writes, history>>

NothingSeen == [p \in Paths |-> {}]

\* todo: the paths the current git command has still to visit; mem: the tree
\* it works on; before: restoreSnapshot's inventory of the worktree.
At(label) == [op |-> "create", name |-> NoName, pc |-> label,
              todo |-> {}, mem |-> Empty, before |-> {}]

Running(c) == call[c].pc \notin {"idle", "done", "failed"}
Making(c) == call[c].op = "create" /\ Running(c)

Init ==
    /\ worktree \in Trees
    /\ tracked = {}
    /\ refs \in [Names -> Trees \cup {NoTree}]
    /\ repo \in BOOLEAN
    /\ (\E n \in Names : refs[n] # NoTree) => repo
    /\ call = [c \in Calls |-> At("idle")]
    /\ tmp = [c \in Calls |-> NoTree]
    /\ writes = 0
    /\ seen = [c \in Calls |-> NothingSeen]
    /\ start = [c \in Calls |-> Empty]
    /\ clean = [c \in Calls |-> FALSE]

\* Somebody puts value v (or nothing) at path p; a call is not disturbed by
\* its own changes.
Put(p, v, self) ==
    /\ worktree' = [worktree EXCEPT ![p] = v]
    /\ seen' = [c \in Calls |->
                  IF Making(c)
                  THEN [q \in Paths |-> seen[c][q] \cup Readings(worktree')[q]]
                  ELSE seen[c]]
    /\ clean' = [c \in Calls |-> clean[c] /\ (c = self \/ worktree' = worktree)]
    /\ UNCHANGED start

\* Seeded fault: one fixed index file for all snapshot operations.
SharedIndexPath(c) == CHOOSE d \in Calls : TRUE

\* tempIndexPath: pid and nanoseconds, taken to differ from call to call.
tempIndexPath(c) == c

TmpTree(c) == IF tmp[tempIndexPath(c)] \in Trees THEN tmp[tempIndexPath(c)] ELSE Empty

\* ls-files --cached --others --exclude-standard.
Listing == Visible(worktree) \cup tracked

\* The handler returns and its locals go.
Return(c, label) ==
    /\ call' = [call EXCEPT ![c] = [At(label) EXCEPT !.op = call[c].op]]
    /\ seen' = [seen EXCEPT ![c] = NothingSeen]
    /\ start' = [start EXCEPT ![c] = Empty]
    /\ clean' = [clean EXCEPT ![c] = FALSE]
    /\ UNCHANGED <<worktree, tracked, repo, writes>>

\* The deferred os.Remove takes the index file; its error is ignored.
End(c, label) ==
    /\ Return(c, label)
    /\ \E left \in IF tmp[tempIndexPath(c)] = NoTree THEN {NoTree} ELSE {NoTree, Litter} :
          tmp' = [tmp EXCEPT ![tempIndexPath(c)] = left]

Begin(c, o, n, label) ==
    /\ call[c].pc = "idle"
    /\ call' = [call EXCEPT ![c] = [At(label) EXCEPT !.op = o, !.name = n]]
    /\ seen' = [seen EXCEPT ![c] = IF o = "create" THEN Readings(worktree) ELSE NothingSeen]
    /\ start' = [start EXCEPT ![c] = IF o = "restore" THEN worktree ELSE Empty]
    /\ clean' = [clean EXCEPT ![c] = TRUE]
    /\ UNCHANGED <<worktree, tracked, refs, repo, tmp, writes>>

HandleSnapshotCreate(c, n) == Begin(c, "create", n, IF repo THEN "scan" ELSE "init")

\* Seeded fault: any name will do once there is a repository.
AnyName(n) == repo

\* snapshotExists resolves the name once; the commands that follow resolve
\* it again.
snapshotExists(n) == repo /\ refs[n] # NoTree

HandleSnapshotDiff(c, n) == snapshotExists(n) /\ Begin(c, "diff", n, "scan")

HandleSnapshotRestore(c, n) == snapshotExists(n) /\ Begin(c, "restore", n, "inventory")

\* Either of the two, for a name nobody has recorded.
SnapshotNotFound(c) ==
    /\ \E n \in Names : ~snapshotExists(n)
    /\ call[c].pc = "idle"
    /\ call' = [call EXCEPT ![c] = [At("failed") EXCEPT !.op = "restore"]]
    /\ UNCHANGED <<worktree, tracked, refs, repo, tmp, writes, history>>

-----------------------------------------------------------------------------
ensureGitRepo(c) ==
    /\ call[c].pc = "init"
    /\ repo' = TRUE
    /\ call' = [call EXCEPT ![c].pc = "scan"]
    /\ UNCHANGED <<worktree, tracked, refs, tmp, writes, history>>

\* git add --all on an index file that does not exist: what to stage is
\* settled first, then file after file is read.
Scan(c) ==
    /\ call[c].pc = "scan"
    /\ call' = [call EXCEPT ![c].todo = Visible(worktree), ![c].pc = "add"]
    /\ UNCHANGED <<worktree, tracked, refs, repo, tmp, writes, history>>

\* A file that has gone meanwhile makes git fail, see Fail.
AddFile(c, p) ==
    /\ call[c].pc = "add"
    /\ p \in call[c].todo /\ worktree[p] # Absent
    /\ call' = [call EXCEPT ![c].mem[p] = worktree[p], ![c].todo = @ \ {p}]
    /\ UNCHANGED <<worktree, tracked, refs, repo, tmp, writes, history>>

AddDone(c) ==
    /\ call[c].pc = "add" /\ call[c].todo = {}
    /\ tmp' = [tmp EXCEPT ![tempIndexPath(c)] = call[c].mem]
    /\ call' = [call EXCEPT ![c].pc = "write"]
    /\ UNCHANGED <<worktree, tracked, refs, repo, writes, history>>

\* write-tree and, for create, commit-tree.
WriteTree(c) ==
    /\ call[c].pc = "write"
    /\ call' = [call EXCEPT ![c].mem = TmpTree(c),
                            ![c].pc = IF call[c].op = "create" THEN "publish" ELSE "compare"]
    /\ UNCHANGED <<worktree, tracked, refs, repo, tmp, writes, history>>

\* Seeded fault: the name is pointed at the old tree's files plus the new ones.
MergedRef(c) ==
    /\ call[c].pc = "publish"
    /\ refs' = [refs EXCEPT ![call[c].name] =
                  [p \in Paths |-> IF call[c].mem[p] = Absent /\ @ # NoTree THEN @[p]
                                   ELSE call[c].mem[p]]]
    /\ End(c, "done")

UpdateRef(c) ==
    /\ call[c].pc = "publish"
    /\ refs' = [refs EXCEPT ![call[c].name] = call[c].mem]
    /\ End(c, "done")

\* git diff <ref> <tree>; the text is the answer.
diffSnapshot(c) ==
    /\ call[c].pc = "compare"
    /\ End(c, "done")
    /\ UNCHANGED refs

-----------------------------------------------------------------------------
\* A failing ls-files counts as an empty worktree.
listWorktreePaths(c) ==
    /\ call[c].pc = "inventory"
    /\ \E listed \in {Listing, {}} :
          call' = [call EXCEPT ![c].before = listed, ![c].pc = "read"]
    /\ UNCHANGED <<worktree, tracked, refs, repo, tmp, writes, history>>

ReadTree(c) ==
    /\ call[c].pc = "read"
    /\ tmp' = [tmp EXCEPT ![tempIndexPath(c)] = refs[call[c].name]]
    /\ call' = [call EXCEPT ![c].pc = "load"]
    /\ UNCHANGED <<worktree, tracked, refs, repo, writes, history>>

\* checkout-index -a -f: it reads the index, then writes file after file.
CheckoutIndex(c) ==
    /\ call[c].pc = "load"
    /\ call' = [call EXCEPT ![c].mem = TmpTree(c), ![c].todo = Files(TmpTree(c)),
                            ![c].pc = "checkout"]
    /\ UNCHANGED <<worktree, tracked, refs, repo, tmp, writes, history>>

\* It removes the old file and writes the new one piece by piece: until it is
\* done, or when it is killed, the path may be without a file or hold part of
\* one, here any content.
TearFile(c, p) ==
    /\ call[c].pc = "checkout"
    /\ p \in call[c].todo
    /\ writes < MaxWrites
    /\ writes' = writes + 1
    /\ \E v \in Contents \cup {Absent} : Put(p, v, c)
    /\ UNCHANGED <<tracked, refs, repo, call, tmp>>

CheckoutFile(c, p) ==
    /\ call[c].pc = "checkout"
    /\ p \in call[c].todo
    /\ Put(p, call[c].mem[p], c)
    /\ call' = [call EXCEPT ![c].todo = @ \ {p}]
    /\ UNCHANGED <<tracked, refs, repo, tmp, writes>>

\* Seeded fault: what to remove is listed anew, after the checkout.
LateInventory(c) ==
    /\ call[c].pc = "checkout" /\ call[c].todo = {}
    /\ call' = [call EXCEPT ![c].todo = Listing \ Files(TmpTree(c)), ![c].pc = "remove"]
    /\ UNCHANGED <<worktree, tracked, refs, repo, tmp, writes, history>>

\* snapshotPathSet lists the temporary index; what is in the inventory and
\* not in it is going to be removed.
snapshotPathSet(c) ==
    /\ call[c].pc = "checkout" /\ call[c].todo = {}
    /\ call' = [call EXCEPT ![c].todo = call[c].before \ Files(TmpTree(c)), ![c].pc = "remove"]
    /\ UNCHANGED <<worktree, tracked, refs, repo, tmp, writes, history>>

\* os.Remove of the name as ls-files printed it: a quoted one does not
\* exist, which is tolerated.
removeExtrasNotInSnapshot(c, p) ==
    /\ call[c].pc = "remove"
    /\ p \in call[c].todo
    /\ Put(p, IF p \in Quoted THEN worktree[p] ELSE Absent, c)
    /\ call' = [call EXCEPT ![c].todo = @ \ {p}]
    /\ UNCHANGED <<tracked, refs, repo, tmp, writes>>

\* The second inventory; the answer names the paths it and the first do not
\* share.
diffPathSets(c) ==
    /\ call[c].pc = "remove" /\ call[c].todo = {}
    /\ End(c, "done")
    /\ UNCHANGED refs

\* Seeded fault: an early return leaves the index file behind.
FailWithoutCleanup(c) ==
    /\ Running(c)
    /\ Return(c, "failed")
    /\ UNCHANGED <<refs, tmp>>

\* A git command fails, is killed with the request, or a removal fails:
\* error result, nothing undone.
Fail(c) ==
    /\ Running(c)
    /\ End(c, "failed")
    /\ UNCHANGED refs

\* A git that is killed while it makes the index leaves <index>.lock.
KilledWithLock(c) ==
    /\ call[c].pc \in {"scan", "add", "read"}
    /\ Return(c, "failed")
    /\ tmp' = [tmp EXCEPT ![tempIndexPath(c)] = Litter]
    /\ UNCHANGED refs

\* update-ref is killed when it has moved the ref: the call fails all the same.
KilledAfterUpdate(c) ==
    /\ call[c].pc = "publish"
    /\ refs' = [refs EXCEPT ![call[c].name] = call[c].mem]
    /\ End(c, "failed")

-----------------------------------------------------------------------------
\* Write, Edit, Bash: a file appears, changes or goes.
WorkspaceChange(p, v) ==
    /\ writes < MaxWrites
    /\ writes' = writes + 1
    /\ v # worktree[p]
    /\ Put(p, v, NoName)
    /\ UNCHANGED <<tracked, refs, repo, call, tmp>>

\* The user's git add -f.
UserTracks(p) ==
    /\ writes < MaxWrites
    /\ writes' = writes + 1
    /\ repo /\ worktree[p] # Absent /\ p \notin tracked
    /\ tracked' = tracked \cup {p}
    /\ clean' = [c \in Calls |-> FALSE]
    /\ UNCHANGED <<worktree, refs, repo, call, tmp, seen, start>>

Next ==
    \/ \E c \in Calls :
          \/ \E n \in Names : \/ HandleSnapshotCreate(c, n)
                              \/ HandleSnapshotDiff(c, n)
                              \/ HandleSnapshotRestore(c, n)
          \/ SnapshotNotFound(c) \/ ensureGitRepo(c)
          \/ Scan(c) \/ AddDone(c) \/ WriteTree(c) \/ UpdateRef(c) \/ diffSnapshot(c)
          \/ listWorktreePaths(c) \/ ReadTree(c) \/ CheckoutIndex(c) \/ snapshotPathSet(c)
          \/ diffPathSets(c) \/ Fail(c) \/ KilledWithLock(c) \/ KilledAfterUpdate(c)
          \/ \E p \in Paths :
                \/ AddFile(c, p) \/ TearFile(c, p) \/ CheckoutFile(c, p)
                \/ removeExtrasNotInSnapshot(c, p)
    \/ \E p \in Paths : UserTracks(p) \/ \E v \in Contents \cup {Absent} : WorkspaceChange(p, v)

Spec == Init /\ [][Next]_vars

-----------------------------------------------------------------------------
\* A call under way has a name, and one that reads a snapshot has it there.
TypeOK ==
    /\ worktree \in Trees
    /\ tracked \subseteq Paths
    /\ refs \in [Names -> Trees \cup {NoTree}]
    /\ repo \in BOOLEAN
    /\ call \in [Calls -> [op : {"create", "diff", "restore"}, name : Names \cup {NoName},
                           pc : {"idle", "init", "scan", "add", "write", "publish", "compare",
                                 "inventory", "read", "load", "checkout", "remove", "done",
                                 "failed"},
                           todo : SUBSET Paths, mem : Trees, before : SUBSET Paths]]
    /\ tmp \in [Calls -> Trees \cup {NoTree, Litter}]
    /\ writes \in Nat
    /\ seen \in [Calls -> [Paths -> SUBSET (Contents \cup {Absent})]]
    /\ start \in [Calls -> Trees]
    /\ clean \in [Calls -> BOOLEAN]
    /\ \A c \in Calls :
          /\ Running(c) => call[c].name \in Names
          /\ (Running(c) /\ ~Making(c)) => refs[call[c].name] \in Trees

\* Two snapshot operations at a time do not see each other: a call during
\* which nobody else changed the workspace captures exactly the visible
\* worktree, whatever other create and diff calls do beside it
\* (createSnapshot, diffSnapshot).
CleanCaptureIsExact ==
    \A c \in Calls :
       (clean[c] /\ call[c].pc \in {"publish", "compare"}) => call[c].mem = View(worktree)

\* A restore during which nobody else changed the workspace, whose inventory
\* did not fail and which reports success has written every file of the
\* snapshot, removed what it listed and the snapshot lacks, and touched
\* nothing else (restoreSnapshot).  What becomes of a listed path whose name
\* ls-files prints in quotes is not stated: see removeExtrasNotInSnapshot.
CleanRestoreIsExact ==
    [][\A c \in Calls :
          (clean[c] /\ call[c].pc = "remove" /\ call'[c].pc = "done" /\ call[c].before # {})
          => LET listed == Visible(start[c]) \cup tracked
                 kept   == Files(call[c].mem)
             IN  \A p \in Paths :
                    /\ p \in kept => worktree'[p] = call[c].mem[p]
                    /\ p \in (listed \ kept) \ Quoted => worktree'[p] = Absent
                    /\ p \notin listed \cup kept => worktree'[p] = start[c][p]]_vars

\* A temporary index file outlives the call it was made for only if os.Remove
\* failed on it; what else may stay is the lock of a git that was killed.
IndexFilesAreOwned ==
    \A i \in Calls :
       tmp[i] \in Trees => \E c \in Calls : tempIndexPath(c) = i /\ Running(c)

Store == INSTANCE SnapshotStore WITH
    making <- [c \in Calls |-> IF Making(c) THEN call[c].name ELSE NoName],
    told   <- [c \in Calls |-> IF call[c].op = "create" /\ call[c].pc \in {"done", "failed"}
                               THEN call[c].pc ELSE "none"]

\* Refinement: seen through the refs, the three tools are a SnapshotStore,
\* whatever changes the workspace meanwhile (createSnapshot).
ImplementsStore == Store!Spec
=============================================================================
