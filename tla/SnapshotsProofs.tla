--------------------------- MODULE SnapshotsProofs ---------------------------
(***************************************************************************)
(* The snapshot tools implement SnapshotStore, for any number of paths,    *)
(* contents, names, calls at a time and changes to the workspace.  What a  *)
(* create publishes has been collected one file at a time, then carried    *)
(* through the index file and a tree object: the invariant follows every   *)
(* value on that way and says that the path has had it during the call.    *)
(***************************************************************************)
EXTENDS Snapshots, TLAPS

\* Every value of the tree is one the path has had since call c began.
Witnessed(c, t) == \A p \in Paths : t[p] \in seen[c][p]

SeenWhileMaking == \A c \in Calls : ~Making(c) => seen[c] = NothingSeen

SeenNow ==
    \A c \in Calls : Making(c) => \A p \in Paths : Readings(worktree)[p] \subseteq seen[c][p]

\* Where the values a call has collected are.
StagedBy(c) ==
    /\ call[c].pc \in {"init", "scan"} => call[c].mem = Empty
    /\ (Making(c) /\ call[c].pc = "add") =>
          \A p \in Paths \ call[c].todo : call[c].mem[p] \in seen[c][p]
    /\ (Making(c) /\ call[c].pc = "write") => tmp[c] \in Trees /\ Witnessed(c, tmp[c])
    /\ call[c].pc = "publish" => call[c].op = "create" /\ Witnessed(c, call[c].mem)
    /\ call[c].pc \in {"compare", "inventory", "read", "load", "checkout", "remove"}
          => call[c].op # "create"

Staged == \A c \in Calls : StagedBy(c)

IInv == TypeOK /\ SeenWhileMaking /\ SeenNow /\ Staged /\ IndexFilesAreOwned

Ops == {"create", "diff", "restore"}
Labels == {"idle", "init", "scan", "add", "write", "publish", "compare", "inventory", "read",
           "load", "checkout", "remove", "done", "failed"}
CallType == [op : Ops, name : Names \cup {NoName}, pc : Labels,
             todo : SUBSET Paths, mem : Trees, before : SUBSET Paths]

-----------------------------------------------------------------------------
\* The tree without files is a tree.
LEMMA EmptyType == Empty \in Trees
BY DEF Empty, Trees

\* A call's record when its handler begins or has returned.
LEMMA AtType == \A l \in Labels : At(l) \in CallType
BY EmptyType DEF At, CallType, Ops

\* What git may take a path for is a content or nothing; what it leaves out it
\* may take for nothing.
LEMMA ReadingsType ==
    ASSUME NEW wt \in Trees
    PROVE  /\ Readings(wt) \in [Paths -> SUBSET (Contents \cup {Absent})]
           /\ \A p \in Paths : wt[p] \in Readings(wt)[p]
           /\ \A p \in Paths \ Visible(wt) : Absent \in Readings(wt)[p]
           /\ Visible(wt) \subseteq Paths
<1>1. \A p \in Paths : wt[p] \in Contents \cup {Absent}  BY DEF Trees
<1>2. Visible(wt) \subseteq Paths  BY DEF Visible, Files
<1>3. \A p \in Paths : Readings(wt)[p] = {wt[p]} \cup (IF p \in Ignored(wt) THEN {Absent} ELSE {})
  BY DEF Readings
<1>4. Readings(wt) \in [Paths -> SUBSET (Contents \cup {Absent})]  BY <1>1 DEF Readings
<1>5. ASSUME NEW p \in Paths \ Visible(wt)  PROVE Absent \in Readings(wt)[p]
  <2>1. wt[p] = Absent \/ p \in Ignored(wt)  BY DEF Visible, Files
  <2>. QED  BY <2>1, <1>3
<1>. QED  BY <1>2, <1>3, <1>4, <1>5

\* The invariant holds initially: no call is under way.
LEMMA InitIInv == Init => IInv
<1>. SUFFICES ASSUME Init PROVE IInv  OBVIOUS
<1>1. \A c \in Calls : call[c] = At("idle")  BY DEF Init
<1>2. \A c \in Calls : call[c].pc = "idle" /\ call[c].op = "create"  BY <1>1 DEF At
<1>3. \A c \in Calls : ~Running(c) /\ ~Making(c)  BY <1>2 DEF Running, Making
<1>4. call \in [Calls -> CallType]  BY AtType DEF Init, Labels
<1>5. NothingSeen \in [Paths -> SUBSET (Contents \cup {Absent})]  BY DEF NothingSeen
<1>6. /\ worktree \in Trees /\ tracked \subseteq Paths /\ refs \in [Names -> Trees \cup {NoTree}]
      /\ repo \in BOOLEAN /\ tmp \in [Calls -> Trees \cup {NoTree, Litter}] /\ writes \in Nat
      /\ start \in [Calls -> Trees] /\ clean \in [Calls -> BOOLEAN]
  BY EmptyType DEF Init
<1>7. seen \in [Calls -> [Paths -> SUBSET (Contents \cup {Absent})]]  BY <1>5 DEF Init
<1>8. TypeOK  BY <1>3, <1>4, <1>6, <1>7 DEF TypeOK, CallType, Ops, Labels
<1>9. SeenWhileMaking /\ SeenNow  BY <1>3 DEF Init, SeenWhileMaking, SeenNow
<1>10. Staged  BY <1>2, <1>3 DEF Staged, StagedBy
<1>11. IndexFilesAreOwned  BY NoTreeAssumption DEF Init, IndexFilesAreOwned
<1>. QED  BY <1>8, <1>9, <1>10, <1>11 DEF IInv

-----------------------------------------------------------------------------
\* The parts of the invariant and the types of the variables, in short form.
LEMMA Parts ==
    ASSUME IInv
    PROVE  /\ worktree \in Trees /\ tracked \subseteq Paths
           /\ refs \in [Names -> Trees \cup {NoTree}] /\ repo \in BOOLEAN
           /\ call \in [Calls -> CallType] /\ tmp \in [Calls -> Trees \cup {NoTree, Litter}]
           /\ writes \in Nat
           /\ seen \in [Calls -> [Paths -> SUBSET (Contents \cup {Absent})]]
           /\ start \in [Calls -> Trees] /\ clean \in [Calls -> BOOLEAN]
           /\ \A c \in Calls : /\ Running(c) => call[c].name \in Names
                               /\ (Running(c) /\ ~Making(c)) => refs[call[c].name] \in Trees
           /\ SeenWhileMaking /\ SeenNow /\ Staged /\ IndexFilesAreOwned
BY DEF IInv, TypeOK, CallType, Ops, Labels

\* The store's view of a call under way: the name it is going to set.
MakingName(c) == IF Making(c) THEN call[c].name ELSE NoName

\* ... and what a create has answered.
Told(c) == IF call[c].op = "create" /\ call[c].pc \in {"done", "failed"} THEN call[c].pc ELSE "none"

\* A call goes from one git command to the next: nothing but its locals and
\* its own index file changes.
LEMMA QuietStep ==
    ASSUME IInv, NEW c \in Calls, NEW r \in CallType, NEW t \in Trees \cup {NoTree, Litter},
           call' = [call EXCEPT ![c] = r], tmp' = [tmp EXCEPT ![c] = t],
           Running(c), r.pc \notin {"idle", "done", "failed"},
           r.op = call[c].op, r.name = call[c].name, repo' \in BOOLEAN,
           UNCHANGED <<worktree, tracked, refs, writes, seen, start, clean>>,
           StagedBy(c)'
    PROVE  IInv' /\ \A d \in Calls : MakingName(d)' = MakingName(d) /\ Told(d)' = Told(d)
<1>p. USE Parts
<1>1. call' \in [Calls -> CallType] /\ tmp' \in [Calls -> Trees \cup {NoTree, Litter}]  OBVIOUS
<1>2. /\ call'[c] = r /\ tmp'[c] = t
      /\ \A d \in Calls \ {c} : call'[d] = call[d] /\ tmp'[d] = tmp[d]
  OBVIOUS
<1>3. \A d \in Calls : /\ Running(d)' <=> Running(d)
                       /\ Making(d)' <=> Making(d)
                       /\ call'[d].name = call[d].name
  BY <1>2 DEF Running, Making
<1>4. \A d \in Calls : /\ Running(d)' => call'[d].name \in Names
                       /\ (Running(d)' /\ ~Making(d)') => refs'[call'[d].name] \in Trees
  BY <1>3
<1>5. SeenWhileMaking' /\ SeenNow'  BY <1>3 DEF SeenWhileMaking, SeenNow
<1>6. \A d \in Calls \ {c} : StagedBy(d)'
  BY <1>2, <1>3 DEF Staged, StagedBy, Witnessed
<1>7. Staged'  BY <1>6 DEF Staged
<1>8. IndexFilesAreOwned'  BY <1>2, <1>3 DEF IndexFilesAreOwned, tempIndexPath
<1>9. IInv'  BY <1>1, <1>4, <1>5, <1>7, <1>8 DEF IInv, TypeOK, CallType, Ops, Labels
<1>10. \A d \in Calls : Told(d)' = Told(d)  BY <1>2 DEF Told, Running
<1>. QED  BY <1>3, <1>9, <1>10 DEF MakingName

\* Each git command of a call.
LEMMA CommandStep ==
    ASSUME IInv, NEW c \in Calls,
           \/ ensureGitRepo(c) \/ Scan(c) \/ AddDone(c) \/ WriteTree(c) \/ listWorktreePaths(c)
           \/ ReadTree(c) \/ CheckoutIndex(c) \/ snapshotPathSet(c) \/ \E p \in Paths : AddFile(c, p)
    PROVE  /\ IInv'
           /\ \A d \in Calls : MakingName(d)' = MakingName(d) /\ Told(d)' = Told(d)
           /\ UNCHANGED <<worktree, refs, seen>>
<1>p. USE Parts, EmptyType DEF tempIndexPath
<1>r. call[c] \in CallType  OBVIOUS
<1>t. TmpTree(c) \in Trees /\ Files(TmpTree(c)) \subseteq Paths  BY DEF TmpTree, Files
<1>s. StagedBy(c)  BY DEF Staged
<1>f. Visible(worktree) \subseteq Paths /\ Listing \subseteq Paths  BY ReadingsType DEF Listing
<1>h. tmp = [tmp EXCEPT ![c] = tmp[c]]  OBVIOUS
<1>1. CASE ensureGitRepo(c)
  <2>1. PICK r \in CallType : /\ call' = [call EXCEPT ![c] = r]
                              /\ r = [call[c] EXCEPT !.pc = "scan"]
    BY <1>1, <1>r DEF ensureGitRepo, CallType, Labels
  <2>3. /\ call'[c] = r /\ r.pc = "scan" /\ r.op = call[c].op /\ r.name = call[c].name
        /\ r.mem = call[c].mem
    BY <1>r, <2>1 DEF CallType
  <2>2. StagedBy(c)'  BY <1>1, <1>s, <2>3 DEF ensureGitRepo, StagedBy
  <2>7. /\ Running(c) /\ tmp' = [tmp EXCEPT ![c] = tmp[c]] /\ repo' \in BOOLEAN
        /\ UNCHANGED <<worktree, tracked, refs, writes, seen, start, clean>>
    BY <1>1 DEF ensureGitRepo, history, Running
  <2>. QED  BY <2>1, <2>2, <2>3, <2>7, QuietStep
<1>2. CASE Scan(c)
  <2>1. PICK r \in CallType : /\ call' = [call EXCEPT ![c] = r]
                              /\ r = [call[c] EXCEPT !.pc = "add", !.todo = Visible(worktree)]
    BY <1>2, <1>r, <1>f DEF Scan, CallType, Labels
  <2>2. call'[c] = r /\ call[c].mem = Empty /\ r.mem = Empty /\ r.pc = "add" /\ r.op = call[c].op
        /\ r.name = call[c].name /\ r.todo = Visible(worktree)
    BY <1>2, <1>r, <1>s, <2>1 DEF Scan, StagedBy, CallType
  <2>3. Making(c)' => Making(c)  BY <1>2, <2>1, <2>2 DEF Scan, Making, Running
  <2>4. ASSUME Making(c)', NEW p \in Paths \ Visible(worktree)  PROVE Empty[p] \in seen[c][p]
    BY <2>3, <2>4, ReadingsType DEF SeenNow, Empty
  <2>5. StagedBy(c)'  BY <1>2, <2>2, <2>4 DEF Scan, StagedBy, history
  <2>7. /\ Running(c) /\ tmp' = [tmp EXCEPT ![c] = tmp[c]] /\ repo' = repo
        /\ UNCHANGED <<worktree, tracked, refs, writes, seen, start, clean>>
    BY <1>2 DEF Scan, history, Running
  <2>. QED  BY <2>1, <2>2, <2>5, <2>7, QuietStep
<1>3. CASE AddDone(c)
  <2>1. PICK r \in CallType : /\ call' = [call EXCEPT ![c] = r]
                              /\ r = [call[c] EXCEPT !.pc = "write"]
    BY <1>3, <1>r DEF AddDone, CallType, Labels
  <2>2. call'[c] = r /\ r.pc = "write" /\ r.op = call[c].op /\ r.name = call[c].name
    BY <1>r, <2>1 DEF CallType
  <2>3. tmp' = [tmp EXCEPT ![c] = call[c].mem] /\ call[c].mem \in Trees  BY <1>3, <1>r DEF AddDone, CallType
  <2>4. Making(c)' => Making(c)  BY <1>3, <2>2 DEF AddDone, Making, Running
  <2>5. StagedBy(c)'  BY <1>3, <1>s, <2>2, <2>3, <2>4 DEF AddDone, StagedBy, history, Witnessed
  <2>7. /\ Running(c) /\ repo' = repo
        /\ UNCHANGED <<worktree, tracked, refs, writes, seen, start, clean>>
    BY <1>3 DEF AddDone, history, Running
  <2>. QED  BY <2>1, <2>2, <2>3, <2>5, <2>7, QuietStep
<1>4. CASE WriteTree(c)
  <2>0. PICK l \in Labels : /\ l = IF call[c].op = "create" THEN "publish" ELSE "compare"
                            /\ call' = [call EXCEPT ![c].mem = TmpTree(c), ![c].pc = l]
    BY <1>4 DEF WriteTree, Labels
  <2>1. PICK r \in CallType : /\ call' = [call EXCEPT ![c] = r]
                              /\ r = [call[c] EXCEPT !.pc = l, !.mem = TmpTree(c)]
    BY <2>0, <1>r, <1>t DEF CallType
  <2>2. /\ call'[c] = r /\ r.op = call[c].op /\ r.name = call[c].name /\ r.mem = TmpTree(c)
        /\ r.pc = IF call[c].op = "create" THEN "publish" ELSE "compare"
    BY <1>r, <2>0, <2>1 DEF CallType
  <2>3. call[c].op = "create" => Witnessed(c, TmpTree(c))
    BY <1>4, <1>s DEF WriteTree, StagedBy, Making, Running, TmpTree
  <2>5. StagedBy(c)'  BY <1>4, <2>2, <2>3 DEF WriteTree, StagedBy, history, Witnessed
  <2>6. /\ Running(c) /\ tmp' = [tmp EXCEPT ![c] = tmp[c]] /\ repo' = repo
        /\ UNCHANGED <<worktree, tracked, refs, writes, seen, start, clean>>
    BY <1>4 DEF WriteTree, history, Running
  <2>7. r.pc \notin {"idle", "done", "failed"}  BY <2>2
  <2>. QED  BY <2>1, <2>2, <2>5, <2>6, <2>7, QuietStep
<1>5. CASE listWorktreePaths(c)
  <2>0. PICK l \in SUBSET Paths : call' = [call EXCEPT ![c].before = l, ![c].pc = "read"]
    BY <1>5, <1>f DEF listWorktreePaths
  <2>1. PICK r \in CallType : /\ call' = [call EXCEPT ![c] = r]
                              /\ r = [call[c] EXCEPT !.before = l, !.pc = "read"]
    BY <2>0, <1>r DEF CallType, Labels
  <2>2. call'[c] = r /\ r.pc = "read" /\ r.op = call[c].op /\ r.name = call[c].name
    BY <1>r, <2>1 DEF CallType
  <2>3. StagedBy(c)'  BY <1>5, <1>s, <2>2 DEF StagedBy, listWorktreePaths
  <2>7. /\ Running(c) /\ tmp' = [tmp EXCEPT ![c] = tmp[c]] /\ repo' = repo
        /\ UNCHANGED <<worktree, tracked, refs, writes, seen, start, clean>>
    BY <1>5 DEF listWorktreePaths, history, Running
  <2>. QED  BY <2>1, <2>2, <2>3, <2>7, QuietStep
<1>6. CASE ReadTree(c)
  <2>1. PICK r \in CallType : /\ call' = [call EXCEPT ![c] = r]
                              /\ r = [call[c] EXCEPT !.pc = "load"]
    BY <1>6, <1>r DEF ReadTree, CallType, Labels
  <2>2. call'[c] = r /\ r.pc = "load" /\ r.op = call[c].op /\ r.name = call[c].name
    BY <1>r, <2>1 DEF CallType
  <2>3. Running(c)  BY <1>6 DEF ReadTree, Running
  <2>4. refs[call[c].name] \in Trees \cup {NoTree, Litter}  BY <2>3
  <2>5. tmp' = [tmp EXCEPT ![c] = refs[call[c].name]]  BY <1>6 DEF ReadTree
  <2>6. StagedBy(c)'  BY <1>6, <1>s, <2>2 DEF StagedBy, ReadTree
  <2>. QED  BY <1>6, <2>1, <2>2, <2>3, <2>4, <2>5, <2>6, QuietStep DEF ReadTree, history
<1>7. CASE CheckoutIndex(c)
  <2>1. PICK r \in CallType :
           /\ call' = [call EXCEPT ![c] = r]
           /\ r = [call[c] EXCEPT !.mem = TmpTree(c), !.todo = Files(TmpTree(c)), !.pc = "checkout"]
    BY <1>7, <1>r, <1>t DEF CheckoutIndex, CallType, Labels
  <2>2. call'[c] = r /\ r.pc = "checkout" /\ r.op = call[c].op /\ r.name = call[c].name
    BY <1>r, <2>1 DEF CallType
  <2>3. StagedBy(c)'  BY <1>7, <1>s, <2>2 DEF StagedBy, CheckoutIndex
  <2>4. /\ Running(c) /\ tmp' = [tmp EXCEPT ![c] = tmp[c]] /\ repo' = repo
        /\ UNCHANGED <<worktree, tracked, refs, writes, seen, start, clean>>
    BY <1>7 DEF CheckoutIndex, history, Running
  <2>. QED  BY <2>1, <2>2, <2>3, <2>4, QuietStep
<1>8. CASE snapshotPathSet(c)
  <2>0. call[c].before \ Files(TmpTree(c)) \in SUBSET Paths  BY <1>r DEF CallType
  <2>1. PICK r \in CallType :
           /\ call' = [call EXCEPT ![c] = r]
           /\ r = [call[c] EXCEPT !.todo = call[c].before \ Files(TmpTree(c)), !.pc = "remove"]
    BY <1>8, <1>r, <2>0 DEF snapshotPathSet, CallType, Labels
  <2>2. call'[c] = r /\ r.pc = "remove" /\ r.op = call[c].op /\ r.name = call[c].name
    BY <1>r, <2>1 DEF CallType
  <2>3. StagedBy(c)'  BY <1>8, <1>s, <2>2 DEF StagedBy, snapshotPathSet
  <2>7. /\ Running(c) /\ tmp' = [tmp EXCEPT ![c] = tmp[c]] /\ repo' = repo
        /\ UNCHANGED <<worktree, tracked, refs, writes, seen, start, clean>>
    BY <1>8 DEF snapshotPathSet, history, Running
  <2>. QED  BY <2>1, <2>2, <2>3, <2>7, QuietStep
<1>9. ASSUME NEW p \in Paths, AddFile(c, p)
      PROVE  /\ IInv' /\ \A d \in Calls : MakingName(d)' = MakingName(d) /\ Told(d)' = Told(d)
             /\ UNCHANGED <<worktree, refs, seen>>
  <2>0. worktree[p] \in Contents \cup {Absent}  BY DEF Trees
  <2>1. [call[c].mem EXCEPT ![p] = worktree[p]] \in Trees /\ call[c].todo \ {p} \in SUBSET Paths
    BY <1>r, <2>0 DEF CallType, Trees
  <2>2. PICK r \in CallType :
           /\ call' = [call EXCEPT ![c] = r]
           /\ r = [call[c] EXCEPT !.mem = [call[c].mem EXCEPT ![p] = worktree[p]],
                                  !.todo = call[c].todo \ {p}]
    BY <1>9, <1>r, <2>1 DEF AddFile, CallType
  <2>3. /\ call'[c] = r /\ r.pc = "add" /\ r.op = call[c].op /\ r.name = call[c].name
        /\ r.mem = [call[c].mem EXCEPT ![p] = worktree[p]] /\ r.todo = call[c].todo \ {p}
    BY <1>9, <1>r, <2>2 DEF AddFile, CallType
  <2>4. Making(c)' => Making(c)  BY <1>9, <2>3 DEF AddFile, Making, Running
  <2>5. ASSUME Making(c)', NEW q \in Paths \ r.todo  PROVE r.mem[q] \in seen[c][q]
    <3>1. CASE q = p
      <4>1. r.mem[q] = worktree[q]  BY <1>r, <2>3, <3>1 DEF CallType, Trees
      <4>. QED  BY <4>1, <2>4, <2>5, ReadingsType DEF SeenNow
    <3>2. CASE q # p
      <4>1. r.mem[q] = call[c].mem[q] /\ q \notin call[c].todo  BY <1>r, <2>3, <3>2 DEF CallType, Trees
      <4>. QED  BY <4>1, <1>9, <1>s, <2>4, <2>5 DEF StagedBy, AddFile
    <3>. QED  BY <3>1, <3>2
  <2>6. StagedBy(c)'  BY <1>9, <2>3, <2>5 DEF StagedBy, AddFile, history
  <2>7. /\ Running(c) /\ tmp' = [tmp EXCEPT ![c] = tmp[c]] /\ repo' = repo
        /\ UNCHANGED <<worktree, tracked, refs, writes, seen, start, clean>>
    BY <1>9 DEF AddFile, history, Running
  <2>. QED  BY <2>2, <2>3, <2>6, <2>7, QuietStep
<1>. QED  BY <1>1, <1>2, <1>3, <1>4, <1>5, <1>6, <1>7, <1>8, <1>9

\* A call or somebody else puts a value at a path: every create call under
\* way takes note, so all that was witnessed stays witnessed.
LEMMA PutStep ==
    ASSUME IInv, NEW p \in Paths, NEW v \in Contents \cup {Absent}, NEW self, Put(p, v, self),
           call' \in [Calls -> CallType], writes' \in Nat,
           \A d \in Calls : /\ call'[d].op = call[d].op /\ call'[d].name = call[d].name
                            /\ call'[d].pc = call[d].pc /\ call'[d].mem = call[d].mem
                            /\ call[d].pc = "add" => call'[d].todo = call[d].todo,
           UNCHANGED <<tracked, refs, repo, tmp>>
    PROVE  /\ IInv'
           /\ worktree' \in Trees
           /\ \A d \in Calls : MakingName(d)' = MakingName(d) /\ Told(d)' = Told(d)
           /\ seen' = [d \in Calls |->
                         IF Making(d) THEN [q \in Paths |-> seen[d][q] \cup Readings(worktree')[q]]
                         ELSE seen[d]]
<1>p. USE Parts
<1>1. worktree' \in Trees  BY DEF Put, Trees
<1>2. Readings(worktree') \in [Paths -> SUBSET (Contents \cup {Absent})]  BY <1>1, ReadingsType
<1>3. seen' = [d \in Calls |->
                 IF Making(d) THEN [q \in Paths |-> seen[d][q] \cup Readings(worktree')[q]]
                 ELSE seen[d]]
  BY DEF Put
<1>4. \A d \in Calls : /\ Making(d) => seen'[d] = [q \in Paths |-> seen[d][q] \cup Readings(worktree')[q]]
                       /\ ~Making(d) => seen'[d] = seen[d]
  BY <1>3
<1>5. \A d \in Calls : seen'[d] \in [Paths -> SUBSET (Contents \cup {Absent})]
  <2>. SUFFICES ASSUME NEW d \in Calls PROVE seen'[d] \in [Paths -> SUBSET (Contents \cup {Absent})]
    OBVIOUS
  <2>. DEFINE W == Readings(worktree')
  <2>1. seen[d] \in [Paths -> SUBSET (Contents \cup {Absent})]  OBVIOUS
  <2>2. W \in [Paths -> SUBSET (Contents \cup {Absent})]  BY <1>2
  <2>3. seen'[d] = [q \in Paths |-> seen[d][q] \cup W[q]] \/ seen'[d] = seen[d]  BY <1>4
  <2>. HIDE Parts DEF W
  <2>. QED  BY <2>1, <2>2, <2>3
<1>6. seen' \in [Calls -> [Paths -> SUBSET (Contents \cup {Absent})]]  BY <1>3, <1>5
<1>7. clean' \in [Calls -> BOOLEAN] /\ start' = start  BY DEF Put
<1>8. \A d \in Calls : (Running(d)' <=> Running(d)) /\ (Making(d)' <=> Making(d))
  BY DEF Running, Making
<1>9. \A d \in Calls : \A q \in Paths : seen[d][q] \subseteq seen'[d][q]
  <2>. SUFFICES ASSUME NEW d \in Calls, NEW q \in Paths PROVE seen[d][q] \subseteq seen'[d][q]
    OBVIOUS
  <2>. HIDE Parts
  <2>1. CASE Making(d)
    <3>1. seen'[d][q] = seen[d][q] \cup Readings(worktree')[q]  BY <1>4, <2>1
    <3>. QED  BY <3>1
  <2>2. CASE ~Making(d)  BY <1>4, <2>2
  <2>. QED  BY <2>1, <2>2
<1>a. ASSUME NEW d \in Calls, Making(d), NEW q \in Paths
      PROVE  Readings(worktree')[q] \subseteq seen'[d][q]
  <2>. HIDE Parts
  <2>1. seen'[d][q] = seen[d][q] \cup Readings(worktree')[q]  BY <1>4, <1>a
  <2>. QED  BY <2>1
<1>10. SeenWhileMaking'  BY <1>4, <1>8 DEF SeenWhileMaking
<1>11. SeenNow'
  <2>. HIDE Parts
  <2>1. \A d \in Calls : Making(d)' => \A q \in Paths : Readings(worktree')[q] \subseteq seen'[d][q]
    BY <1>8, <1>a
  <2>. QED  BY <2>1 DEF SeenNow
<1>12. ASSUME NEW d \in Calls  PROVE StagedBy(d)'
  <2>1. StagedBy(d)  BY DEF Staged
  <2>. HIDE Parts
  <2>2. \A q \in Paths : seen[d][q] \subseteq seen'[d][q]  BY <1>9
  <2>3. \A t : Witnessed(d, t) => \A q \in Paths : t[q] \in seen'[d][q]  BY <2>2 DEF Witnessed
  <2>4. Making(d)' <=> Making(d)  BY <1>8
  <2>5. call[d].pc = "publish" => \A q \in Paths : call[d].mem[q] \in seen'[d][q]
    BY <2>1, <2>3 DEF StagedBy
  <2>6. (Making(d) /\ call[d].pc = "write") => \A q \in Paths : tmp[d][q] \in seen'[d][q]
    BY <2>1, <2>3 DEF StagedBy
  <2>7. (Making(d) /\ call[d].pc = "add") =>
           \A q \in Paths \ call[d].todo : call[d].mem[q] \in seen'[d][q]
    BY <2>1, <2>2 DEF StagedBy
  <2>. QED  BY <2>1, <2>4, <2>5, <2>6, <2>7 DEF StagedBy, Witnessed
<1>13. Staged'  BY <1>12 DEF Staged
<1>14. IndexFilesAreOwned'  BY <1>8 DEF IndexFilesAreOwned, tempIndexPath
<1>15. \A d \in Calls : /\ Running(d)' => call'[d].name \in Names
                        /\ (Running(d)' /\ ~Making(d)') => refs'[call'[d].name] \in Trees
  BY <1>8
<1>16. IInv'
  BY <1>1, <1>6, <1>7, <1>10, <1>11, <1>13, <1>14, <1>15 DEF IInv, TypeOK, CallType, Ops, Labels
<1>17. \A d \in Calls : Told(d)' = Told(d)  BY DEF Told
<1>. QED  BY <1>1, <1>3, <1>8, <1>16, <1>17 DEF MakingName

\* A handler returns, the snapshot it made published or not.
LEMMA EndStep ==
    ASSUME IInv, NEW c \in Calls, NEW l \in {"done", "failed"}, Running(c), Return(c, l),
           NEW x \in {NoTree, Litter}, tmp' = [tmp EXCEPT ![c] = x],
           \/ refs' = refs
           \/ \E n \in Names, t \in Trees : refs' = [refs EXCEPT ![n] = t]
    PROVE  /\ IInv'
           /\ MakingName(c)' = NoName
           /\ Told(c) = "none" /\ Told(c)' = IF call[c].op = "create" THEN l ELSE "none"
           /\ \A d \in Calls \ {c} : MakingName(d)' = MakingName(d) /\ Told(d)' = Told(d)
           /\ seen' = [seen EXCEPT ![c] = NothingSeen]
           /\ worktree' = worktree
<1>p. USE Parts DEF tempIndexPath
<1>. DEFINE r == [At(l) EXCEPT !.op = call[c].op]
<1>1. /\ call' = [call EXCEPT ![c] = r] /\ seen' = [seen EXCEPT ![c] = NothingSeen]
      /\ start' = [start EXCEPT ![c] = Empty] /\ clean' = [clean EXCEPT ![c] = FALSE]
      /\ UNCHANGED <<worktree, tracked, repo, writes>>
  BY DEF Return
<1>2. r \in CallType /\ r.pc = l /\ r.op = call[c].op
  <2>1. At(l) \in CallType /\ call[c].op \in Ops  BY AtType DEF Labels, CallType
  <2>2. r \in CallType /\ r.op = call[c].op  BY <2>1 DEF CallType
  <2>3. r.pc = l  BY DEF At
  <2>. QED  BY <2>2, <2>3
<1>. HIDE DEF r
<1>3. /\ call' \in [Calls -> CallType] /\ call'[c] = r
      /\ \A d \in Calls \ {c} : call'[d] = call[d] /\ seen'[d] = seen[d] /\ tmp'[d] = tmp[d]
      /\ seen'[c] = NothingSeen /\ tmp'[c] = x
  BY <1>1, <1>2
<1>4. NothingSeen \in [Paths -> SUBSET (Contents \cup {Absent})]  BY DEF NothingSeen
<1>5. /\ seen' \in [Calls -> [Paths -> SUBSET (Contents \cup {Absent})]]
      /\ start' \in [Calls -> Trees] /\ clean' \in [Calls -> BOOLEAN]
      /\ tmp' \in [Calls -> Trees \cup {NoTree, Litter}]
      /\ x \notin Trees
  BY <1>1, <1>4, EmptyType, NoTreeAssumption, SnapshotAssumption
<1>6. /\ refs' \in [Names -> Trees \cup {NoTree}]
      /\ \A n \in Names : refs[n] \in Trees => refs'[n] \in Trees
  <2>1. CASE refs' = refs  BY <2>1
  <2>2. CASE \E n \in Names, t \in Trees : refs' = [refs EXCEPT ![n] = t]  BY <2>2
  <2>. QED  BY <2>1, <2>2
<1>7. ~Running(c)' /\ ~Making(c)'  BY <1>2, <1>3 DEF Running, Making
<1>8. \A d \in Calls \ {c} : (Running(d)' <=> Running(d)) /\ (Making(d)' <=> Making(d))
  BY <1>3 DEF Running, Making
<1>9. SeenWhileMaking' /\ SeenNow'
  BY <1>1, <1>3, <1>7, <1>8 DEF SeenWhileMaking, SeenNow
<1>10. StagedBy(c)'  BY <1>2, <1>3, <1>7 DEF StagedBy
<1>11. \A d \in Calls \ {c} : StagedBy(d)'  BY <1>3, <1>8 DEF Staged, StagedBy, Witnessed
<1>12. Staged'  BY <1>10, <1>11 DEF Staged
<1>13. IndexFilesAreOwned'  BY <1>3, <1>5, <1>8 DEF IndexFilesAreOwned
<1>14. \A d \in Calls : /\ Running(d)' => call'[d].name \in Names
                        /\ (Running(d)' /\ ~Making(d)') => refs'[call'[d].name] \in Trees
  BY <1>3, <1>6, <1>7, <1>8
<1>15. IInv'
  BY <1>1, <1>3, <1>5, <1>6, <1>9, <1>12, <1>13, <1>14 DEF IInv, TypeOK, CallType, Ops, Labels
<1>16. Told(c) = "none" /\ Told(c)' = IF call[c].op = "create" THEN l ELSE "none"
  BY <1>2, <1>3 DEF Told, Running
<1>17. \A d \in Calls \ {c} : Told(d)' = Told(d)  BY <1>3 DEF Told
<1>. QED  BY <1>1, <1>3, <1>7, <1>8, <1>15, <1>16, <1>17 DEF MakingName

\* A handler accepts a request.
LEMMA BeginStep ==
    ASSUME IInv, NEW c \in Calls, NEW o \in Ops, NEW n \in Names, NEW l \in Labels,
           l \in {"init", "scan"} \/ (l = "inventory" /\ o # "create"), Begin(c, o, n, l),
           o # "create" => refs[n] \in Trees
    PROVE  /\ IInv'
           /\ MakingName(c) = NoName
           /\ MakingName(c)' = IF o = "create" THEN n ELSE NoName
           /\ Told(c) = "none" /\ \A d \in Calls : Told(d)' = Told(d)
           /\ \A d \in Calls \ {c} : MakingName(d)' = MakingName(d)
           /\ seen' = IF o = "create" THEN [seen EXCEPT ![c] = Readings(worktree)] ELSE seen
           /\ UNCHANGED <<worktree, refs>>
<1>p. USE Parts
<1>. DEFINE r == [At(l) EXCEPT !.op = o, !.name = n]
<1>1. /\ call[c].pc = "idle" /\ call' = [call EXCEPT ![c] = r]
      /\ seen' = [seen EXCEPT ![c] = IF o = "create" THEN Readings(worktree) ELSE NothingSeen]
      /\ start' = [start EXCEPT ![c] = IF o = "restore" THEN worktree ELSE Empty]
      /\ clean' = [clean EXCEPT ![c] = TRUE]
      /\ UNCHANGED <<worktree, tracked, refs, repo, tmp, writes>>
  BY DEF Begin
<1>2. r \in CallType /\ r.pc = l /\ r.op = o /\ r.name = n /\ r.mem = Empty
  BY AtType DEF At, CallType
<1>. HIDE DEF r
<1>3. /\ call' \in [Calls -> CallType] /\ call'[c] = r
      /\ \A d \in Calls \ {c} : call'[d] = call[d] /\ seen'[d] = seen[d]
      /\ seen'[c] = IF o = "create" THEN Readings(worktree) ELSE NothingSeen
  BY <1>1, <1>2
<1>4. /\ NothingSeen \in [Paths -> SUBSET (Contents \cup {Absent})]
      /\ Readings(worktree) \in [Paths -> SUBSET (Contents \cup {Absent})]
  BY ReadingsType DEF NothingSeen
<1>5. /\ seen' \in [Calls -> [Paths -> SUBSET (Contents \cup {Absent})]]
      /\ start' \in [Calls -> Trees] /\ clean' \in [Calls -> BOOLEAN]
  BY <1>1, <1>4, EmptyType
<1>6. /\ ~Running(c) /\ ~Making(c) /\ Running(c)' /\ (Making(c)' <=> o = "create")
  BY <1>1, <1>2, <1>3 DEF Running, Making
<1>7. \A d \in Calls \ {c} : (Running(d)' <=> Running(d)) /\ (Making(d)' <=> Making(d))
  BY <1>3 DEF Running, Making
<1>8. SeenWhileMaking'  BY <1>3, <1>6, <1>7 DEF SeenWhileMaking
<1>9. SeenNow'
  <2>1. \A q \in Paths : Making(c)' => Readings(worktree')[q] \subseteq seen'[c][q]
    BY <1>1, <1>3, <1>6
  <2>. QED  BY <1>1, <1>3, <1>7, <2>1 DEF SeenNow
<1>10. StagedBy(c)'  BY <1>2, <1>3 DEF StagedBy
<1>11. \A d \in Calls \ {c} : StagedBy(d)'  BY <1>1, <1>3, <1>7 DEF Staged, StagedBy, Witnessed
<1>12. Staged'  BY <1>10, <1>11 DEF Staged
<1>13. IndexFilesAreOwned'  BY <1>1, <1>6, <1>7 DEF IndexFilesAreOwned, tempIndexPath
<1>14. \A d \in Calls : /\ Running(d)' => call'[d].name \in Names
                        /\ (Running(d)' /\ ~Making(d)') => refs'[call'[d].name] \in Trees
  BY <1>1, <1>2, <1>3, <1>6, <1>7
<1>15. IInv'
  BY <1>1, <1>3, <1>5, <1>8, <1>9, <1>12, <1>13, <1>14 DEF IInv, TypeOK, CallType, Ops, Labels
<1>16. seen' = IF o = "create" THEN [seen EXCEPT ![c] = Readings(worktree)] ELSE seen
  <2>1. seen[c] = NothingSeen  BY <1>6 DEF SeenWhileMaking
  <2>. QED  BY <1>1, <2>1
<1>17. Told(c) = "none" /\ Told(c)' = "none"  BY <1>1, <1>2, <1>3 DEF Told
<1>18. \A d \in Calls : Told(d)' = Told(d)  BY <1>3, <1>17 DEF Told
<1>. QED  BY <1>1, <1>2, <1>3, <1>6, <1>7, <1>15, <1>16, <1>17, <1>18 DEF MakingName

-----------------------------------------------------------------------------
\* The names the store is written in mean the same here.
LEMMA StoreNames ==
    /\ Store!Trees = Trees /\ Store!NothingSeen = NothingSeen
    /\ \A t : Store!Readings(t) = Readings(t)
BY DEF Store!Trees, Trees, Store!NothingSeen, NothingSeen, Store!Readings, Readings,
       Store!Ignored, Ignored

\* A create call under way is one the store sees.
LEMMA MakingIsNamed ==
    ASSUME IInv, NEW c \in Calls
    PROVE  MakingName(c) = NoName <=> ~Making(c)
BY Parts, WorktreeAssumption DEF MakingName, Making

\* A step that leaves the workspace, the refs and the creates under way alone
\* is no step of the store.
LEMMA StoreStutter ==
    ASSUME \A d \in Calls : MakingName(d)' = MakingName(d) /\ Told(d)' = Told(d),
           UNCHANGED <<worktree, refs, seen>>
    PROVE  UNCHANGED Store!storeVars
BY DEF Store!storeVars, MakingName, Told

\* Putting a value at a path is a Change of the store.
LEMMA StoreChange ==
    ASSUME IInv, worktree' \in Trees, refs' = refs,
           \A d \in Calls : MakingName(d)' = MakingName(d) /\ Told(d)' = Told(d),
           seen' = [d \in Calls |->
                      IF Making(d) THEN [q \in Paths |-> seen[d][q] \cup Readings(worktree')[q]]
                      ELSE seen[d]]
    PROVE  Store!Next
<1>1. \A d \in Calls : MakingName(d) = NoName <=> ~Making(d)  BY MakingIsNamed
<1>2. seen' = [d \in Calls |->
                 IF MakingName(d) = NoName THEN seen[d]
                 ELSE [q \in Paths |-> seen[d][q] \cup Readings(worktree')[q]]]
  BY <1>1
<1>3. Store!Change  BY <1>2, StoreNames DEF Store!Change, MakingName, Told
<1>. QED  BY <1>3 DEF Store!Next

\* The return of a handler is Publish or Abort for a create, nothing for the
\* others.
LEMMA StoreEnd ==
    ASSUME IInv, NEW c \in Calls, NEW l \in {"done", "failed"}, MakingName(c)' = NoName,
           Told(c) = "none", Told(c)' = IF call[c].op = "create" THEN l ELSE "none", Running(c),
           \A d \in Calls \ {c} : MakingName(d)' = MakingName(d) /\ Told(d)' = Told(d),
           seen' = [seen EXCEPT ![c] = NothingSeen], worktree' = worktree,
           \/ refs' = refs /\ (Making(c) => l = "failed")
           \/ /\ Making(c) /\ call[c].mem \in Trees /\ Witnessed(c, call[c].mem)
              /\ refs' = [refs EXCEPT ![call[c].name] = call[c].mem]
    PROVE  Store!Next \/ UNCHANGED Store!storeVars
<1>. DEFINE mk == [d \in Calls |-> MakingName(d)]
            td == [d \in Calls |-> Told(d)]
<1>1. mk' = [mk EXCEPT ![c] = NoName]  OBVIOUS
<1>2. mk = [d \in Calls |-> IF Making(d) THEN call[d].name ELSE NoName]  BY DEF MakingName
<1>t. td = [d \in Calls |-> IF call[d].op = "create" /\ call[d].pc \in {"done", "failed"}
                            THEN call[d].pc ELSE "none"]
  BY DEF Told
<1>m. mk' = [d \in Calls |-> IF Making(d) THEN call[d].name ELSE NoName]' /\
      td' = [d \in Calls |-> IF call[d].op = "create" /\ call[d].pc \in {"done", "failed"}
                             THEN call[d].pc ELSE "none"]'
  BY DEF MakingName, Told
<1>3. CASE ~Making(c)
  <2>1. seen[c] = NothingSeen  BY <1>3, Parts DEF SeenWhileMaking
  <2>2. UNCHANGED <<worktree, refs, seen>>  BY <1>3, <2>1, Parts
  <2>3. \A d \in Calls : MakingName(d)' = MakingName(d)  BY <1>3 DEF MakingName
  <2>4. \A d \in Calls : Told(d)' = Told(d)  BY <1>3 DEF Making
  <2>. QED  BY <2>2, <2>3, <2>4, StoreStutter
<1>4. CASE Making(c)
  <2>1. mk[c] # NoName /\ mk[c] = call[c].name  BY <1>4, MakingIsNamed DEF MakingName
  <2>t. td' = [td EXCEPT ![c] = l]  BY <1>4 DEF Making
  <2>2. CASE refs' = refs /\ l = "failed"
    <3>. HIDE DEF mk, td
    <3>1. Store!Abort(c)  BY <1>1, <1>2, <1>t, <1>m, <2>1, <2>t, <2>2, StoreNames DEF Store!Abort
    <3>. QED  BY <3>1 DEF Store!Next
  <2>3. CASE ~(refs' = refs /\ l = "failed")
    <3>1. /\ call[c].mem \in Trees /\ \A p \in Paths : call[c].mem[p] \in seen[c][p]
          /\ refs' = [refs EXCEPT ![mk[c]] = call[c].mem]
      BY <1>4, <2>1, <2>3 DEF Witnessed
    <3>. HIDE DEF mk, td
    <3>2. Store!Publish(c)  BY <1>1, <1>2, <1>t, <1>m, <2>1, <2>t, <3>1, StoreNames DEF Store!Publish
    <3>. QED  BY <3>2 DEF Store!Next
  <2>. QED  BY <2>2, <2>3
<1>. QED  BY <1>3, <1>4

\* Accepting a create is Begin; the other requests the store does not see.
LEMMA StoreBegin ==
    ASSUME IInv, NEW c \in Calls, NEW n \in Names, NEW o \in Ops, MakingName(c) = NoName,
           MakingName(c)' = IF o = "create" THEN n ELSE NoName,
           \A d \in Calls \ {c} : MakingName(d)' = MakingName(d),
           Told(c) = "none", \A d \in Calls : Told(d)' = Told(d),
           seen' = IF o = "create" THEN [seen EXCEPT ![c] = Readings(worktree)] ELSE seen,
           UNCHANGED <<worktree, refs>>
    PROVE  Store!Next \/ UNCHANGED Store!storeVars
<1>. DEFINE mk == [d \in Calls |-> MakingName(d)]
            td == [d \in Calls |-> Told(d)]
<1>1. /\ mk = [d \in Calls |-> IF Making(d) THEN call[d].name ELSE NoName]
      /\ mk' = [d \in Calls |-> IF Making(d) THEN call[d].name ELSE NoName]'
  BY DEF MakingName
<1>t. /\ td = [d \in Calls |-> IF call[d].op = "create" /\ call[d].pc \in {"done", "failed"}
                               THEN call[d].pc ELSE "none"]
      /\ td' = [d \in Calls |-> IF call[d].op = "create" /\ call[d].pc \in {"done", "failed"}
                                THEN call[d].pc ELSE "none"]'
  BY DEF Told
<1>2. CASE o = "create"
  <2>1. mk' = [mk EXCEPT ![c] = n] /\ mk[c] = NoName /\ td[c] = "none" /\ td' = td  BY <1>2
  <2>. HIDE DEF mk, td
  <2>2. Store!Begin(c, n)  BY <1>1, <1>t, <1>2, <2>1, StoreNames DEF Store!Begin
  <2>. QED  BY <2>2 DEF Store!Next
<1>3. CASE o # "create"  BY <1>3, StoreStutter
<1>. QED  BY <1>2, <1>3

\* The steps of one call.
LEMMA CallStep ==
    ASSUME IInv, NEW c \in Calls,
           \/ \E n \in Names : \/ HandleSnapshotCreate(c, n)
                               \/ HandleSnapshotDiff(c, n)
                               \/ HandleSnapshotRestore(c, n)
           \/ SnapshotNotFound(c) \/ UpdateRef(c) \/ diffSnapshot(c) \/ diffPathSets(c)
           \/ Fail(c) \/ KilledWithLock(c) \/ KilledAfterUpdate(c)
           \/ \E p \in Paths : TearFile(c, p) \/ CheckoutFile(c, p) \/ removeExtrasNotInSnapshot(c, p)
    PROVE  IInv' /\ (Store!Next \/ UNCHANGED Store!storeVars)
<1>r. call[c] \in CallType /\ StagedBy(c) /\ (Running(c) => call[c].name \in Names)
      /\ worktree \in Trees
  BY Parts DEF Staged
<1>1. ASSUME NEW n \in Names, HandleSnapshotCreate(c, n)
      PROVE  IInv' /\ (Store!Next \/ UNCHANGED Store!storeVars)
  <2>1. PICK l \in Labels : l \in {"init", "scan"} /\ Begin(c, "create", n, l)
    BY <1>1 DEF HandleSnapshotCreate, Labels
  <2>. QED  BY <2>1, BeginStep, StoreBegin DEF Ops
<1>2. ASSUME NEW n \in Names, HandleSnapshotDiff(c, n) \/ HandleSnapshotRestore(c, n)
      PROVE  IInv' /\ (Store!Next \/ UNCHANGED Store!storeVars)
  <2>1. PICK o \in Ops, l \in Labels : /\ o # "create" /\ l \in {"scan", "inventory"}
                                       /\ Begin(c, o, n, l)
    BY <1>2 DEF HandleSnapshotDiff, HandleSnapshotRestore, Ops, Labels
  <2>2. refs[n] \in Trees
    BY <1>2, Parts DEF HandleSnapshotDiff, HandleSnapshotRestore, snapshotExists
  <2>. QED  BY <2>1, <2>2, BeginStep, StoreBegin
<1>3. CASE SnapshotNotFound(c)
  <2>. DEFINE r == [At("failed") EXCEPT !.op = "restore"]
  <2>1. /\ call[c].pc = "idle" /\ call' = [call EXCEPT ![c] = r]
        /\ UNCHANGED <<worktree, tracked, refs, repo, tmp, writes, seen, start, clean>>
    BY <1>3 DEF SnapshotNotFound, history
  <2>2. r \in CallType /\ r.pc = "failed" /\ r.op = "restore"
    BY AtType DEF At, Labels, CallType, Ops
  <2>. HIDE DEF r
  <2>3. /\ call' \in [Calls -> CallType] /\ call'[c] = r
        /\ \A d \in Calls \ {c} : call'[d] = call[d]
    BY <2>1, <2>2, Parts
  <2>4. /\ ~Running(c) /\ ~Making(c) /\ ~Running(c)' /\ ~Making(c)'
        /\ \A d \in Calls \ {c} : (Running(d)' <=> Running(d)) /\ (Making(d)' <=> Making(d))
    BY <2>1, <2>2, <2>3 DEF Running, Making
  <2>5. \A d \in Calls : MakingName(d)' = MakingName(d) /\ Told(d)' = Told(d)
    BY <2>1, <2>2, <2>3, <2>4 DEF MakingName, Told
  <2>6. SeenWhileMaking' /\ SeenNow'  BY <2>1, <2>4, Parts DEF SeenWhileMaking, SeenNow
  <2>7. StagedBy(c)'  BY <2>2, <2>3, <2>4 DEF StagedBy
  <2>8. \A d \in Calls \ {c} : StagedBy(d)'
    BY <2>1, <2>3, <2>4, Parts DEF Staged, StagedBy, Witnessed
  <2>9. Staged' /\ IndexFilesAreOwned'
    BY <2>1, <2>4, <2>7, <2>8, Parts DEF Staged, IndexFilesAreOwned, tempIndexPath
  <2>10. \A d \in Calls : /\ Running(d)' => call'[d].name \in Names
                          /\ (Running(d)' /\ ~Making(d)') => refs'[call'[d].name] \in Trees
    BY <2>1, <2>3, <2>4, Parts
  <2>11. IInv'  BY <2>1, <2>3, <2>6, <2>9, <2>10, Parts DEF IInv, TypeOK, CallType, Ops, Labels
  <2>. QED  BY <2>1, <2>5, <2>11, StoreStutter
<1>e. ASSUME NEW l \in {"done", "failed"}, End(c, l)
      PROVE  Return(c, l) /\ \E x \in {NoTree, Litter} : tmp' = [tmp EXCEPT ![c] = x]
  BY <1>e DEF End, tempIndexPath
<1>4. CASE UpdateRef(c) \/ KilledAfterUpdate(c)
  <2>1. PICK l \in {"done", "failed"} :
           /\ Running(c) /\ End(c, l) /\ refs' = [refs EXCEPT ![call[c].name] = call[c].mem]
           /\ call[c].pc = "publish"
    BY <1>4 DEF UpdateRef, KilledAfterUpdate, Running
  <2>2. /\ call[c].mem \in Trees /\ Witnessed(c, call[c].mem) /\ Making(c) /\ call[c].name \in Names
    BY <1>r, <2>1 DEF StagedBy, Making, CallType
  <2>3. \E n \in Names, t \in Trees : refs' = [refs EXCEPT ![n] = t]  BY <2>1, <2>2
  <2>4. PICK x \in {NoTree, Litter} : Return(c, l) /\ tmp' = [tmp EXCEPT ![c] = x]  BY <1>e, <2>1
  <2>. QED  BY <2>1, <2>2, <2>3, <2>4, EndStep, StoreEnd
<1>5. CASE diffSnapshot(c) \/ diffPathSets(c) \/ Fail(c) \/ KilledWithLock(c)
  <2>1. PICK l \in {"done", "failed"} :
           /\ Running(c) /\ refs' = refs
           /\ (End(c, l) \/ (Return(c, l) /\ tmp' = [tmp EXCEPT ![tempIndexPath(c)] = Litter]))
           /\ (l = "failed" \/ call[c].pc \in {"compare", "remove"})
    BY <1>5 DEF diffSnapshot, diffPathSets, Fail, KilledWithLock, Running
  <2>2. PICK x \in {NoTree, Litter} : Return(c, l) /\ tmp' = [tmp EXCEPT ![c] = x]
    BY <1>e, <2>1 DEF tempIndexPath
  <2>3. Making(c) => l = "failed"  BY <1>r, <2>1 DEF StagedBy, Making
  <2>. QED  BY <2>1, <2>2, <2>3, EndStep, StoreEnd
<1>6. ASSUME NEW p \in Paths, CheckoutFile(c, p) \/ removeExtrasNotInSnapshot(c, p)
      PROVE  IInv' /\ (Store!Next \/ UNCHANGED Store!storeVars)
  <2>0. worktree[p] \in Contents \cup {Absent} /\ call[c].mem[p] \in Contents \cup {Absent}
    BY <1>r DEF Trees, CallType
  <2>1. PICK v \in Contents \cup {Absent} : Put(p, v, c)
    BY <1>6, <2>0 DEF CheckoutFile, removeExtrasNotInSnapshot
  <2>2. /\ call' = [call EXCEPT ![c].todo = @ \ {p}]
        /\ call[c].pc \in {"checkout", "remove"} /\ UNCHANGED <<tracked, refs, repo, tmp, writes>>
    BY <1>6 DEF CheckoutFile, removeExtrasNotInSnapshot
  <2>3. PICK r \in CallType : /\ call' = [call EXCEPT ![c] = r]
                              /\ r = [call[c] EXCEPT !.todo = call[c].todo \ {p}]
    BY <1>r, <2>2 DEF CallType
  <2>4. r.op = call[c].op /\ r.name = call[c].name /\ r.pc = call[c].pc /\ r.mem = call[c].mem
    BY <1>r, <2>3 DEF CallType
  <2>5. /\ call' \in [Calls -> CallType]
        /\ \A d \in Calls : /\ call'[d].op = call[d].op /\ call'[d].name = call[d].name
                            /\ call'[d].pc = call[d].pc /\ call'[d].mem = call[d].mem
                            /\ call[d].pc = "add" => call'[d].todo = call[d].todo
    BY <2>2, <2>3, <2>4, Parts
  <2>6. writes' \in Nat  BY <2>2, Parts
  <2>. QED  BY <2>1, <2>2, <2>5, <2>6, PutStep, StoreChange
<1>7. ASSUME NEW p \in Paths, TearFile(c, p)
      PROVE  IInv' /\ (Store!Next \/ UNCHANGED Store!storeVars)
  <2>1. PICK v \in Contents \cup {Absent} : Put(p, v, c)  BY <1>7 DEF TearFile
  <2>2. UNCHANGED <<tracked, refs, repo, call, tmp>> /\ writes' = writes + 1  BY <1>7 DEF TearFile
  <2>3. writes' \in Nat /\ call' \in [Calls -> CallType]  BY <2>2, Parts
  <2>. QED  BY <2>1, <2>2, <2>3, PutStep, StoreChange
<1>. QED  BY <1>1, <1>2, <1>3, <1>4, <1>5, <1>6, <1>7

\* Every step keeps the invariant and is a step of the store or none.
LEMMA Step ==
    ASSUME IInv, [Next]_vars
    PROVE  IInv' /\ (Store!Next \/ UNCHANGED Store!storeVars)
<1>1. ASSUME NEW c \in Calls,
             \/ ensureGitRepo(c) \/ Scan(c) \/ AddDone(c) \/ WriteTree(c) \/ listWorktreePaths(c)
             \/ ReadTree(c) \/ CheckoutIndex(c) \/ snapshotPathSet(c)
             \/ \E p \in Paths : AddFile(c, p)
      PROVE  IInv' /\ (Store!Next \/ UNCHANGED Store!storeVars)
  BY <1>1, CommandStep, StoreStutter
<1>2. ASSUME NEW p \in Paths, NEW v \in Contents \cup {Absent}, WorkspaceChange(p, v)
      PROVE  IInv' /\ (Store!Next \/ UNCHANGED Store!storeVars)
  <2>1. /\ Put(p, v, NoName) /\ writes' = writes + 1
        /\ UNCHANGED <<tracked, refs, repo, call, tmp>>
    BY <1>2 DEF WorkspaceChange
  <2>2. writes' \in Nat /\ call' \in [Calls -> CallType]  BY <2>1, Parts
  <2>. QED  BY <2>1, <2>2, PutStep, StoreChange
<1>3. ASSUME NEW p \in Paths, UserTracks(p)
      PROVE  IInv' /\ (Store!Next \/ UNCHANGED Store!storeVars)
  <2>1. /\ writes' = writes + 1 /\ tracked' = tracked \cup {p} /\ clean' = [c \in Calls |-> FALSE]
        /\ UNCHANGED <<worktree, refs, repo, call, tmp, seen, start>>
    BY <1>3 DEF UserTracks
  <2>2. writes' \in Nat /\ tracked' \subseteq Paths /\ clean' \in [Calls -> BOOLEAN]  BY <2>1, Parts
  <2>3. \A d \in Calls : (Running(d)' <=> Running(d)) /\ (Making(d)' <=> Making(d))
    BY <2>1 DEF Running, Making
  <2>4. SeenWhileMaking' /\ SeenNow'  BY <2>1, <2>3, Parts DEF SeenWhileMaking, SeenNow
  <2>5. Staged'  BY <2>1, <2>3, Parts DEF Staged, StagedBy, Witnessed
  <2>6. IndexFilesAreOwned'  BY <2>1, <2>3, Parts DEF IndexFilesAreOwned, tempIndexPath
  <2>7. \A d \in Calls : /\ Running(d)' => call'[d].name \in Names
                         /\ (Running(d)' /\ ~Making(d)') => refs'[call'[d].name] \in Trees
    BY <2>1, <2>3, Parts
  <2>8. IInv'  BY <2>1, <2>2, <2>4, <2>5, <2>6, <2>7, Parts DEF IInv, TypeOK, CallType, Ops, Labels
  <2>9. \A d \in Calls : MakingName(d)' = MakingName(d) /\ Told(d)' = Told(d)
    BY <2>1, <2>3 DEF MakingName, Told
  <2>. QED  BY <2>1, <2>8, <2>9, StoreStutter
<1>4. CASE UNCHANGED vars
  <2>1. UNCHANGED <<worktree, tracked, refs, repo, call, tmp, writes, seen, start, clean>>
    BY <1>4 DEF vars, history
  <2>2. IInv'
    BY <2>1 DEF IInv, TypeOK, SeenWhileMaking, SeenNow, Staged, StagedBy, Witnessed, Making,
                Running, IndexFilesAreOwned, tempIndexPath
  <2>3. \A d \in Calls : MakingName(d)' = MakingName(d) /\ Told(d)' = Told(d)
    BY <2>1 DEF MakingName, Making, Running, Told
  <2>. QED  BY <2>1, <2>2, <2>3, StoreStutter
<1>5. CASE Next  BY <1>1, <1>2, <1>3, <1>5, CallStep DEF Next
<1>. QED  BY <1>4, <1>5

-----------------------------------------------------------------------------
\* A call under way has a name and, unless it makes one, a snapshot to read:
\* the refs its commands resolve again and again are never gone.
THEOREM TypeCorrect == Spec => []TypeOK
<1>1. IInv /\ [Next]_vars => IInv'  BY Step
<1>2. IInv => TypeOK  BY DEF IInv
<1>. QED  BY InitIInv, <1>1, <1>2, PTL DEF Spec

\* Whatever fails, no temporary index file outlives its call unless os.Remove
\* failed on it (a killed git's lock is no index file).
THEOREM NoLitter == Spec => []IndexFilesAreOwned
<1>1. IInv /\ [Next]_vars => IInv'  BY Step
<1>2. IInv => IndexFilesAreOwned  BY DEF IInv
<1>. QED  BY InitIInv, <1>1, <1>2, PTL DEF Spec

\* The three tools together are a SnapshotStore: what a create publishes was,
\* path by path, in the workspace during the call, appears in one step, and
\* nothing else ever changes a snapshot; a create that reports success has
\* published, one that is killed may have, too.
THEOREM Refinement == Spec => ImplementsStore
<1>1. IInv /\ [Next]_vars => IInv'  BY Step
<1>2. IInv /\ [Next]_vars => [Store!Next]_(Store!storeVars)  BY Step
<1>3. Init => Store!Init
  <2>. SUFFICES ASSUME Init PROVE Store!Init  OBVIOUS
  <2>1. \A c \in Calls : ~Making(c)  BY DEF Init, At, Making, Running
  <2>2. /\ worktree \in Trees /\ refs \in [Names -> Trees \cup {NoTree}]
        /\ seen = [c \in Calls |-> NothingSeen]
    BY DEF Init
  <2>3. \A c \in Calls : call[c].pc = "idle"  BY DEF Init, At
  <2>. QED  BY <2>1, <2>2, <2>3, StoreNames DEF Store!Init
<1>. QED  BY InitIInv, <1>1, <1>2, <1>3, PTL DEF Spec, ImplementsStore, Store!Spec

-----------------------------------------------------------------------------
\* What a call nobody has disturbed holds at each stage of a capture.
CapturedBy(c) ==
    clean[c] =>
       /\ call[c].pc = "add" =>
             /\ call[c].todo \subseteq Visible(worktree)
             /\ \A p \in Paths \ call[c].todo : call[c].mem[p] = View(worktree)[p]
       /\ call[c].pc = "write" => tmp[c] = View(worktree)
       /\ call[c].pc \in {"publish", "compare"} => call[c].mem = View(worktree)

Captured == \A c \in Calls : CapturedBy(c)

\* The tree of what is visible is a tree.
LEMMA ViewType ==
    ASSUME NEW wt \in Trees
    PROVE  View(wt) \in Trees
BY DEF View, Visible, Files, Trees

\* A change at a path is either nobody's business or noted by every call but
\* the one that made it, which is not capturing.
LEMMA PutKeepsCaptured ==
    ASSUME IInv, Captured, NEW p \in Paths, NEW v, NEW self, Put(p, v, self),
           UNCHANGED tmp,
           \A d \in Calls : /\ call'[d].pc = call[d].pc /\ call'[d].mem = call[d].mem
                            /\ d # self => call'[d].todo = call[d].todo
                            /\ d = self => call[d].pc \in {"checkout", "remove"}
    PROVE  Captured'
<1>. SUFFICES ASSUME NEW d \in Calls PROVE CapturedBy(d)'  BY DEF Captured
<1>1. clean'[d] = (clean[d] /\ (d = self \/ worktree' = worktree))  BY DEF Put
<1>2. CapturedBy(d)  BY DEF Captured
<1>3. CASE d = self  BY <1>3 DEF CapturedBy
<1>4. CASE d # self /\ worktree' = worktree
  BY <1>1, <1>2, <1>4 DEF CapturedBy
<1>5. CASE d # self /\ worktree' # worktree  BY <1>1, <1>5 DEF CapturedBy
<1>. QED  BY <1>3, <1>4, <1>5

\* Only call c moves; the others hold what they held.
LEMMA OwnStepKeepsCaptured ==
    ASSUME IInv, Captured, NEW c \in Calls, CapturedBy(c)', worktree' = worktree,
           \A d \in Calls \ {c} : call'[d] = call[d] /\ tmp'[d] = tmp[d] /\ clean'[d] = clean[d]
    PROVE  Captured'
<1>1. ASSUME NEW d \in Calls \ {c} PROVE CapturedBy(d)'  BY <1>1 DEF Captured, CapturedBy
<1>. QED  BY <1>1 DEF Captured

\* The steps of a call that make its capture.
LEMMA CaptureStep ==
    ASSUME IInv, Captured, NEW c \in Calls,
           Scan(c) \/ AddDone(c) \/ WriteTree(c) \/ \E p \in Paths : AddFile(c, p)
    PROVE  Captured'
<1>r. /\ call \in [Calls -> CallType] /\ call[c] \in CallType /\ CapturedBy(c) /\ worktree \in Trees
      /\ tmp \in [Calls -> Trees \cup {NoTree, Litter}] /\ StagedBy(c)
  BY Parts DEF Captured, Staged
<1>1. CASE Scan(c)
  <2>1. /\ call'[c].mem = Empty /\ call'[c].pc = "add" /\ call'[c].todo = Visible(worktree)
        /\ UNCHANGED <<worktree, tmp, clean>> /\ \A d \in Calls \ {c} : call'[d] = call[d]
    BY <1>1, <1>r DEF Scan, CallType, history, StagedBy
  <2>2. \A p \in Paths \ Visible(worktree) : Empty[p] = View(worktree)[p]  BY DEF Empty, View
  <2>3. CapturedBy(c)'  BY <2>1, <2>2 DEF CapturedBy
  <2>. QED  BY <2>1, <2>3, OwnStepKeepsCaptured
<1>2. CASE AddDone(c)
  <2>1. /\ call'[c].pc = "write" /\ tmp'[c] = call[c].mem /\ call[c].pc = "add"
        /\ call[c].todo = {} /\ call[c].mem \in Trees
        /\ UNCHANGED <<worktree, clean>>
        /\ \A d \in Calls \ {c} : call'[d] = call[d] /\ tmp'[d] = tmp[d]
    BY <1>2, <1>r DEF AddDone, CallType, history, tempIndexPath
  <2>2. clean[c] => call[c].mem = View(worktree)
    <3>. SUFFICES ASSUME clean[c] PROVE call[c].mem = View(worktree)  OBVIOUS
    <3>1. \A p \in Paths : call[c].mem[p] = View(worktree)[p]  BY <1>r, <2>1 DEF CapturedBy
    <3>2. View(worktree) \in Trees  BY <1>r, ViewType
    <3>. QED  BY <2>1, <3>1, <3>2 DEF Trees
  <2>3. CapturedBy(c)'  BY <2>1, <2>2 DEF CapturedBy
  <2>. QED  BY <2>1, <2>3, OwnStepKeepsCaptured
<1>3. CASE WriteTree(c)
  <2>1. /\ call'[c].pc \in {"publish", "compare"} /\ call'[c].mem = TmpTree(c)
        /\ call[c].pc = "write" /\ UNCHANGED <<worktree, tmp, clean>>
        /\ \A d \in Calls \ {c} : call'[d] = call[d]
    BY <1>3, <1>r DEF WriteTree, CallType, history
  <2>2. clean[c] => TmpTree(c) = View(worktree)
    BY <1>r, <2>1, ViewType DEF CapturedBy, TmpTree, tempIndexPath
  <2>3. CapturedBy(c)'  BY <2>1, <2>2 DEF CapturedBy
  <2>. QED  BY <2>1, <2>3, OwnStepKeepsCaptured
<1>4. ASSUME NEW p \in Paths, AddFile(c, p) PROVE Captured'
  <2>1. /\ call'[c].pc = "add" /\ call'[c].todo = call[c].todo \ {p}
        /\ call'[c].mem = [call[c].mem EXCEPT ![p] = worktree[p]]
        /\ call[c].pc = "add" /\ p \in call[c].todo
        /\ UNCHANGED <<worktree, tmp, clean>> /\ \A d \in Calls \ {c} : call'[d] = call[d]
    BY <1>4, <1>r DEF AddFile, CallType, history
  <2>2. call[c].mem \in Trees  BY <1>r DEF CallType
  <2>3. ASSUME clean[c]
        PROVE  /\ call[c].todo \ {p} \subseteq Visible(worktree)
               /\ \A q \in Paths \ (call[c].todo \ {p}) : call'[c].mem[q] = View(worktree)[q]
    <3>1. /\ call[c].todo \subseteq Visible(worktree)
          /\ \A q \in Paths \ call[c].todo : call[c].mem[q] = View(worktree)[q]
      BY <1>r, <2>1, <2>3 DEF CapturedBy
    <3>2. View(worktree)[p] = worktree[p]  BY <2>1, <3>1 DEF View
    <3>. QED  BY <2>1, <2>2, <3>1, <3>2 DEF Trees
  <2>4. CapturedBy(c)'  BY <2>1, <2>3 DEF CapturedBy
  <2>. QED  BY <2>1, <2>4, OwnStepKeepsCaptured
<1>. QED  BY <1>1, <1>2, <1>3, <1>4

\* The steps of a call that have no part in a capture, and its return.
LEMMA OtherStep ==
    ASSUME IInv, Captured, NEW c \in Calls,
           \/ \E n \in Names : \/ HandleSnapshotCreate(c, n) \/ HandleSnapshotDiff(c, n)
                               \/ HandleSnapshotRestore(c, n)
           \/ SnapshotNotFound(c) \/ ensureGitRepo(c) \/ listWorktreePaths(c) \/ ReadTree(c)
           \/ CheckoutIndex(c) \/ snapshotPathSet(c)
           \/ UpdateRef(c) \/ diffSnapshot(c) \/ diffPathSets(c)
           \/ Fail(c) \/ KilledWithLock(c) \/ KilledAfterUpdate(c)
    PROVE  Captured'
<1>r. /\ call \in [Calls -> CallType] /\ call[c] \in CallType
      /\ tmp \in [Calls -> Trees \cup {NoTree, Litter}] /\ clean \in [Calls -> BOOLEAN]
  BY Parts
<1>1. /\ worktree' = worktree
      /\ \A d \in Calls \ {c} : call'[d] = call[d] /\ tmp'[d] = tmp[d] /\ clean'[d] = clean[d]
  <2>1. ASSUME NEW o, NEW n, NEW l, Begin(c, o, n, l)
        PROVE  /\ worktree' = worktree
               /\ \A d \in Calls \ {c} : call'[d] = call[d] /\ tmp'[d] = tmp[d] /\ clean'[d] = clean[d]
    BY <1>r, <2>1 DEF Begin
  <2>2. ASSUME NEW l, NEW x, Return(c, l), tmp' = [tmp EXCEPT ![tempIndexPath(c)] = x]
        PROVE  /\ worktree' = worktree
               /\ \A d \in Calls \ {c} : call'[d] = call[d] /\ tmp'[d] = tmp[d] /\ clean'[d] = clean[d]
    BY <1>r, <2>2 DEF Return, tempIndexPath
  <2>3. CASE \E n \in Names : \/ HandleSnapshotCreate(c, n) \/ HandleSnapshotDiff(c, n)
                              \/ HandleSnapshotRestore(c, n)
    BY <2>1, <2>3 DEF HandleSnapshotCreate, HandleSnapshotDiff, HandleSnapshotRestore
  <2>4. CASE \/ UpdateRef(c) \/ diffSnapshot(c) \/ diffPathSets(c)
             \/ Fail(c) \/ KilledWithLock(c) \/ KilledAfterUpdate(c)
    <3>1. \E l, x : Return(c, l) /\ tmp' = [tmp EXCEPT ![tempIndexPath(c)] = x]
      BY <2>4 DEF UpdateRef, diffSnapshot, diffPathSets, Fail, KilledWithLock, KilledAfterUpdate, End
    <3>. QED  BY <2>2, <3>1
  <2>5. CASE SnapshotNotFound(c) \/ ensureGitRepo(c) \/ ReadTree(c)
    BY <1>r, <2>5 DEF SnapshotNotFound, ensureGitRepo, ReadTree, history, tempIndexPath
  <2>6. CASE listWorktreePaths(c) \/ CheckoutIndex(c) \/ snapshotPathSet(c)
    BY <1>r, <2>6 DEF listWorktreePaths, CheckoutIndex, snapshotPathSet, history
  <2>. QED  BY <2>3, <2>4, <2>5, <2>6
<1>2. call'[c].pc \notin {"add", "write", "publish", "compare"}
  <2>0. ASSUME NEW o, NEW n, NEW l, Begin(c, o, n, l) PROVE call'[c].pc = l
    <3>1. call'[c] = [At(l) EXCEPT !.op = o, !.name = n]  BY <1>r, <2>0 DEF Begin
    <3>. QED  BY <3>1 DEF At
  <2>1. CASE \E n \in Names : HandleSnapshotCreate(c, n)
    <3>1. PICK n \in Names : Begin(c, "create", n, IF repo THEN "scan" ELSE "init")
      BY <2>1 DEF HandleSnapshotCreate
    <3>2. call'[c].pc = IF repo THEN "scan" ELSE "init"  BY <2>0, <3>1
    <3>. QED  BY <3>2
  <2>2. CASE \E n \in Names : HandleSnapshotDiff(c, n) \/ HandleSnapshotRestore(c, n)
    <3>1. call'[c].pc \in {"scan", "inventory"}
      BY <2>0, <2>2 DEF HandleSnapshotDiff, HandleSnapshotRestore
    <3>. QED  BY <3>1
  <2>3. CASE \/ UpdateRef(c) \/ diffSnapshot(c) \/ diffPathSets(c)
             \/ Fail(c) \/ KilledWithLock(c) \/ KilledAfterUpdate(c)
    <3>1. \E l \in {"done", "failed"} : Return(c, l)
      BY <2>3 DEF UpdateRef, diffSnapshot, diffPathSets, Fail, KilledWithLock, KilledAfterUpdate, End
    <3>. QED  BY <1>r, <3>1 DEF Return, At
  <2>4. CASE SnapshotNotFound(c)  BY <1>r, <2>4 DEF SnapshotNotFound, At
  <2>5. CASE ensureGitRepo(c) \/ ReadTree(c)
    BY <1>r, <2>5 DEF ensureGitRepo, ReadTree, CallType
  <2>6. CASE listWorktreePaths(c)  BY <1>r, <2>6 DEF listWorktreePaths, CallType
  <2>7. CASE CheckoutIndex(c) \/ snapshotPathSet(c)
    BY <1>r, <2>7 DEF CheckoutIndex, snapshotPathSet, CallType
  <2>. QED  BY <2>1, <2>2, <2>3, <2>4, <2>5, <2>6, <2>7
<1>3. CapturedBy(c)'  BY <1>2 DEF CapturedBy
<1>. QED  BY <1>1, <1>3, OwnStepKeepsCaptured

\* Every step keeps what undisturbed calls have collected exact.
LEMMA CapturedStep ==
    ASSUME IInv, Captured, [Next]_vars
    PROVE  Captured'
<1>1. ASSUME NEW c \in Calls, NEW p \in Paths, CheckoutFile(c, p) \/ removeExtrasNotInSnapshot(c, p)
      PROVE  Captured'
  <2>1. /\ \E v : Put(p, v, c) /\ UNCHANGED tmp
        /\ call' = [call EXCEPT ![c].todo = @ \ {p}] /\ call[c].pc \in {"checkout", "remove"}
    BY <1>1 DEF CheckoutFile, removeExtrasNotInSnapshot
  <2>2. \A d \in Calls : /\ call'[d].pc = call[d].pc /\ call'[d].mem = call[d].mem
                         /\ d # c => call'[d].todo = call[d].todo
                         /\ d = c => call[d].pc \in {"checkout", "remove"}
    BY <2>1, Parts DEF CallType
  <2>. QED  BY <2>1, <2>2, PutKeepsCaptured
<1>6. ASSUME NEW c \in Calls, NEW p \in Paths, TearFile(c, p) PROVE Captured'
  <2>1. PICK v : Put(p, v, c) /\ UNCHANGED <<call, tmp>> /\ call[c].pc = "checkout"
    BY <1>6 DEF TearFile
  <2>. QED  BY <2>1, PutKeepsCaptured
<1>2. ASSUME NEW p \in Paths, NEW v \in Contents \cup {Absent}, WorkspaceChange(p, v)
      PROVE  Captured'
  <2>1. Put(p, v, NoName) /\ UNCHANGED <<call, tmp>>  BY <1>2 DEF WorkspaceChange
  <2>2. \A d \in Calls : d # NoName  BY WorktreeAssumption
  <2>. QED  BY <2>1, <2>2, PutKeepsCaptured
<1>3. ASSUME NEW p \in Paths, UserTracks(p) PROVE Captured'
  BY <1>3 DEF UserTracks, Captured, CapturedBy
<1>4. CASE UNCHANGED vars  BY <1>4 DEF vars, history, Captured, CapturedBy
<1>5. CASE Next  BY <1>1, <1>2, <1>3, <1>5, <1>6, CaptureStep, OtherStep DEF Next
<1>. QED  BY <1>4, <1>5

\* Two snapshot operations at a time do not see each other: whatever other
\* calls do beside it, a capture nobody disturbed is the visible worktree.
THEOREM CleanCapture == Spec => []CleanCaptureIsExact
<1>1. Init => Captured  BY DEF Init, Captured, CapturedBy
<1>2. IInv /\ [Next]_vars => IInv'  BY Step
<1>3. IInv /\ Captured /\ [Next]_vars => Captured'  BY CapturedStep
<1>4. Captured => CleanCaptureIsExact  BY DEF Captured, CapturedBy, CleanCaptureIsExact
<1>. QED  BY InitIInv, <1>1, <1>2, <1>3, <1>4, PTL DEF Spec

-----------------------------------------------------------------------------
\* What a restore may take for the inventory of the worktree it began with: a
\* failing ls-files counts as an empty one.
Inventory(c) == {Visible(start[c]) \cup tracked, {}}

\* How far a restore nobody has disturbed has come at each stage: the files
\* done are as the snapshot has them; those it does not list are as they were.
RestoredBy(c) ==
    clean[c] =>
       /\ call[c].pc \in {"inventory", "read", "load"} => worktree = start[c]
       /\ call[c].pc \in {"read", "load", "checkout", "remove"} => call[c].before \in Inventory(c)
       /\ call[c].pc = "checkout" =>
             /\ TmpTree(c) = call[c].mem /\ call[c].todo \subseteq Files(call[c].mem)
             /\ \A p \in Paths \ call[c].todo :
                   worktree[p] = IF p \in Files(call[c].mem) THEN call[c].mem[p] ELSE start[c][p]
       /\ call[c].pc = "remove" =>
             /\ call[c].todo \subseteq call[c].before \ Files(call[c].mem)
             /\ worktree = [p \in Paths |->
                              IF p \in Files(call[c].mem) THEN call[c].mem[p]
                              ELSE IF p \in call[c].before \ (call[c].todo \cup Quoted) THEN Absent
                              ELSE start[c][p]]

Restored == \A c \in Calls : RestoredBy(c)

\* Only call c moves; the others have come as far as they had.
LEMMA OwnStepKeepsRestored ==
    ASSUME Restored, NEW c \in Calls, RestoredBy(c)', UNCHANGED <<worktree, tracked>>,
           \A d \in Calls \ {c} : /\ call'[d] = call[d] /\ tmp'[d] = tmp[d]
                                  /\ clean'[d] = clean[d] /\ start'[d] = start[d]
    PROVE  Restored'
<1>1. ASSUME NEW d \in Calls \ {c} PROVE RestoredBy(d)'
  BY <1>1 DEF Restored, RestoredBy, Inventory, TmpTree, tempIndexPath
<1>. QED  BY <1>1 DEF Restored

\* A change at a path is nobody's business, or ends the promise to every call
\* but the one that made it.
LEMMA PutKeepsOthers ==
    ASSUME Restored, NEW p \in Paths, NEW v, NEW self, Put(p, v, self), UNCHANGED <<tracked, tmp>>,
           NEW d \in Calls, d # self, call'[d] = call[d]
    PROVE  RestoredBy(d)'
<1>1. clean'[d] = (clean[d] /\ worktree' = worktree) /\ start' = start  BY DEF Put
<1>2. RestoredBy(d)  BY DEF Restored
<1>. QED  BY <1>1, <1>2 DEF RestoredBy, Inventory, TmpTree, tempIndexPath

\* checkout-index is at a file it has still to write, or has written it.
LEMMA CheckoutKeepsRestored ==
    ASSUME IInv, Restored, NEW c \in Calls, NEW p \in Paths, CheckoutFile(c, p) \/ TearFile(c, p)
    PROVE  Restored'
<1>r. /\ call \in [Calls -> CallType] /\ call[c] \in CallType /\ RestoredBy(c) /\ worktree \in Trees
      /\ start[c] \in Trees
  BY Parts DEF Restored
<1>1. PICK v : /\ call[c].pc = "checkout" /\ p \in call[c].todo /\ Put(p, v, c)
               /\ call'[c].todo = call[c].todo \/ v = call[c].mem[p]
  BY <1>r DEF CheckoutFile, TearFile, CallType
<1>2. /\ UNCHANGED <<tracked, tmp, start>>
      /\ call'[c].pc = "checkout" /\ call'[c].todo \in {call[c].todo, call[c].todo \ {p}}
      /\ call'[c].mem = call[c].mem /\ call'[c].before = call[c].before
      /\ \A d \in Calls \ {c} : call'[d] = call[d]
  <2>1. CASE CheckoutFile(c, p)  BY <1>r, <2>1 DEF CheckoutFile, CallType, Put
  <2>2. CASE TearFile(c, p)  BY <1>r, <2>2 DEF TearFile, CallType, Put
  <2>. QED  BY <2>1, <2>2
<1>3. worktree' = [worktree EXCEPT ![p] = v] /\ (clean'[c] => clean[c])  BY <1>1 DEF Put
<1>4. RestoredBy(c)'
  <2>1. SUFFICES ASSUME clean[c]
                 PROVE  /\ call'[c].before \in Inventory(c)'
                        /\ TmpTree(c)' = call'[c].mem /\ call'[c].todo \subseteq Files(call'[c].mem)
                        /\ \A q \in Paths \ call'[c].todo :
                              worktree'[q] = IF q \in Files(call'[c].mem) THEN call'[c].mem[q]
                                             ELSE start'[c][q]
    BY <1>2, <1>3 DEF RestoredBy
  <2>2. /\ call[c].before \in Inventory(c) /\ TmpTree(c) = call[c].mem
        /\ call[c].todo \subseteq Files(call[c].mem)
        /\ \A q \in Paths \ call[c].todo :
              worktree[q] = IF q \in Files(call[c].mem) THEN call[c].mem[q] ELSE start[c][q]
    BY <1>r, <1>1, <2>1 DEF RestoredBy
  <2>3. call'[c].before \in Inventory(c)' /\ TmpTree(c)' = call'[c].mem
    BY <1>2, <2>2 DEF Inventory, TmpTree, tempIndexPath
  <2>. DEFINE m == call[c].mem
              F == Files(m)
  <2>4. p \in F /\ call'[c].todo \subseteq F /\ Files(call'[c].mem) = F  BY <1>1, <1>2, <2>2
  <2>5. \A q \in Paths \ call[c].todo : worktree[q] = IF q \in F THEN m[q] ELSE start[c][q]
    BY <2>2
  <2>6. call'[c].todo = call[c].todo \/ v = m[p]  BY <1>1
  <2>. HIDE DEF m, F
  <2>7. ASSUME NEW q \in Paths \ call'[c].todo
        PROVE  worktree'[q] = IF q \in F THEN m[q] ELSE start[c][q]
    <3>1. CASE q = p
      <4>1. v = m[p] /\ worktree'[q] = v  BY <1>1, <1>3, <1>r, <2>6, <2>7, <3>1 DEF Trees
      <4>. QED  BY <2>4, <3>1, <4>1
    <3>2. CASE q # p
      <4>1. q \in Paths \ call[c].todo /\ worktree'[q] = worktree[q]
        BY <1>2, <1>3, <1>r, <2>7, <3>2 DEF Trees
      <4>. QED  BY <2>5, <4>1
    <3>. QED  BY <3>1, <3>2
  <2>. QED  BY <1>2, <2>3, <2>4, <2>7 DEF m
<1>5. \A d \in Calls \ {c} : RestoredBy(d)'  BY <1>1, <1>2, PutKeepsOthers
<1>. QED  BY <1>4, <1>5 DEF Restored

\* One more path the snapshot lacks goes, unless its name is quoted.
LEMMA RemovalKeepsRestored ==
    ASSUME IInv, Restored, NEW c \in Calls, NEW p \in Paths, removeExtrasNotInSnapshot(c, p)
    PROVE  Restored'
<1>. DEFINE v == IF p \in Quoted THEN worktree[p] ELSE Absent
            m == call[c].mem
            F == Files(m)
            b == call[c].before
<1>r. /\ call \in [Calls -> CallType] /\ call[c] \in CallType /\ RestoredBy(c) /\ worktree \in Trees
      /\ start[c] \in Trees
  BY Parts DEF Restored
<1>1. /\ call[c].pc = "remove" /\ p \in call[c].todo /\ Put(p, v, c)
      /\ UNCHANGED <<tracked, tmp, start>>
      /\ call'[c].pc = "remove" /\ call'[c].todo = call[c].todo \ {p}
      /\ call'[c].mem = m /\ call'[c].before = b
      /\ \A d \in Calls \ {c} : call'[d] = call[d]
  BY <1>r DEF removeExtrasNotInSnapshot, CallType, Put
<1>2. worktree' = [worktree EXCEPT ![p] = v] /\ (clean'[c] => clean[c])  BY <1>1 DEF Put
<1>3. RestoredBy(c)'
  <2>1. SUFFICES ASSUME clean[c]
                 PROVE  /\ call'[c].before \in Inventory(c)'
                        /\ call'[c].todo \subseteq call'[c].before \ Files(call'[c].mem)
                        /\ worktree' = [q \in Paths |->
                              IF q \in Files(call'[c].mem) THEN call'[c].mem[q]
                              ELSE IF q \in call'[c].before \ (call'[c].todo \cup Quoted) THEN Absent
                              ELSE start'[c][q]]
    BY <1>1, <1>2 DEF RestoredBy
  <2>2. /\ b \in Inventory(c) /\ call[c].todo \subseteq b \ F
        /\ worktree = [q \in Paths |-> IF q \in F THEN m[q]
                                       ELSE IF q \in b \ (call[c].todo \cup Quoted) THEN Absent
                                       ELSE start[c][q]]
    BY <1>r, <1>1, <2>1 DEF RestoredBy
  <2>3. call'[c].before \in Inventory(c)'  BY <1>1, <2>2 DEF Inventory
  <2>4. Files(call'[c].mem) = F  BY <1>1
  <2>. HIDE DEF m, F, b
  <2>5. worktree' = [q \in Paths |-> IF q \in F THEN m[q]
                                     ELSE IF q \in b \ ((call[c].todo \ {p}) \cup Quoted) THEN Absent
                                     ELSE start[c][q]]
    BY <1>1, <1>2, <2>2
  <2>. QED  BY <1>1, <2>2, <2>3, <2>4, <2>5
<1>. HIDE DEF v
<1>4. \A d \in Calls \ {c} : RestoredBy(d)'  BY <1>1, PutKeepsOthers
<1>. QED  BY <1>3, <1>4 DEF Restored

\* The steps of a restore that change no file.
LEMMA RestoreStep ==
    ASSUME IInv, Restored, NEW c \in Calls,
           \/ \E n \in Names : HandleSnapshotRestore(c, n)
           \/ listWorktreePaths(c) \/ ReadTree(c) \/ CheckoutIndex(c) \/ snapshotPathSet(c)
    PROVE  Restored'
<1>r. /\ call \in [Calls -> CallType] /\ call[c] \in CallType /\ RestoredBy(c)
      /\ tmp \in [Calls -> Trees \cup {NoTree, Litter}] /\ start \in [Calls -> Trees]
      /\ clean \in [Calls -> BOOLEAN] /\ worktree \in Trees
  BY Parts DEF Restored
<1>1. ASSUME NEW n \in Names, HandleSnapshotRestore(c, n) PROVE Restored'
  <2>1. /\ call' = [call EXCEPT ![c] = [At("inventory") EXCEPT !.op = "restore", !.name = n]]
        /\ start' = [start EXCEPT ![c] = worktree] /\ clean' = [clean EXCEPT ![c] = TRUE]
        /\ UNCHANGED <<worktree, tracked, tmp>>
    BY <1>1 DEF HandleSnapshotRestore, Begin
  <2>2. call'[c].pc = "inventory" /\ start'[c] = worktree  BY <1>r, <2>1 DEF At
  <2>3. RestoredBy(c)'  BY <2>1, <2>2 DEF RestoredBy
  <2>. QED  BY <1>r, <2>1, <2>3, OwnStepKeepsRestored
<1>2. CASE listWorktreePaths(c)
  <2>1. /\ call[c].pc = "inventory" /\ call'[c].pc = "read" /\ call'[c].before \in {Listing, {}}
        /\ \A d \in Calls \ {c} : call'[d] = call[d]
        /\ UNCHANGED <<worktree, tracked, tmp, clean, start>>
    BY <1>2, <1>r DEF listWorktreePaths, CallType, history
  <2>2. RestoredBy(c)'  BY <1>r, <2>1 DEF RestoredBy, Inventory, Listing
  <2>. QED  BY <2>1, <2>2, OwnStepKeepsRestored
<1>3. CASE ReadTree(c)
  <2>1. /\ call[c].pc = "read" /\ call'[c].pc = "load" /\ call'[c].before = call[c].before
        /\ \A d \in Calls \ {c} : call'[d] = call[d] /\ tmp'[d] = tmp[d]
        /\ UNCHANGED <<worktree, tracked, clean, start>>
    BY <1>3, <1>r DEF ReadTree, CallType, history, tempIndexPath
  <2>2. RestoredBy(c)'  BY <1>r, <2>1 DEF RestoredBy, Inventory
  <2>. QED  BY <2>1, <2>2, OwnStepKeepsRestored
<1>4. CASE CheckoutIndex(c)
  <2>1. /\ call[c].pc = "load" /\ call'[c].pc = "checkout" /\ call'[c].before = call[c].before
        /\ call'[c].mem = TmpTree(c) /\ call'[c].todo = Files(TmpTree(c))
        /\ \A d \in Calls \ {c} : call'[d] = call[d]
        /\ UNCHANGED <<worktree, tracked, tmp, clean, start>>
    BY <1>4, <1>r DEF CheckoutIndex, CallType, history
  <2>2. TmpTree(c)' = call'[c].mem  BY <2>1 DEF TmpTree, tempIndexPath
  <2>3. Files(call'[c].mem) = call'[c].todo  BY <2>1
  <2>4. clean[c] => \A p \in Paths \ call'[c].todo :
           worktree[p] = IF p \in Files(call'[c].mem) THEN call'[c].mem[p] ELSE start[c][p]
    BY <1>r, <2>1, <2>3 DEF RestoredBy
  <2>5. RestoredBy(c)'  BY <1>r, <2>1, <2>2, <2>3, <2>4 DEF RestoredBy, Inventory
  <2>. QED  BY <2>1, <2>5, OwnStepKeepsRestored
<1>5. CASE snapshotPathSet(c)
  <2>1. /\ call[c].pc = "checkout" /\ call[c].todo = {} /\ call'[c].pc = "remove"
        /\ call'[c].before = call[c].before /\ call'[c].mem = call[c].mem
        /\ call'[c].todo = call[c].before \ Files(TmpTree(c))
        /\ \A d \in Calls \ {c} : call'[d] = call[d]
        /\ UNCHANGED <<worktree, tracked, tmp, clean, start>>
    BY <1>5, <1>r DEF snapshotPathSet, CallType, history
  <2>2. ASSUME clean[c]
        PROVE  /\ call'[c].todo = call[c].before \ Files(call'[c].mem)
               /\ worktree = [p \in Paths |-> IF p \in Files(call'[c].mem) THEN call'[c].mem[p] ELSE start[c][p]]
    <3>1. /\ TmpTree(c) = call'[c].mem
          /\ \A p \in Paths : worktree[p] = IF p \in Files(call'[c].mem) THEN call'[c].mem[p] ELSE start[c][p]
      BY <1>r, <2>1, <2>2 DEF RestoredBy
    <3>. QED  BY <1>r, <2>1, <3>1 DEF Trees
  <2>3. RestoredBy(c)'
    <3>1. SUFFICES ASSUME clean[c]
                   PROVE  /\ call'[c].before \in Inventory(c)'
                          /\ call'[c].todo \subseteq call'[c].before \ Files(call'[c].mem)
                          /\ worktree = [q \in Paths |->
                                IF q \in Files(call'[c].mem) THEN call'[c].mem[q]
                                ELSE IF q \in call'[c].before \ (call'[c].todo \cup Quoted) THEN Absent
                                ELSE start[c][q]]
      BY <2>1 DEF RestoredBy
    <3>2. call'[c].before \in Inventory(c)'  BY <1>r, <2>1, <3>1 DEF RestoredBy, Inventory
    <3>. QED  BY <2>1, <2>2, <3>1, <3>2
  <2>. QED  BY <2>1, <2>3, OwnStepKeepsRestored
<1>. QED  BY <1>1, <1>2, <1>3, <1>4, <1>5

\* The steps that have no part in a restore, and a call's return.
LEMMA NoRestoreStep ==
    ASSUME IInv, Restored, NEW c \in Calls,
           \/ \E n \in Names : HandleSnapshotCreate(c, n) \/ HandleSnapshotDiff(c, n)
           \/ SnapshotNotFound(c) \/ ensureGitRepo(c) \/ Scan(c) \/ AddDone(c) \/ WriteTree(c)
           \/ UpdateRef(c) \/ diffSnapshot(c) \/ diffPathSets(c)
           \/ Fail(c) \/ KilledWithLock(c) \/ KilledAfterUpdate(c)
           \/ \E p \in Paths : AddFile(c, p)
    PROVE  Restored'
<1>r. /\ call \in [Calls -> CallType] /\ call[c] \in CallType
      /\ tmp \in [Calls -> Trees \cup {NoTree, Litter}] /\ start \in [Calls -> Trees]
      /\ clean \in [Calls -> BOOLEAN]
  BY Parts
<1>. DEFINE Elsewhere == call'[c].pc \notin {"inventory", "read", "load", "checkout", "remove"}
            Alone == /\ UNCHANGED <<worktree, tracked>>
                     /\ \A d \in Calls \ {c} : /\ call'[d] = call[d] /\ tmp'[d] = tmp[d]
                                               /\ clean'[d] = clean[d] /\ start'[d] = start[d]
<1>1. ASSUME NEW o, NEW n, NEW l, l \in {"init", "scan"}, Begin(c, o, n, l) PROVE Elsewhere /\ Alone
  BY <1>r, <1>1 DEF Begin, At
<1>2. ASSUME NEW l, l \in {"done", "failed"}, Return(c, l),
             NEW x, tmp' = [tmp EXCEPT ![tempIndexPath(c)] = x]
      PROVE  Elsewhere /\ Alone
  BY <1>r, <1>2 DEF Return, At, tempIndexPath
<1>3. ASSUME NEW n \in Names, HandleSnapshotCreate(c, n) \/ HandleSnapshotDiff(c, n) PROVE Elsewhere /\ Alone
  <2>1. CASE HandleSnapshotCreate(c, n)
    <3>. DEFINE l == IF repo THEN "scan" ELSE "init"
    <3>1. l \in {"init", "scan"} /\ Begin(c, "create", n, l)  BY <2>1 DEF HandleSnapshotCreate
    <3>. HIDE DEF l, Elsewhere, Alone
    <3>. QED  BY <1>1, <3>1
  <2>2. CASE HandleSnapshotDiff(c, n)
    <3>1. Begin(c, "diff", n, "scan")  BY <2>2 DEF HandleSnapshotDiff
    <3>. HIDE DEF Elsewhere, Alone
    <3>. QED  BY <1>1, <3>1
  <2>. QED  BY <1>3, <2>1, <2>2
<1>4. ASSUME \/ UpdateRef(c) \/ diffSnapshot(c) \/ diffPathSets(c)
             \/ Fail(c) \/ KilledWithLock(c) \/ KilledAfterUpdate(c)
      PROVE  Elsewhere /\ Alone
  <2>1. \E l \in {"done", "failed"} : \E x : Return(c, l) /\ tmp' = [tmp EXCEPT ![tempIndexPath(c)] = x]
    BY <1>4 DEF UpdateRef, diffSnapshot, diffPathSets, Fail, KilledWithLock, KilledAfterUpdate, End
  <2>. HIDE DEF Elsewhere, Alone
  <2>. QED  BY <1>2, <2>1
<1>5. ASSUME SnapshotNotFound(c) PROVE Elsewhere /\ Alone
  BY <1>r, <1>5 DEF SnapshotNotFound, At, history
<1>6. ASSUME ensureGitRepo(c) PROVE Elsewhere /\ Alone
  BY <1>r, <1>6 DEF ensureGitRepo, CallType, history
<1>7. ASSUME Scan(c) PROVE Elsewhere /\ Alone
  BY <1>r, <1>7 DEF Scan, CallType, history
<1>8. ASSUME AddDone(c) PROVE Elsewhere /\ Alone
  BY <1>r, <1>8 DEF AddDone, CallType, history, tempIndexPath
<1>9. ASSUME WriteTree(c) PROVE Elsewhere /\ Alone
  BY <1>r, <1>9 DEF WriteTree, CallType, history
<1>10. ASSUME NEW p \in Paths, AddFile(c, p) PROVE Elsewhere /\ Alone
  BY <1>r, <1>10 DEF AddFile, CallType, history
<1>11. Elsewhere /\ Alone  BY <1>3, <1>4, <1>5, <1>6, <1>7, <1>8, <1>9, <1>10
<1>12. RestoredBy(c)'  BY <1>11 DEF RestoredBy
<1>. QED  BY <1>11, <1>12, OwnStepKeepsRestored

\* Every step keeps what undisturbed restores have done right.
LEMMA RestoredStep ==
    ASSUME IInv, Restored, [Next]_vars
    PROVE  Restored'
<1>1. ASSUME NEW p \in Paths, NEW v \in Contents \cup {Absent}, WorkspaceChange(p, v)
      PROVE  Restored'
  <2>1. Put(p, v, NoName) /\ UNCHANGED <<tracked, call, tmp>>  BY <1>1 DEF WorkspaceChange
  <2>2. \A d \in Calls : d # NoName /\ call'[d] = call[d]  BY <2>1, WorktreeAssumption
  <2>3. \A d \in Calls : RestoredBy(d)'  BY <2>1, <2>2, PutKeepsOthers
  <2>. QED  BY <2>3 DEF Restored
<1>2. ASSUME NEW p \in Paths, UserTracks(p) PROVE Restored'
  BY <1>2 DEF UserTracks, Restored, RestoredBy
<1>3. CASE UNCHANGED vars
  BY <1>3 DEF vars, history, Restored, RestoredBy, Inventory, TmpTree, tempIndexPath
<1>4. CASE Next
  BY <1>1, <1>2, <1>4, CheckoutKeepsRestored, RemovalKeepsRestored, RestoreStep, NoRestoreStep DEF Next
<1>. QED  BY <1>3, <1>4

\* The step with which a restore reports success changes no file, and all it
\* had to do is done.
LEMMA DoneStep ==
    ASSUME IInv, [Next]_vars, NEW c \in Calls, call[c].pc = "remove", call'[c].pc = "done"
    PROVE  worktree' = worktree /\ call[c].todo = {}
<1>r. /\ call \in [Calls -> CallType] /\ call[c] \in CallType  BY Parts
<1>1. ASSUME NEW d \in Calls, NEW o, NEW n, NEW l, Begin(d, o, n, l) PROVE FALSE
  <2>1. call' = [call EXCEPT ![d] = [At(l) EXCEPT !.op = o, !.name = n]] /\ call[d].pc = "idle"
    BY <1>1 DEF Begin
  <2>2. d # c  BY <2>1
  <2>. QED  BY <1>r, <2>1, <2>2
<1>2. ASSUME NEW d \in Calls, NEW l, Return(d, l) PROVE d = c /\ l = "done" /\ worktree' = worktree
  BY <1>r, <1>2 DEF Return, At
<1>3. ASSUME NEW d \in Calls, SnapshotNotFound(d) \/ ensureGitRepo(d) \/ Scan(d) \/ AddDone(d) \/ WriteTree(d)
      PROVE  FALSE
  BY <1>r, <1>3 DEF SnapshotNotFound, ensureGitRepo, Scan, AddDone, WriteTree, At, CallType
<1>4. ASSUME NEW d \in Calls, listWorktreePaths(d) \/ ReadTree(d) \/ CheckoutIndex(d) \/ snapshotPathSet(d)
      PROVE  FALSE
  BY <1>r, <1>4 DEF listWorktreePaths, ReadTree, CheckoutIndex, snapshotPathSet, CallType
<1>5. ASSUME NEW d \in Calls, NEW p \in Paths,
             AddFile(d, p) \/ TearFile(d, p) \/ CheckoutFile(d, p) \/ removeExtrasNotInSnapshot(d, p)
      PROVE  FALSE
  BY <1>r, <1>5 DEF AddFile, TearFile, CheckoutFile, removeExtrasNotInSnapshot, CallType
<1>6. ASSUME NEW d \in Calls,
             \/ UpdateRef(d) \/ diffSnapshot(d) \/ diffPathSets(d)
             \/ Fail(d) \/ KilledWithLock(d) \/ KilledAfterUpdate(d)
      PROVE  worktree' = worktree /\ call[c].todo = {}
  <2>1. CASE UpdateRef(d)
    <3>1. d = c  BY <1>2, <2>1 DEF UpdateRef, End
    <3>. QED  BY <2>1, <3>1 DEF UpdateRef
  <2>2. CASE diffSnapshot(d)
    <3>1. d = c  BY <1>2, <2>2 DEF diffSnapshot, End
    <3>. QED  BY <2>2, <3>1 DEF diffSnapshot
  <2>3. CASE diffPathSets(d)
    <3>1. d = c /\ worktree' = worktree  BY <1>2, <2>3 DEF diffPathSets, End
    <3>. QED  BY <2>3, <3>1 DEF diffPathSets
  <2>4. CASE Fail(d) \/ KilledWithLock(d) \/ KilledAfterUpdate(d)
    <3>1. Return(d, "failed")  BY <2>4 DEF Fail, KilledWithLock, KilledAfterUpdate, End
    <3>. QED  BY <1>2, <3>1
  <2>. QED  BY <1>6, <2>1, <2>2, <2>3, <2>4
<1>7. ASSUME NEW p \in Paths, UserTracks(p) \/ \E v \in Contents \cup {Absent} : WorkspaceChange(p, v)
      PROVE  FALSE
  BY <1>7 DEF UserTracks, WorkspaceChange
<1>8. CASE UNCHANGED vars  BY <1>8 DEF vars
<1>9. CASE Next
  BY <1>1, <1>3, <1>4, <1>5, <1>6, <1>7, <1>9
     DEF Next, HandleSnapshotCreate, HandleSnapshotDiff, HandleSnapshotRestore
<1>. QED  BY <1>8, <1>9

\* A restore that nobody has disturbed, whose inventory did not fail and that
\* reports success has put the worktree where it says (restoreSnapshot): the
\* snapshot's files are there, what it listed besides under a plain name is
\* gone, what it neither listed nor has is as it was.
THEOREM CleanRestore == Spec => CleanRestoreIsExact
<1>. DEFINE listed(c) == Visible(start[c]) \cup tracked
            kept(c)   == Files(call[c].mem)
            Right(c)  == \A p \in Paths :
                            /\ p \in kept(c) => worktree'[p] = call[c].mem[p]
                            /\ p \in (listed(c) \ kept(c)) \ Quoted => worktree'[p] = Absent
                            /\ p \notin listed(c) \cup kept(c) => worktree'[p] = start[c][p]
<1>1. Init => Restored  BY DEF Init, At, Restored, RestoredBy
<1>2. IInv /\ [Next]_vars => IInv'  BY Step
<1>3. IInv /\ Restored /\ [Next]_vars => Restored'  BY RestoredStep
<1>4. ASSUME IInv, Restored, [Next]_vars, NEW c \in Calls,
             clean[c], call[c].pc = "remove", call'[c].pc = "done", call[c].before # {}
      PROVE  Right(c)
  <2>1. worktree' = worktree /\ call[c].todo = {}  BY <1>4, DoneStep
  <2>2. /\ call[c].before = Visible(start[c]) \cup tracked
        /\ worktree = [p \in Paths |->
                         IF p \in Files(call[c].mem) THEN call[c].mem[p]
                         ELSE IF p \in call[c].before \ (call[c].todo \cup Quoted) THEN Absent
                         ELSE start[c][p]]
    BY <1>4 DEF Restored, RestoredBy, Inventory
  <2>. QED  BY <2>1, <2>2
<1>5. IInv /\ Restored /\ [Next]_vars =>
        [\A c \in Calls :
          (clean[c] /\ call[c].pc = "remove" /\ call'[c].pc = "done" /\ call[c].before # {})
          => Right(c)]_vars
  BY <1>4
<1>. QED  BY InitIInv, <1>1, <1>2, <1>3, <1>5, PTL DEF Spec, CleanRestoreIsExact
=============================================================================
